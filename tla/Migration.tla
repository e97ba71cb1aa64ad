----------------------------- MODULE Migration -----------------------------
(***************************************************************************)
(* go-mall-schema-migrate: versioned SQL files, embedded in the binary, are *)
(* executed one after the other under a MySQL session lock, and the table  *)
(* schema_migrations says which (internal/migration, cmd/schema-migrate).  *)
(*                                                                         *)
(* Several commands run at once, from binaries with different files.  A    *)
(* command may die or lose its connection at any moment.  MySQL does not   *)
(* undo what it executes for a client that has gone, and keeps the lock    *)
(* until that session ends.                                                *)
(*                                                                         *)
(* The schema is seen one version at a time: which files made the part of  *)
(* it that a version is about.  Names and texts stand for the checksum.    *)
(***************************************************************************)
EXTENDS Naturals

CONSTANTS
  Commands,         \* processes of go-mall-schema-migrate
  Files,            \* the .sql files embedded in the binary of each
  ManyStatements,   \* the texts of more than one SQL statement
  MultiStatements,  \* commands whose DSN says multiStatements=true
  NoOne,            \* the lock is free
  NoRow,            \* schema_migrations does not name the version
  Absent, Broken,   \* the version left no trace, or one that fits no file
  NoRun             \* the server executes nothing for a session

\* LoadFiles: a version has one name, an up and a down file.
Loadable(files) ==
  /\ files # {}
  /\ \A f, g \in files :
       f.version = g.version =>
         f.name = g.name /\ (f.direction = g.direction => f = g)
  /\ \A f \in files : \A d \in {"up", "down"} :
       \E g \in files : g.version = f.version /\ g.direction = d

LoadFiles(files) ==
  [v \in {f.version : f \in files} |->
     LET File(d) == CHOOSE f \in files : f.version = v /\ f.direction = d IN
     [name |-> File("up").name, up |-> File("up").text,
      down |-> File("down").text]]

\* Commands whose main gets past LoadFiles and NewRunner.
Runners == {c \in Commands : Loadable(Files[c])}

Local == [c \in Runners |-> LoadFiles(Files[c])]

Versions == UNION {DOMAIN Local[c] : c \in Runners}
Migrations == UNION {{Local[c][v] : v \in DOMAIN Local[c]} : c \in Runners}

Rows == [migration : Migrations, dirty : BOOLEAN]
Runs == [version : Versions, op : {"up", "down"}, migration : Migrations]

ASSUME FilesAssumption ==
  \A c \in Commands : \A f \in Files[c] : f.version \in Nat \ {0}

ASSUME NamesAssumption ==
  /\ NoOne \notin Commands
  /\ NoRow \notin Rows
  /\ NoRun \notin Runs
  /\ Absent \notin Migrations /\ Broken \notin Migrations
  /\ Absent # Broken

VARIABLES
  history,  \* schema_migrations
  schema,   \* what each version has made of the database
  lock,     \* whose session holds the named lock
  session,  \* the command's session, as the server sees it
  running,  \* what the server executes in that session
  pc, op,   \* where a command is, and what it was asked for
  todo,     \* the migrations it still has to execute
  item      \* the one it executes, 0 for none

local == <<pc, op, todo, item>>
vars == <<history, schema, lock, session, running, local>>

-----------------------------------------------------------------------------
Recorded == {v \in Versions : history[v] # NoRow}

CleanRow(m) == [migration |-> m, dirty |-> FALSE]
DirtyRow(m) == [migration |-> m, dirty |-> TRUE]

\* UPDATE ... SET dirty = d WHERE version = ?, which may find no row.
SetDirty(row, d) == IF row = NoRow THEN NoRow ELSE [row EXCEPT !.dirty = d]

\* Mutant: the checksum is not compared.
CleanWithAnyText(c, v) ==
  history[v] = [history[v] EXCEPT !.migration.name = Local[c][v].name,
                                  !.dirty = FALSE]

SameMigration(c, v) == history[v] = CleanRow(Local[c][v])

\* ValidateHistory: both lists are in version order, so that comparing them
\* position by position asks for a clean and unchanged prefix.
ValidateHistory(c) ==
  /\ Recorded \subseteq DOMAIN Local[c]
  /\ \A v \in Recorded :
       /\ SameMigration(c, v)
       /\ \A u \in DOMAIN Local[c] : u < v => u \in Recorded

Pending(c) == DOMAIN Local[c] \ Recorded

\* The last so many recorded versions.
Latest == {S \in SUBSET Recorded : S # {} /\
             \A v \in S, u \in Recorded \ S : u < v}

\* The loop takes the first pending or the last recorded one.
Following(o, left) ==
  {v \in left : \A u \in left : IF o = "up" THEN v <= u ELSE u <= v}

Text(c) == IF op[c] = "up" THEN Local[c][item[c]].up
                           ELSE Local[c][item[c]].down

Init ==
  /\ history = [v \in Versions |-> NoRow]
  /\ schema = [v \in Versions |-> Absent]
  /\ lock = NoOne
  /\ session = [c \in Runners |-> "none"]
  /\ running = [c \in Runners |-> NoRun]
  /\ pc = [c \in Runners |-> "idle"]
  /\ op = [c \in Runners |-> "verify"]
  /\ todo = [c \in Runners |-> {}]
  /\ item = [c \in Runners |-> 0]

Goto(c, l) == pc' = [pc EXCEPT ![c] = l]
\* The callback returns, the command exits: its locals are gone.
Leave(c, l) ==
  /\ Goto(c, l)
  /\ op' = [op EXCEPT ![c] = "verify"]
  /\ todo' = [todo EXCEPT ![c] = {}]
  /\ item' = [item EXCEPT ![c] = 0]

Unlocked(c) == IF lock = c THEN NoOne ELSE lock

\* Mutant: any connection of the pool is used, in place of the locked one.
AnyConnection(c) == TRUE

\* Every statement goes through the connection that took the lock; when it is
\* lost the statement fails, and no other connection is opened.
Connected(c) == session[c] = "open"

-----------------------------------------------------------------------------
(***************************************************************************)
(* The command.                                                            *)
(***************************************************************************)

Start(c, o) ==
  /\ pc[c] = "idle"
  /\ session[c] = "none"
  /\ session' = [session EXCEPT ![c] = "open"]
  /\ op' = [op EXCEPT ![c] = o]
  /\ Goto(c, "lock")
  /\ UNCHANGED <<history, schema, lock, running, todo, item>>

GetLock(c) ==
  /\ pc[c] = "lock"
  /\ Connected(c)
  /\ lock = NoOne
  /\ lock' = c
  /\ Goto(c, "read")
  /\ UNCHANGED <<history, schema, session, running, op, todo, item>>

\* GET_LOCK waits for 30 seconds at most.
LockTimesOut(c) ==
  /\ pc[c] = "lock"
  /\ Connected(c)
  /\ lock # NoOne
  /\ Leave(c, "end")
  /\ UNCHANGED <<history, schema, lock, session, running>>

\* What a command finds to do in a history that it has validated; Verify and
\* Status end here, and so does a Down of more steps than there are.
Found(c) ==
  IF ~ValidateHistory(c) THEN {{}}
  ELSE CASE op[c] = "up"     -> {Pending(c)}
         [] op[c] = "down"   -> Latest \cup {{}}
         [] op[c] = "verify" -> {{}}

\* Mutant: the loop runs once more.
LoopOnce(c, left) ==
  /\ Goto(c, "mark")
  /\ todo' = [todo EXCEPT ![c] = left]
  /\ UNCHANGED <<op, item>>

\* The head of the loop.
Loop(c, left) ==
  IF left = {} THEN Leave(c, "end")
  ELSE /\ Goto(c, "mark")
       /\ todo' = [todo EXCEPT ![c] = left]
       /\ item' = [item EXCEPT ![c] = 0]
       /\ UNCHANGED op

ReadApplied(c) ==
  /\ pc[c] = "read"
  /\ Connected(c)
  /\ \E found \in Found(c) : Loop(c, found)
  /\ UNCHANGED <<history, schema, lock, session, running>>

\* INSERT for Up, where a row that exists is an error, UPDATE for Down.
MarkDirty(c) ==
  /\ pc[c] = "mark"
  /\ Connected(c)
  /\ \E v \in Following(op[c], todo[c]) :
       /\ op[c] = "up" => history[v] = NoRow
       /\ history' = [history EXCEPT
            ![v] = IF op[c] = "up" THEN DirtyRow(Local[c][v])
                   ELSE SetDirty(@, TRUE)]
       /\ item' = [item EXCEPT ![c] = v]
  /\ Goto(c, "execute")
  /\ UNCHANGED <<schema, lock, session, running, op, todo>>

\* A text of many statements is a syntax error on a connection that has not
\* asked for them, which InitMySQL does not.
Execute(c) ==
  /\ pc[c] = "execute"
  /\ Connected(c)
  /\ IF Text(c) \in ManyStatements /\ c \notin MultiStatements
     THEN /\ Leave(c, "end")
          /\ UNCHANGED running
     ELSE /\ running' = [running EXCEPT
               ![c] = [version |-> item[c], op |-> op[c],
                       migration |-> Local[c][item[c]]]]
          /\ Goto(c, "running")
          /\ UNCHANGED <<op, todo, item>>
  /\ UNCHANGED <<history, schema, lock, session>>

Clear(c) ==
  /\ pc[c] = "clear"
  /\ Connected(c)
  /\ history' = [history EXCEPT ![item[c]] =
       IF op[c] = "up" THEN SetDirty(@, FALSE) ELSE NoRow]
  /\ Loop(c, todo[c] \ {item[c]})
  /\ UNCHANGED <<schema, lock, session, running>>

\* A statement of the runner's fails, or its connection is found lost.
Fails(c) ==
  /\ pc[c] \in {"lock", "read", "mark", "execute", "clear"}
  /\ Leave(c, "end")
  /\ UNCHANGED <<history, schema, lock, session, running>>

\* Mutant: RELEASE_LOCK is forgotten.
StillLocked(c) == lock

ReleaseLock(c) == Unlocked(c)

\* The deferred release; the command exits and its session ends.
Release(c) ==
  /\ pc[c] = "end"
  /\ lock' = ReleaseLock(c)
  /\ session' = [session EXCEPT ![c] = "none"]
  /\ Leave(c, "idle")
  /\ UNCHANGED <<history, schema, running>>

-----------------------------------------------------------------------------
(***************************************************************************)
(* The server, and what becomes of connections.                            *)
(***************************************************************************)

Effect(r) ==
  IF r.op = "up"
  THEN IF schema[r.version] = Absent THEN r.migration ELSE Broken
  ELSE IF schema[r.version] = r.migration THEN Absent ELSE Broken

ServerExecutes(c) ==
  /\ running[c] # NoRun
  /\ schema' = [schema EXCEPT ![running[c].version] = Effect(running[c])]
  /\ running' = [running EXCEPT ![c] = NoRun]
  /\ IF pc[c] = "running" THEN Goto(c, "clear") ELSE UNCHANGED pc
  /\ UNCHANGED <<history, lock, session, op, todo, item>>

\* One DDL statement is done or not done; a text of many stops in the middle.
ServerFails(c) ==
  /\ running[c] # NoRun
  /\ \/ UNCHANGED schema
     \/ /\ {running[c].migration.up, running[c].migration.down}
             \cap ManyStatements # {}
        /\ schema' = [schema EXCEPT ![running[c].version] = Broken]
  /\ running' = [running EXCEPT ![c] = NoRun]
  /\ IF pc[c] = "running" THEN Leave(c, "end") ELSE UNCHANGED local
  /\ UNCHANGED <<history, lock, session>>

\* The command dies, or its timeout closes the connection: the session stays
\* until the server has executed what it was sent and sees that it is alone.
ClientGone(c) ==
  /\ pc[c] # "idle"
  /\ session[c] = "open"
  /\ session' = [session EXCEPT ![c] = "orphan"]
  /\ Leave(c, "idle")
  /\ UNCHANGED <<history, schema, lock, running>>

EndOrphan(c) ==
  /\ session[c] = "orphan"
  /\ running[c] = NoRun
  /\ session' = [session EXCEPT ![c] = "none"]
  /\ lock' = Unlocked(c)
  /\ UNCHANGED <<history, schema, running, local>>

\* The server drops an idle session, and its lock, unknown to the command.
ServerDrops(c) ==
  /\ session[c] = "open"
  /\ running[c] = NoRun
  /\ session' = [session EXCEPT ![c] = "none"]
  /\ lock' = Unlocked(c)
  /\ UNCHANGED <<history, schema, running, local>>

Statement(c) ==
  \/ GetLock(c) \/ LockTimesOut(c) \/ ReadApplied(c) \/ MarkDirty(c)
  \/ Execute(c) \/ Clear(c) \/ Fails(c) \/ Release(c)

Server(c) == ServerExecutes(c) \/ ServerFails(c) \/ EndOrphan(c)

Next ==
  \E c \in Runners :
    \/ \E o \in {"up", "down", "verify"} : Start(c, o)
    \/ Statement(c)
    \/ Server(c)
    \/ ClientGone(c)
    \/ ServerDrops(c)

Spec == Init /\ [][Next]_vars

\* A command that has begun runs on or is seen to have gone, and MySQL ends
\* what it executes.
FairSpec ==
  /\ Spec
  /\ \A c \in Runners : WF_vars(Statement(c)) /\ WF_vars(Server(c))

-----------------------------------------------------------------------------
(***************************************************************************)
(* Properties.                                                             *)
(***************************************************************************)

\* Every row, session and command has its shape, and a command that is in its
\* loop has something left to do.
TypeOK ==
  /\ history \in [Versions -> Rows \cup {NoRow}]
  /\ schema \in [Versions -> Migrations \cup {Absent, Broken}]
  /\ lock \in Runners \cup {NoOne}
  /\ session \in [Runners -> {"none", "open", "orphan"}]
  /\ running \in [Runners -> Runs \cup {NoRun}]
  /\ pc \in [Runners -> {"idle", "lock", "read", "mark", "execute",
                         "running", "clear", "end"}]
  /\ op \in [Runners -> {"up", "down", "verify"}]
  /\ todo \in [Runners -> SUBSET Versions]
  /\ item \in [Runners -> Versions \cup {0}]
  /\ \A c \in Runners :
       pc[c] \in {"mark", "execute", "running", "clear"} => todo[c] # {}

\* schema_migrations never lies: a version without a row has left no trace,
\* and one with a clean row is there as its files say.  All doubt, after a
\* crash, a timeout or a failed statement, is in rows marked dirty.
HistoryTellsSchema ==
  \A v \in Versions :
    /\ history[v] = NoRow => schema[v] = Absent
    /\ history[v] # NoRow /\ ~history[v].dirty =>
         schema[v] = history[v].migration

\* The schema is touched by one command at a time, which holds the lock, and
\* only when exactly the earlier versions of its own files are in place.
StepsInOrder ==
  [][\A v \in Versions : schema'[v] # schema[v] =>
       \E c \in Runners :
         /\ lock = c
         /\ v \in DOMAIN Local[c]
         /\ \A u \in Versions \ {v} :
              IF u \in DOMAIN Local[c] /\ u < v
              THEN history[u] = CleanRow(Local[c][u])
              ELSE history[u] = NoRow]_vars

\* No command keeps the others out for ever, whichever way it ends.
LockFreed == \A c \in Runners : lock = c ~> lock # c

=============================================================================
