-------------------------- MODULE Migration_proofs --------------------------
(***************************************************************************)
(* Proofs about Migration, for any number of commands and any files.       *)
(*                                                                         *)
(* A command that is past its reading holds the lock, and as long as it    *)
(* does, the history is the clean prefix of its own files that ends before *)
(* (or, rolling back, with) the version it works on: it needs to look only *)
(* once.  An orphaned session keeps the lock and so keeps this true.       *)
(***************************************************************************)
EXTENDS Migration, TLAPS

InLoop == {"mark", "execute", "running", "clear"}

\* Everything but version v is as c's files say when v is the next.
Alone(c, v) ==
  \A u \in Versions \ {v} :
    history[u] = IF u \in DOMAIN Local[c] /\ u < v THEN CleanRow(Local[c][u])
                 ELSE NoRow

\* The history at the head of the loop.
Ahead(c) ==
  \A u \in Versions :
    history[u] = IF \/ op[c] = "down" /\ u \in todo[c]
                    \/ u \in DOMAIN Local[c] /\ \A w \in todo[c] : u < w
                 THEN CleanRow(Local[c][u]) ELSE NoRow

\* No version between two that are to be done is left out.
Gapless(c) ==
  \A u \in todo[c], w \in todo[c] : \A v \in DOMAIN Local[c] :
    u < v /\ v < w => v \in todo[c]

Before(o, m) == IF o = "up" THEN Absent ELSE m
After(o, m) == IF o = "up" THEN m ELSE Absent

\* A session that executes or is about to: v is its version.
AtItem(c, v) ==
  /\ v \in DOMAIN Local[c]
  /\ history[v] = DirtyRow(Local[c][v])
  /\ Alone(c, v)

Locked ==
  \A c \in Runners :
    /\ session[c] = "open" /\ pc[c] \in InLoop \cup {"read"} => lock = c
    /\ running[c] # NoRun => lock = c /\ session[c] # "none"
    /\ running[c] # NoRun /\ session[c] = "open" => pc[c] = "running"
    /\ pc[c] = "running" => session[c] = "open" /\ running[c] # NoRun
    /\ session[c] = "orphan" => pc[c] = "idle"

LoopingAt(c) ==
  session[c] = "open" /\ pc[c] \in InLoop =>
    /\ op[c] \in {"up", "down"}
    /\ todo[c] # {}
    /\ todo[c] \subseteq DOMAIN Local[c]
    /\ Gapless(c)
    /\ pc[c] = "mark" => Ahead(c)
    /\ pc[c] # "mark" =>
         /\ item[c] \in Following(op[c], todo[c])
         /\ AtItem(c, item[c])
         /\ schema[item[c]] = IF pc[c] = "clear"
                              THEN After(op[c], Local[c][item[c]])
                              ELSE Before(op[c], Local[c][item[c]])
    /\ pc[c] = "running" =>
         running[c] = [version |-> item[c], op |-> op[c],
                       migration |-> Local[c][item[c]]]

ExecutingAt(c) ==
  running[c] # NoRun =>
    /\ AtItem(c, running[c].version)
    /\ running[c].migration = Local[c][running[c].version]
    /\ schema[running[c].version]
         = Before(running[c].op, running[c].migration)

Looping == \A c \in Runners : LoopingAt(c)
Executing == \A c \in Runners : ExecutingAt(c)

Inv == TypeOK /\ Locked /\ Looping /\ Executing /\ HistoryTellsSchema

-----------------------------------------------------------------------------
\* The files of a runner are among those the model speaks of.
LEMMA LocalTyped ==
  \A c \in Runners :
    /\ DOMAIN Local[c] \subseteq Versions
    /\ \A v \in DOMAIN Local[c] : Local[c][v] \in Migrations
BY DEF Versions, Migrations

\* parseMigrationFile refuses version 0: versions are ordered as numbers are.
LEMMA VersionsPositive == Versions \subseteq Nat \ {0}
<1> SUFFICES ASSUME NEW v \in Versions PROVE v \in Nat \ {0}
  OBVIOUS
<1>1. PICK c \in Runners : v \in DOMAIN Local[c]
  BY DEF Versions
<1>2. Local[c] = LoadFiles(Files[c])
  BY DEF Local
<1>3. DOMAIN LoadFiles(Files[c]) = {f.version : f \in Files[c]}
  BY DEF LoadFiles
<1> QED
  BY <1>1, <1>2, <1>3, FilesAssumption DEF Runners, FilesAssumption

\* A row that is written is a row, and never the mark of a missing one.
LEMMA RowsTyped ==
  ASSUME NEW m \in Migrations
  PROVE  /\ CleanRow(m) \in Rows /\ DirtyRow(m) \in Rows
         /\ CleanRow(m) # NoRow /\ DirtyRow(m) # NoRow
<1>1. CleanRow(m) \in Rows /\ DirtyRow(m) \in Rows
  BY DEF CleanRow, DirtyRow, Rows
<1>2. NoRow \notin Rows
  BY NamesAssumption DEF NamesAssumption
<1> QED
  BY <1>1, <1>2

\* An update keeps the shape of the row, if there is one.
LEMMA SetDirtyTyped ==
  ASSUME NEW row \in Rows \cup {NoRow}, NEW d \in BOOLEAN
  PROVE  SetDirty(row, d) \in Rows \cup {NoRow}
BY DEF SetDirty, Rows

-----------------------------------------------------------------------------
(***************************************************************************)
(* Types.                                                                  *)
(***************************************************************************)

\* A command that leaves its callback is typed and out of its loop.
LEMMA LeaveTyped ==
  ASSUME TypeOK, NEW c \in Runners, NEW l \in {"idle", "end"}, Leave(c, l)
  PROVE  /\ pc' \in [Runners -> {"idle", "lock", "read", "mark", "execute",
                                 "running", "clear", "end"}]
         /\ op' \in [Runners -> {"up", "down", "verify"}]
         /\ todo' \in [Runners -> SUBSET Versions]
         /\ item' \in [Runners -> Versions \cup {0}]
         /\ \A d \in Runners : pc'[d] \in InLoop => todo'[d] # {}
BY DEF TypeOK, Leave, Goto, InLoop

\* So is one at the head of the loop, which has something left to do or leaves.
LEMMA LoopTyped ==
  ASSUME TypeOK, NEW c \in Runners, NEW left \in SUBSET Versions,
         Loop(c, left)
  PROVE  /\ pc' \in [Runners -> {"idle", "lock", "read", "mark", "execute",
                                 "running", "clear", "end"}]
         /\ op' \in [Runners -> {"up", "down", "verify"}]
         /\ todo' \in [Runners -> SUBSET Versions]
         /\ item' \in [Runners -> Versions \cup {0}]
         /\ \A d \in Runners : pc'[d] \in InLoop => todo'[d] # {}
<1>1. CASE left = {}
  <2>1. Leave(c, "end")
    BY <1>1 DEF Loop
  <2> QED
    BY <2>1, LeaveTyped
<1>2. CASE left # {}
  BY <1>2 DEF TypeOK, Loop, Goto, InLoop
<1> QED
  BY <1>1, <1>2

\* What a command finds to do is a set of versions.
LEMMA FoundTyped ==
  ASSUME TypeOK, NEW c \in Runners, NEW found \in Found(c)
  PROVE  found \in SUBSET Versions
BY LocalTyped DEF Found, Pending, Latest, Recorded, TypeOK

\* What a command past the reading knows of the migration in its hands.
LEMMA ItemTyped ==
  ASSUME TypeOK, Looping, NEW c \in Runners, session[c] = "open",
         pc[c] \in {"execute", "running", "clear"}
  PROVE  /\ item[c] \in DOMAIN Local[c] /\ item[c] \in Versions
         /\ item[c] \in todo[c]
         /\ Local[c][item[c]] \in Migrations
         /\ op[c] \in {"up", "down"}
BY LocalTyped DEF Looping, LoopingAt, InLoop, AtItem, Following

\* Every action keeps the types.
LEMMA TypeStep == TypeOK /\ Looping /\ [Next]_vars => TypeOK'
<1> SUFFICES ASSUME TypeOK, Looping, [Next]_vars PROVE TypeOK'
  OBVIOUS
<1>1. CASE UNCHANGED vars
  BY <1>1 DEF TypeOK, vars, local
<1>2. ASSUME NEW c \in Runners, NEW o \in {"up", "down", "verify"},
             Start(c, o)
      PROVE  TypeOK'
  BY <1>2 DEF TypeOK, Start, Goto
<1>3. ASSUME NEW c \in Runners, GetLock(c) PROVE TypeOK'
  BY <1>3 DEF TypeOK, GetLock, Goto
<1>4. ASSUME NEW c \in Runners, LockTimesOut(c) PROVE TypeOK'
  <2>1. Leave(c, "end") /\ UNCHANGED <<history, schema, lock, session, running>>
    BY <1>4 DEF LockTimesOut
  <2> QED
    BY <2>1, LeaveTyped DEF TypeOK, InLoop
<1>5. ASSUME NEW c \in Runners, ReadApplied(c) PROVE TypeOK'
  <2>1. PICK found \in Found(c) : Loop(c, found)
    BY <1>5 DEF ReadApplied
  <2>2. UNCHANGED <<history, schema, lock, session, running>>
    BY <1>5 DEF ReadApplied
  <2> QED
    BY <2>1, <2>2, FoundTyped, LoopTyped DEF TypeOK, InLoop
<1>6. ASSUME NEW c \in Runners, MarkDirty(c) PROVE TypeOK'
  <2>1. PICK v \in Following(op[c], todo[c]) :
          /\ history' = [history EXCEPT
               ![v] = IF op[c] = "up" THEN DirtyRow(Local[c][v])
                      ELSE SetDirty(history[v], TRUE)]
          /\ item' = [item EXCEPT ![c] = v]
    BY <1>6 DEF MarkDirty
  <2>2. v \in Versions /\ DirtyRow(Local[c][v]) \in Rows
    <3>1. v \in DOMAIN Local[c]
      BY <1>6 DEF Following, MarkDirty, Connected, Looping, LoopingAt, InLoop
    <3> QED
      BY <3>1, LocalTyped, RowsTyped
  <2>3. SetDirty(history[v], TRUE) \in Rows \cup {NoRow}
    BY <2>2, SetDirtyTyped DEF TypeOK
  <2>4. history' \in [Versions -> Rows \cup {NoRow}]
    BY <2>1, <2>2, <2>3 DEF TypeOK
  <2> QED
    BY <1>6, <2>1, <2>2, <2>4 DEF TypeOK, MarkDirty, Goto
<1>7. ASSUME NEW c \in Runners, Execute(c) PROVE TypeOK'
  <2>1. CASE Leave(c, "end") /\ UNCHANGED running
    BY <1>7, <2>1, LeaveTyped DEF TypeOK, Execute, InLoop
  <2>2. CASE /\ running' = [running EXCEPT
                  ![c] = [version |-> item[c], op |-> op[c],
                          migration |-> Local[c][item[c]]]]
             /\ Goto(c, "running")
             /\ UNCHANGED <<op, todo, item>>
    <3>1. [version |-> item[c], op |-> op[c],
           migration |-> Local[c][item[c]]] \in Runs
      BY <1>7, ItemTyped DEF Runs, Execute, Connected
    <3> QED
      BY <1>7, <2>2, <3>1 DEF TypeOK, Execute, Goto
  <2> QED
    BY <1>7, <2>1, <2>2 DEF Execute
<1>8. ASSUME NEW c \in Runners, Clear(c) PROVE TypeOK'
  <2>1. item[c] \in Versions
    BY <1>8, ItemTyped DEF Clear, Connected
  <2>2. SetDirty(history[item[c]], FALSE) \in Rows \cup {NoRow}
    BY <2>1, SetDirtyTyped DEF TypeOK
  <2>3. history' \in [Versions -> Rows \cup {NoRow}]
    BY <1>8, <2>1, <2>2 DEF TypeOK, Clear
  <2>4. Loop(c, todo[c] \ {item[c]}) /\ todo[c] \ {item[c]} \in SUBSET Versions
    BY <1>8 DEF Clear, TypeOK
  <2>5. UNCHANGED <<schema, lock, session, running>>
    BY <1>8 DEF Clear
  <2> QED
    BY <2>3, <2>4, <2>5, LoopTyped DEF TypeOK, InLoop
<1>9. ASSUME NEW c \in Runners, Fails(c) PROVE TypeOK'
  <2>1. Leave(c, "end") /\ UNCHANGED <<history, schema, lock, session, running>>
    BY <1>9 DEF Fails
  <2> QED
    BY <2>1, LeaveTyped DEF TypeOK, InLoop
<1>10. ASSUME NEW c \in Runners, Release(c) PROVE TypeOK'
  <2>1. Leave(c, "idle") /\ UNCHANGED <<history, schema, running>>
    BY <1>10 DEF Release
  <2> QED
    BY <1>10, <2>1, LeaveTyped DEF TypeOK, InLoop, Release, ReleaseLock, Unlocked
<1>11. ASSUME NEW c \in Runners, ServerExecutes(c) PROVE TypeOK'
  <2>1. running[c] \in Runs
    BY <1>11 DEF TypeOK, ServerExecutes
  <2>2. Effect(running[c]) \in Migrations \cup {Absent, Broken}
    BY <2>1 DEF Effect, Runs
  <2>3. schema' \in [Versions -> Migrations \cup {Absent, Broken}]
    BY <1>11, <2>2 DEF TypeOK, ServerExecutes
  <2> QED
    BY <1>11, <2>3 DEF TypeOK, ServerExecutes, Goto
<1>12. ASSUME NEW c \in Runners, ServerFails(c) PROVE TypeOK'
  <2>1. schema' \in [Versions -> Migrations \cup {Absent, Broken}]
    BY <1>12 DEF TypeOK, ServerFails
  <2>2. CASE Leave(c, "end")
    BY <1>12, <2>1, <2>2, LeaveTyped DEF TypeOK, ServerFails, InLoop
  <2>3. CASE UNCHANGED local
    BY <1>12, <2>1, <2>3 DEF TypeOK, ServerFails, local
  <2> QED
    BY <1>12, <2>2, <2>3 DEF ServerFails
<1>13. ASSUME NEW c \in Runners, ClientGone(c) PROVE TypeOK'
  <2>1. Leave(c, "idle") /\ UNCHANGED <<history, schema, lock, running>>
    BY <1>13 DEF ClientGone
  <2> QED
    BY <1>13, <2>1, LeaveTyped DEF TypeOK, InLoop, ClientGone
<1>14. ASSUME NEW c \in Runners, EndOrphan(c) PROVE TypeOK'
  BY <1>14 DEF TypeOK, EndOrphan, Unlocked, local
<1>15. ASSUME NEW c \in Runners, ServerDrops(c) PROVE TypeOK'
  BY <1>15 DEF TypeOK, ServerDrops, Unlocked, local
<1> QED
  BY <1>1, <1>2, <1>3, <1>4, <1>5, <1>6, <1>7, <1>8, <1>9, <1>10, <1>11,
     <1>12, <1>13, <1>14, <1>15 DEF Next, Statement, Server

-----------------------------------------------------------------------------
(***************************************************************************)
(* The lock.                                                               *)
(***************************************************************************)

Actions(c) ==
  \/ \E o \in {"up", "down", "verify"} : Start(c, o)
  \/ Statement(c) \/ Server(c) \/ ClientGone(c) \/ ServerDrops(c)

\* A step of c leaves every other command where it was.
LEMMA OthersRest ==
  ASSUME TypeOK, NEW c \in Runners, Actions(c),
         NEW d \in Runners, d # c
  PROVE  /\ session'[d] = session[d] /\ running'[d] = running[d]
         /\ pc'[d] = pc[d] /\ op'[d] = op[d]
         /\ todo'[d] = todo[d] /\ item'[d] = item[d]
<1>1. CASE \E o \in {"up", "down", "verify"} : Start(c, o)
  BY <1>1 DEF Start, Goto, TypeOK
<1>2. CASE Server(c)
  BY <1>2 DEF Server, ServerExecutes, ServerFails, EndOrphan, Leave, Goto,
     local, TypeOK
<1>3. CASE ClientGone(c) \/ ServerDrops(c)
  BY <1>3 DEF ClientGone, ServerDrops, Leave, Goto, local, TypeOK
<1>4. CASE GetLock(c) \/ LockTimesOut(c) \/ Fails(c) \/ Release(c)
  BY <1>4 DEF GetLock, LockTimesOut, Fails, Release, Leave, Goto, TypeOK
<1>5. CASE ReadApplied(c)
  BY <1>5 DEF ReadApplied, Loop, Leave, Goto, TypeOK
<1>6. CASE MarkDirty(c)
  BY <1>6 DEF MarkDirty, Goto, TypeOK
<1>7. CASE Execute(c)
  BY <1>7 DEF Execute, Leave, Goto, TypeOK
<1>8. CASE Clear(c)
  BY <1>8 DEF Clear, Loop, Leave, Goto, TypeOK
<1> QED
  BY <1>1, <1>2, <1>3, <1>4, <1>5, <1>6, <1>7, <1>8 DEF Actions, Statement

\* Nobody takes the lock from another.
LEMMA LockKept ==
  ASSUME TypeOK, NEW c \in Runners, Actions(c),
         NEW d \in Runners, d # c, lock = d
  PROVE  lock' = d
<1>1. d # NoOne
  BY NamesAssumption DEF NamesAssumption, Runners
<1> QED
  BY <1>1 DEF Actions, Statement, Server, Start, GetLock, LockTimesOut,
     ReadApplied, MarkDirty, Execute, Clear, Fails, Release, ReleaseLock,
     ServerExecutes, ServerFails, EndOrphan, ClientGone, ServerDrops, Unlocked

LockedAt(c) ==
  /\ session[c] = "open" /\ pc[c] \in InLoop \cup {"read"} => lock = c
  /\ running[c] # NoRun => lock = c /\ session[c] # "none"
  /\ running[c] # NoRun /\ session[c] = "open" => pc[c] = "running"
  /\ pc[c] = "running" => session[c] = "open" /\ running[c] # NoRun
  /\ session[c] = "orphan" => pc[c] = "idle"

\* The command that takes a step holds the lock as far as Locked says.
LEMMA LockedStep ==
  ASSUME TypeOK, Locked, Looping, NEW c \in Runners, Actions(c)
  PROVE  LockedAt(c)'
<1> USE DEF LockedAt, InLoop
<1>0. LockedAt(c)
  BY DEF Locked
<1>1. CASE \E o \in {"up", "down", "verify"} : Start(c, o)
  BY <1>0, <1>1 DEF Start, Goto, TypeOK
<1>2. CASE ServerExecutes(c)
  BY <1>0, <1>2 DEF ServerExecutes, Goto, TypeOK
<1>3. CASE ServerFails(c)
  BY <1>0, <1>3 DEF ServerFails, Leave, Goto, local, TypeOK
<1>4. CASE EndOrphan(c) \/ ServerDrops(c)
  BY <1>0, <1>4 DEF EndOrphan, ServerDrops, local, TypeOK
<1>5. CASE ClientGone(c)
  BY <1>0, <1>5 DEF ClientGone, Leave, Goto, TypeOK
<1>6. CASE GetLock(c) \/ LockTimesOut(c) \/ Fails(c)
  BY <1>0, <1>6 DEF GetLock, LockTimesOut, Fails, Connected, Leave, Goto, TypeOK
<1>7. CASE Release(c)
  BY <1>0, <1>7 DEF Release, Leave, Goto, TypeOK
<1>8. CASE ReadApplied(c)
  BY <1>0, <1>8 DEF ReadApplied, Connected, Loop, Leave, Goto, TypeOK
<1>9. CASE MarkDirty(c)
  BY <1>0, <1>9 DEF MarkDirty, Connected, Goto, TypeOK
<1>10. CASE Execute(c)
  <2>1. [version |-> item[c], op |-> op[c],
         migration |-> Local[c][item[c]]] \in Runs
    BY <1>10, ItemTyped DEF Runs, Execute, Connected
  <2>2. NoRun \notin Runs
    BY NamesAssumption DEF NamesAssumption
  <2> QED
    BY <1>0, <1>10, <2>1, <2>2 DEF Execute, Connected, Leave, Goto, TypeOK
<1>11. CASE Clear(c)
  BY <1>0, <1>11 DEF Clear, Connected, Loop, Leave, Goto, TypeOK
<1> QED
  BY <1>1, <1>2, <1>3, <1>4, <1>5, <1>6, <1>7, <1>8, <1>9, <1>10, <1>11
     DEF Actions, Statement, Server

\* Locked is kept for every command.
LEMMA LockedNext ==
  ASSUME TypeOK, Locked, Looping, NEW c \in Runners, Actions(c)
  PROVE  Locked'
<1> SUFFICES ASSUME NEW d \in Runners PROVE LockedAt(d)'
  BY DEF Locked, LockedAt
<1>1. CASE d = c
  BY <1>1, LockedStep
<1>2. CASE d # c
  <2>1. LockedAt(d)
    BY DEF Locked, LockedAt
  <2>2. lock = d => lock' = d
    BY <1>2, LockKept
  <2> QED
    BY <1>2, <2>1, <2>2, OthersRest DEF LockedAt
<1> QED
  BY <1>1, <1>2

-----------------------------------------------------------------------------
(***************************************************************************)
(* The other commands: none of them is in its loop while this one writes.  *)
(***************************************************************************)

\* History and schema are changed for the holder of the lock only.
LEMMA OnlyHolderWrites ==
  ASSUME TypeOK, Locked, NEW c \in Runners, Actions(c)
  PROVE  UNCHANGED <<history, schema>> \/ lock = c
<1>1. CASE MarkDirty(c) \/ Clear(c)
  BY <1>1 DEF MarkDirty, Clear, Connected, Locked, InLoop
<1>2. CASE ServerExecutes(c) \/ ServerFails(c)
  BY <1>2 DEF ServerExecutes, ServerFails, Locked
<1>3. CASE ~(MarkDirty(c) \/ Clear(c) \/ ServerExecutes(c) \/ ServerFails(c))
  BY <1>3 DEF Actions, Statement, Server, Start, GetLock, LockTimesOut,
     ReadApplied, Execute, Fails, Release, EndOrphan, ClientGone, ServerDrops
<1> QED
  BY <1>1, <1>2, <1>3

\* The other commands lose nothing they rely on.
LEMMA Aside ==
  ASSUME TypeOK, Locked, Looping, Executing, NEW c \in Runners, Actions(c),
         NEW d \in Runners, d # c
  PROVE  LoopingAt(d)' /\ ExecutingAt(d)'
<1>1. CASE lock = c
  <2>1. ~(session[d] = "open" /\ pc[d] \in InLoop) /\ running[d] = NoRun
    BY <1>1 DEF Locked
  <2> QED
    BY <2>1, OthersRest DEF LoopingAt, ExecutingAt
<1>2. CASE UNCHANGED <<history, schema>>
  <2>1. LoopingAt(d) /\ ExecutingAt(d)
    BY DEF Looping, Executing
  <2>2. LoopingAt(d)'
    <3>1. Gapless(d)' <=> Gapless(d)
      BY OthersRest DEF Gapless
    <3>2. Ahead(d)' <=> Ahead(d)
      BY <1>2, OthersRest DEF Ahead, CleanRow
    <3>3. AtItem(d, item[d]) => AtItem(d, item[d])'
      <4>1. /\ item'[d] = item[d]
            /\ CleanRow(Local[d][item[d]])' = CleanRow(Local[d][item[d]])
            /\ DirtyRow(Local[d][item[d]])' = DirtyRow(Local[d][item[d]])
        BY OthersRest DEF CleanRow, DirtyRow
      <4>2. Alone(d, item[d]) => Alone(d, item[d])'
        BY <1>2, <4>1 DEF Alone, CleanRow
      <4> QED
        BY <1>2, <4>1, <4>2 DEF AtItem
    <3>4. Following(op[d], todo[d])' = Following(op[d], todo[d])
      BY OthersRest DEF Following
    <3>5. /\ After(op[d], Local[d][item[d]])' = After(op[d], Local[d][item[d]])
          /\ Before(op[d], Local[d][item[d]])' = Before(op[d], Local[d][item[d]])
      BY OthersRest DEF After, Before
    <3> QED
      BY <1>2, <2>1, <3>1, <3>2, <3>3, <3>4, <3>5, OthersRest DEF LoopingAt
  <2>3. ExecutingAt(d)'
    BY <1>2, <2>1, OthersRest DEF ExecutingAt, AtItem, Alone, Before,
       CleanRow, DirtyRow
  <2> QED
    BY <2>2, <2>3
<1> QED
  BY <1>1, <1>2, OnlyHolderWrites

-----------------------------------------------------------------------------
(***************************************************************************)
(* The command that takes the step.                                        *)
(***************************************************************************)

\* What the two updates make of a row.
LEMMA SetDirtyRows ==
  ASSUME NEW m \in Migrations
  PROVE  /\ SetDirty(CleanRow(m), TRUE) = DirtyRow(m)
         /\ SetDirty(DirtyRow(m), FALSE) = CleanRow(m)
<1>1. CleanRow(m) # NoRow /\ DirtyRow(m) # NoRow
  BY RowsTyped
<1> QED
  BY <1>1 DEF SetDirty, CleanRow, DirtyRow

\* A validated history is what the loop expects.
LEMMA ReadStep ==
  ASSUME TypeOK, NEW c \in Runners, ReadApplied(c)
  PROVE  LoopingAt(c)'
<1>1. PICK found \in Found(c) : Loop(c, found)
  BY DEF ReadApplied
<1>2. UNCHANGED <<history, schema, lock, session, running>>
  BY DEF ReadApplied
<1>3. CASE found = {}
  BY <1>1, <1>3 DEF Loop, Leave, Goto, LoopingAt, InLoop, TypeOK
<1>4. CASE found # {}
  <2>1. ValidateHistory(c)
    BY <1>1, <1>4 DEF Found
  <2>2. \/ op[c] = "up" /\ found = Pending(c)
        \/ op[c] = "down" /\ found \in Latest
    BY <1>1, <1>4, <2>1 DEF Found, TypeOK
  <2>3. /\ todo'[c] = found /\ op'[c] = op[c] /\ pc'[c] = "mark"
    BY <1>1, <1>4 DEF Loop, Goto, TypeOK
  <2>4. \A u \in Versions : history[u] =
          IF u \in Recorded THEN CleanRow(Local[c][u]) ELSE NoRow
    BY <2>1 DEF ValidateHistory, SameMigration, Recorded
  <2>5. Recorded \subseteq DOMAIN Local[c] /\ DOMAIN Local[c] \subseteq Versions
    BY <2>1, LocalTyped DEF ValidateHistory
  <2>6. \A v \in Recorded, u \in DOMAIN Local[c] : u < v => u \in Recorded
    BY <2>1 DEF ValidateHistory
  <2>7. found \subseteq DOMAIN Local[c]
    BY <2>2, <2>5 DEF Pending, Latest
  <2>8. \A u \in Versions, v \in Versions : u < v \/ u = v \/ v < u
    BY VersionsPositive
  <2>9. \A u \in Versions, v \in Versions, w \in Versions :
          /\ u < v => ~(v < u) /\ u # v
          /\ u < v /\ v < w => u < w
    BY VersionsPositive
  <2>10. CASE op[c] = "up"
    <3>1. found = DOMAIN Local[c] \ Recorded
      BY <2>2, <2>10 DEF Pending
    <3>2. \A u \in Versions :
            u \in Recorded <=> u \in DOMAIN Local[c] /\ (\A w \in found : u < w)
      BY <3>1, <2>5, <2>6, <2>8, <2>9
    <3>3. Ahead(c)'
      BY <1>2, <2>3, <2>4, <2>10, <3>2 DEF Ahead, CleanRow
    <3>4. Gapless(c)'
      BY <2>3, <2>5, <2>6, <2>9, <3>1 DEF Gapless
    <3> QED
      BY <1>4, <2>3, <2>7, <2>10, <3>3, <3>4 DEF LoopingAt
  <2>11. CASE op[c] = "down"
    <3>1. /\ found \subseteq Recorded
          /\ \A v \in found, u \in Recorded \ found : u < v
      BY <2>2, <2>11 DEF Latest
    <3>2. \A u \in Versions :
            u \in Recorded
              <=> \/ u \in found
                  \/ u \in DOMAIN Local[c] /\ (\A w \in found : u < w)
      <4>1. ASSUME NEW u \in Recorded, u \notin found
            PROVE  u \in DOMAIN Local[c] /\ \A w \in found : u < w
        BY <2>5, <3>1, <4>1
      <4>2. ASSUME NEW u \in DOMAIN Local[c], \A w \in found : u < w
            PROVE  u \in Recorded
        BY <1>4, <2>6, <3>1, <4>2
      <4> QED
        BY <3>1, <4>1, <4>2
    <3>3. Ahead(c)'
      <4> SUFFICES ASSUME NEW u \in Versions
                   PROVE  history'[u]
                     = IF \/ op'[c] = "down" /\ u \in todo'[c]
                          \/ /\ u \in DOMAIN Local[c]
                             /\ \A w \in todo'[c] : u < w
                       THEN CleanRow(Local[c][u]) ELSE NoRow
        BY DEF Ahead, CleanRow
      <4>1. history'[u] = IF u \in Recorded THEN CleanRow(Local[c][u]) ELSE NoRow
        BY <1>2, <2>4
      <4> QED
        BY <2>3, <2>11, <3>2, <4>1
    <3>4. Gapless(c)'
      BY <2>3, <2>5, <2>6, <2>9, <3>1 DEF Gapless
    <3> QED
      BY <1>4, <2>3, <2>7, <2>11, <3>3, <3>4 DEF LoopingAt
  <2> QED
    BY <2>2, <2>10, <2>11
<1> QED
  BY <1>3, <1>4

\* Marking the next version leaves it alone with a dirty row, over a schema
\* that is still as it was before this migration.
LEMMA MarkStep ==
  ASSUME TypeOK, Looping, HistoryTellsSchema, NEW c \in Runners, MarkDirty(c)
  PROVE  LoopingAt(c)' /\ HistoryTellsSchema'
<1>1. PICK v \in Following(op[c], todo[c]) :
        /\ op[c] = "up" => history[v] = NoRow
        /\ history' = [history EXCEPT
             ![v] = IF op[c] = "up" THEN DirtyRow(Local[c][v])
                    ELSE SetDirty(history[v], TRUE)]
        /\ item' = [item EXCEPT ![c] = v]
  BY DEF MarkDirty
<1>2. /\ op[c] \in {"up", "down"} /\ todo[c] # {}
      /\ todo[c] \subseteq DOMAIN Local[c] /\ Gapless(c) /\ Ahead(c)
  BY DEF MarkDirty, Connected, Looping, LoopingAt, InLoop
<1>3. /\ v \in todo[c] /\ v \in DOMAIN Local[c] /\ v \in Versions
      /\ Local[c][v] \in Migrations
  BY <1>2, LocalTyped DEF Following
<1>4. DOMAIN Local[c] \subseteq Versions
  BY LocalTyped
<1>5. \A u \in Versions, w \in Versions :
        /\ u < w \/ u = w \/ w < u
        /\ u < w => ~(w < u) /\ u # w
        /\ u <= w <=> u < w \/ u = w
  BY VersionsPositive
<1>5a. \A u \in Versions, x \in Versions, w \in Versions :
         u < x /\ x < w => u < w
  BY VersionsPositive
<1>6. op[c] = "down" => history[v] = CleanRow(Local[c][v])
  BY <1>2, <1>3 DEF Ahead
<1>7. history' = [history EXCEPT ![v] = DirtyRow(Local[c][v])]
  BY <1>1, <1>2, <1>3, <1>6, SetDirtyRows
<1>8. history'[v] = DirtyRow(Local[c][v])
  BY <1>3, <1>7 DEF TypeOK
<1>9. \A u \in Versions \ {v} : history'[u] = history[u]
  BY <1>7 DEF TypeOK
<1>10. Alone(c, v)
  <2> SUFFICES ASSUME NEW u \in Versions \ {v}
               PROVE  history[u] = IF u \in DOMAIN Local[c] /\ u < v
                                   THEN CleanRow(Local[c][u]) ELSE NoRow
    BY DEF Alone
  <2>1. CASE op[c] = "up"
    <3>1. \A w \in todo[c] : v = w \/ v < w
      BY <1>2, <1>4, <1>5, <2>1 DEF Following
    <3>2. u < v <=> \A w \in todo[c] : u < w
      BY <1>2, <1>3, <1>4, <1>5, <1>5a, <3>1
    <3> QED
      BY <1>2, <2>1, <3>2 DEF Ahead
  <2>2. CASE op[c] = "down"
    <3>1. \A w \in todo[c] : w = v \/ w < v
      BY <1>2, <1>4, <1>5, <2>2 DEF Following
    <3>2. ASSUME u \in DOMAIN Local[c], u < v, u \notin todo[c],
                 NEW w \in todo[c]
          PROVE  u < w
      BY <1>2, <1>3, <1>4, <1>5, <3>1, <3>2 DEF Gapless
    <3>3. u \in DOMAIN Local[c] /\ u < v
            <=> \/ u \in todo[c]
                \/ u \in DOMAIN Local[c] /\ \A w \in todo[c] : u < w
      BY <1>2, <1>3, <1>4, <1>5, <3>1, <3>2
    <3> QED
      BY <1>2, <2>2, <3>3 DEF Ahead
  <2> QED
    BY <1>2, <2>1, <2>2
<1>11. schema[v] = Before(op[c], Local[c][v])
  <2>1. CASE op[c] = "up"
    BY <1>1, <1>3, <2>1 DEF HistoryTellsSchema, Before
  <2>2. CASE op[c] = "down"
    <3>1. history[v] = CleanRow(Local[c][v]) /\ history[v] # NoRow
      BY <1>3, <1>6, <2>2, RowsTyped
    <3> QED
      BY <1>3, <2>2, <3>1 DEF HistoryTellsSchema, Before, CleanRow
  <2> QED
    BY <1>2, <2>1, <2>2
<1>12. /\ pc'[c] = "execute" /\ item'[c] = v
       /\ UNCHANGED <<schema, lock, session, running, op, todo>>
  BY <1>1 DEF MarkDirty, Goto, TypeOK
<1>13. Gapless(c)'
  BY <1>2, <1>12 DEF Gapless
<1>14. AtItem(c, item[c])'
  BY <1>3, <1>8, <1>9, <1>10, <1>12 DEF AtItem, Alone, CleanRow, DirtyRow
<1>15. item'[c] \in Following(op[c], todo[c])'
  BY <1>1, <1>12 DEF Following
<1>16. LoopingAt(c)'
  BY <1>2, <1>11, <1>12, <1>13, <1>14, <1>15 DEF LoopingAt, Before
<1>17. HistoryTellsSchema'
  <2>1. history'[v] # NoRow /\ history'[v].dirty
    BY <1>3, <1>8, RowsTyped DEF DirtyRow
  <2> QED
    BY <1>9, <1>12, <2>1 DEF HistoryTellsSchema
<1> QED
  BY <1>16, <1>17

\* What is sent to the server is the migration in hand.
LEMMA ExecuteStep ==
  ASSUME TypeOK, Locked, Looping, NEW c \in Runners, Execute(c)
  PROVE  LoopingAt(c)' /\ ExecutingAt(c)'
<1>1. /\ op[c] \in {"up", "down"} /\ todo[c] # {}
      /\ todo[c] \subseteq DOMAIN Local[c] /\ Gapless(c)
      /\ item[c] \in Following(op[c], todo[c]) /\ AtItem(c, item[c])
      /\ schema[item[c]] = Before(op[c], Local[c][item[c]])
  BY DEF Execute, Connected, Looping, LoopingAt, InLoop
<1>2. UNCHANGED <<history, schema, lock, session>>
  BY DEF Execute
<1>3. CASE Leave(c, "end") /\ UNCHANGED running
  <2>1. pc'[c] = "end" /\ running'[c] = NoRun
    BY <1>3 DEF Leave, Goto, TypeOK, Execute, Connected, Locked
  <2> QED
    BY <2>1 DEF LoopingAt, ExecutingAt, InLoop
<1>4. CASE /\ running' = [running EXCEPT
                ![c] = [version |-> item[c], op |-> op[c],
                        migration |-> Local[c][item[c]]]]
           /\ Goto(c, "running")
           /\ UNCHANGED <<op, todo, item>>
  <2>1. /\ running'[c] = [version |-> item[c], op |-> op[c],
                          migration |-> Local[c][item[c]]]
        /\ pc'[c] = "running"
    BY <1>4 DEF Goto, TypeOK
  <2>2. Gapless(c)'
    BY <1>1, <1>4 DEF Gapless
  <2>3. AtItem(c, item[c])' /\ AtItem(c, running[c].version)'
    <3>1. item'[c] = item[c] /\ running'[c].version = item[c]
      BY <1>4, <2>1
    <3>2. history' = history
      BY <1>2
    <3> QED
      BY <1>1, <3>1, <3>2 DEF AtItem, Alone, CleanRow, DirtyRow
  <2>4. item'[c] \in Following(op[c], todo[c])'
    BY <1>1, <1>4 DEF Following
  <2>5. LoopingAt(c)'
    BY <1>1, <1>2, <1>4, <2>1, <2>2, <2>3, <2>4 DEF LoopingAt, Before
  <2>6. ExecutingAt(c)'
    BY <1>1, <1>2, <2>1, <2>3 DEF ExecutingAt, Before
  <2> QED
    BY <2>5, <2>6
<1> QED
  BY <1>3, <1>4 DEF Execute

\* The row of a migration that is done becomes clean, or goes, and the
\* history is again what the loop expects, without this migration.
LEMMA ClearStep ==
  ASSUME TypeOK, Looping, HistoryTellsSchema, NEW c \in Runners, Clear(c)
  PROVE  LoopingAt(c)' /\ HistoryTellsSchema'
<1>1. /\ op[c] \in {"up", "down"} /\ todo[c] \subseteq DOMAIN Local[c]
      /\ Gapless(c) /\ item[c] \in Following(op[c], todo[c])
      /\ AtItem(c, item[c])
      /\ schema[item[c]] = After(op[c], Local[c][item[c]])
  BY DEF Clear, Connected, Looping, LoopingAt, InLoop
<1>2. PICK v \in Versions : v = item[c]
  BY <1>1, LocalTyped DEF AtItem
<1>3. PICK left \in SUBSET Versions : left = todo[c] \ {v}
  BY <1>2 DEF TypeOK
<1>4. /\ v \in todo[c] /\ v \in DOMAIN Local[c]
      /\ Local[c][v] \in Migrations
      /\ history[v] = DirtyRow(Local[c][v]) /\ Alone(c, v)
  BY <1>1, <1>2, LocalTyped DEF AtItem, Following
<1>5. UNCHANGED <<schema, lock, session, running>> /\ Loop(c, left)
  BY <1>2, <1>3 DEF Clear
<1>6. history' = [history EXCEPT
        ![v] = IF op[c] = "up" THEN SetDirty(history[v], FALSE) ELSE NoRow]
  BY <1>2 DEF Clear
<1>7. history'[v] = IF op[c] = "up" THEN CleanRow(Local[c][v]) ELSE NoRow
  BY <1>4, <1>6, SetDirtyRows DEF TypeOK
<1>8. \A u \in Versions \ {v} :
        history'[u] = IF u \in DOMAIN Local[c] /\ u < v
                      THEN CleanRow(Local[c][u]) ELSE NoRow
  BY <1>4, <1>6 DEF TypeOK, Alone
<1>9. DOMAIN Local[c] \subseteq Versions
  BY LocalTyped
<1>10. \A u \in Versions, w \in Versions :
         /\ u < w \/ u = w \/ w < u
         /\ u < w => ~(w < u) /\ u # w
         /\ u <= w <=> u < w \/ u = w
  BY VersionsPositive
<1>11. \A u \in Versions, x \in Versions, w \in Versions :
         u < x /\ x < w => u < w
  BY VersionsPositive
<1>12. HistoryTellsSchema'
  <2> SUFFICES ASSUME NEW u \in Versions
               PROVE  /\ history'[u] = NoRow => schema'[u] = Absent
                      /\ history'[u] # NoRow /\ ~history'[u].dirty =>
                           schema'[u] = history'[u].migration
    BY DEF HistoryTellsSchema
  <2>1. CASE u # v
    <3>1. history'[u] = history[u]
      BY <1>6, <2>1 DEF TypeOK
    <3> QED
      BY <1>5, <3>1 DEF HistoryTellsSchema
  <2>2. CASE u = v
    <3>1. schema'[v] = After(op[c], Local[c][v])
      BY <1>1, <1>2, <1>5
    <3>2. CleanRow(Local[c][v]) # NoRow
      BY <1>4, RowsTyped
    <3> QED
      BY <1>1, <1>7, <2>2, <3>1, <3>2 DEF After, CleanRow
  <2> QED
    BY <2>1, <2>2
<1>13. CASE left = {}
  <2>1. pc'[c] = "end"
    BY <1>5, <1>13 DEF Loop, Leave, Goto, TypeOK
  <2> QED
    BY <1>12, <2>1 DEF LoopingAt, InLoop
<1>14. CASE left # {}
  <2>1. /\ todo'[c] = left /\ op'[c] = op[c] /\ pc'[c] = "mark"
    BY <1>5, <1>14 DEF Loop, Goto, TypeOK
  <2>2. Gapless(c)'
    <3> SUFFICES ASSUME NEW u \in left, NEW w \in left,
                        NEW x \in DOMAIN Local[c], u < x, x < w
                 PROVE  x \in left
      BY <2>1 DEF Gapless
    <3>1. x \in todo[c]
      BY <1>1, <1>3 DEF Gapless
    <3>2. x # v
      <4>1. CASE op[c] = "up"
        BY <1>1, <1>2, <1>3, <1>10, <4>1 DEF Following
      <4>2. CASE op[c] = "down"
        BY <1>1, <1>2, <1>3, <1>10, <4>2 DEF Following
      <4> QED
        BY <1>1, <4>1, <4>2
    <3> QED
      BY <1>3, <3>1, <3>2
  <2>3. Ahead(c)'
    <3> SUFFICES ASSUME NEW u \in Versions
                 PROVE  history'[u]
                   = IF \/ op[c] = "down" /\ u \in left
                        \/ u \in DOMAIN Local[c] /\ (\A w \in left : u < w)
                     THEN CleanRow(Local[c][u]) ELSE NoRow
      BY <2>1 DEF Ahead, CleanRow
    <3>1. CASE op[c] = "up"
      <4>1. \A w \in left : v < w
        BY <1>1, <1>2, <1>3, <1>9, <1>10, <3>1 DEF Following
      <4>2. CASE u = v
        BY <1>4, <1>7, <3>1, <4>1, <4>2
      <4>3. CASE u # v
        <5>1. ASSUME u \in DOMAIN Local[c], u < v, NEW w \in left
              PROVE  u < w
          BY <1>3, <1>11, <4>1, <5>1
        <5>2. ASSUME u \in DOMAIN Local[c], \A w \in left : u < w,
                     ~(u < v)
              PROVE  FALSE
          <6>1. v < u
            BY <1>10, <4>3, <5>2
          <6>2. PICK w \in left : u < w
            BY <1>14, <5>2
          <6>3. u \in todo[c]
            BY <1>1, <1>3, <1>4, <5>2, <6>1, <6>2 DEF Gapless
          <6>4. u \in left
            BY <1>3, <4>3, <6>3
          <6> QED
            BY <1>10, <5>2, <6>4
        <5>3. u \in DOMAIN Local[c] /\ u < v
                <=> u \in DOMAIN Local[c] /\ (\A w \in left : u < w)
          BY <5>1, <5>2
        <5> QED
          BY <1>8, <3>1, <4>3, <5>3
      <4> QED
        BY <4>2, <4>3
    <3>2. CASE op[c] = "down"
      <4>1. \A w \in left : w < v
        BY <1>1, <1>2, <1>3, <1>9, <1>10, <3>2 DEF Following
      <4>2. CASE u = v
        <5>1. v \notin left /\ ~(\A w \in left : v < w)
          BY <1>3, <1>10, <1>14, <4>1
        <5> QED
          BY <1>7, <3>2, <4>2, <5>1
      <4>3. CASE u # v
        <5>1. ASSUME u \in DOMAIN Local[c], u < v, u \notin left,
                     NEW w \in left
              PROVE  u < w
          <6>1. u \notin todo[c] /\ w # u
            BY <1>3, <4>3, <5>1
          <6>2. ~(w < u)
            BY <1>1, <1>3, <1>4, <5>1, <6>1 DEF Gapless
          <6> QED
            BY <1>3, <1>10, <6>1, <6>2
        <5>2. ASSUME u \in left
              PROVE  u \in DOMAIN Local[c] /\ u < v
          BY <1>1, <1>3, <4>1, <5>2
        <5>3. ASSUME u \in DOMAIN Local[c], \A w \in left : u < w
              PROVE  u < v
          BY <1>3, <1>11, <1>14, <4>1, <5>3
        <5>4. u \in DOMAIN Local[c] /\ u < v
                <=> \/ u \in left
                    \/ u \in DOMAIN Local[c] /\ (\A w \in left : u < w)
          BY <5>1, <5>2, <5>3
        <5> QED
          BY <1>8, <3>2, <4>3, <5>4
      <4> QED
        BY <4>2, <4>3
    <3> QED
      BY <1>1, <3>1, <3>2
  <2>4. LoopingAt(c)'
    BY <1>1, <1>3, <1>14, <2>1, <2>2, <2>3 DEF LoopingAt
  <2> QED
    BY <1>12, <2>4
<1> QED
  BY <1>13, <1>14

\* What a session executes is the migration of its command, if that is still
\* there, and it finds the schema as the migration expects it.
LEMMA ServerExecutesStep ==
  ASSUME TypeOK, Locked, Looping, Executing, HistoryTellsSchema,
         NEW c \in Runners, ServerExecutes(c)
  PROVE  LoopingAt(c)' /\ HistoryTellsSchema'
<1>1. PICK r \in Runs : r = running[c]
  BY DEF ServerExecutes, TypeOK
<1>2. PICK v \in Versions : v = r.version
  BY <1>1 DEF Runs
<1>3. /\ AtItem(c, v) /\ r.migration = Local[c][v]
      /\ schema[v] = Before(r.op, r.migration)
  BY <1>1, <1>2 DEF ServerExecutes, Executing, ExecutingAt
<1>4. r.op \in {"up", "down"} /\ r.migration \in Migrations
  BY DEF Runs
<1>5. r.migration # Absent
  BY <1>4, NamesAssumption DEF NamesAssumption
<1>6. Effect(r) = After(r.op, r.migration)
  BY <1>2, <1>3, <1>4, <1>5 DEF Effect, Before, After
<1>7. /\ schema' = [schema EXCEPT ![v] = After(r.op, r.migration)]
      /\ running' = [running EXCEPT ![c] = NoRun]
      /\ IF pc[c] = "running" THEN Goto(c, "clear") ELSE UNCHANGED pc
      /\ UNCHANGED <<history, lock, session, op, todo, item>>
  BY <1>1, <1>2, <1>6 DEF ServerExecutes
<1>8. HistoryTellsSchema'
  <2>1. history[v] = DirtyRow(Local[c][v]) /\ history[v] # NoRow
    BY <1>3, LocalTyped, RowsTyped DEF AtItem
  <2>2. history[v].dirty
    BY <2>1 DEF DirtyRow
  <2>3. history' = history /\ \A u \in Versions \ {v} : schema'[u] = schema[u]
    BY <1>7 DEF TypeOK
  <2> QED
    BY <2>1, <2>2, <2>3 DEF HistoryTellsSchema
<1>9. CASE session[c] = "open"
  <2>1. pc[c] = "running"
    BY <1>9 DEF ServerExecutes, Locked
  <2>2. /\ op[c] \in {"up", "down"} /\ todo[c] # {}
        /\ todo[c] \subseteq DOMAIN Local[c] /\ Gapless(c)
        /\ item[c] \in Following(op[c], todo[c]) /\ AtItem(c, item[c])
        /\ running[c] = [version |-> item[c], op |-> op[c],
                         migration |-> Local[c][item[c]]]
    BY <1>9, <2>1 DEF Looping, LoopingAt, InLoop
  <2>3. item[c] = v /\ op[c] = r.op
    BY <1>1, <1>2, <2>2
  <2>4. pc'[c] = "clear"
    BY <1>7, <2>1 DEF Goto, TypeOK
  <2>5. schema'[v] = After(op[c], Local[c][v])
    BY <1>3, <1>7, <2>3 DEF TypeOK
  <2>6. Gapless(c)'
    BY <1>7, <2>2 DEF Gapless
  <2>7. AtItem(c, item[c])'
    <3>1. item'[c] = item[c] /\ history' = history
      BY <1>7
    <3> QED
      BY <2>2, <3>1 DEF AtItem, Alone, CleanRow, DirtyRow
  <2>8. item'[c] \in Following(op[c], todo[c])'
    BY <1>7, <2>2 DEF Following
  <2> QED
    BY <1>7, <1>8, <2>2, <2>3, <2>4, <2>5, <2>6, <2>7, <2>8
       DEF LoopingAt, After
<1>10. CASE session[c] # "open"
  BY <1>7, <1>8, <1>10 DEF LoopingAt
<1> QED
  BY <1>9, <1>10

\* A statement that fails leaves only what its row already doubts.
LEMMA ServerFailsStep ==
  ASSUME TypeOK, Locked, Executing, HistoryTellsSchema,
         NEW c \in Runners, ServerFails(c)
  PROVE  LoopingAt(c)' /\ HistoryTellsSchema'
<1>1. PICK v \in Versions : v = running[c].version
  BY DEF ServerFails, TypeOK, Runs
<1>2. history[v] = DirtyRow(Local[c][v]) /\ history[v] # NoRow
  BY <1>1, LocalTyped, RowsTyped
     DEF ServerFails, Executing, ExecutingAt, AtItem
<1>3. history[v].dirty
  BY <1>2 DEF DirtyRow
<1>4. history' = history /\ \A u \in Versions \ {v} : schema'[u] = schema[u]
  BY <1>1 DEF ServerFails, TypeOK
<1>5. HistoryTellsSchema'
  BY <1>2, <1>3, <1>4 DEF HistoryTellsSchema
<1>6. CASE pc[c] = "running"
  BY <1>5, <1>6 DEF ServerFails, Leave, Goto, LoopingAt, InLoop, TypeOK
<1>7. CASE pc[c] # "running"
  BY <1>5, <1>7 DEF ServerFails, Locked, LoopingAt
<1> QED
  BY <1>6, <1>7

\* Only a session that stays open has a command in its loop.
LEMMA QuietStep ==
  ASSUME TypeOK, Locked, Looping, NEW c \in Runners,
         \/ \E o \in {"up", "down", "verify"} : Start(c, o)
         \/ GetLock(c) \/ LockTimesOut(c) \/ Fails(c) \/ Release(c)
         \/ ClientGone(c) \/ EndOrphan(c) \/ ServerDrops(c)
  PROVE  LoopingAt(c)' /\ UNCHANGED <<history, schema>>
<1>1. CASE \/ \E o \in {"up", "down", "verify"} : Start(c, o)
           \/ GetLock(c)
  BY <1>1 DEF Start, GetLock, Goto, LoopingAt, InLoop, TypeOK
<1>2. CASE LockTimesOut(c) \/ Fails(c) \/ Release(c) \/ ClientGone(c)
  BY <1>2 DEF LockTimesOut, Fails, Release, ClientGone, Leave, Goto,
     LoopingAt, InLoop, TypeOK
<1>3. CASE EndOrphan(c) \/ ServerDrops(c)
  BY <1>3 DEF EndOrphan, ServerDrops, LoopingAt, TypeOK
<1> QED
  BY <1>1, <1>2, <1>3

\* Nothing but Execute gives a session something to execute.
LEMMA ExecutingStep ==
  ASSUME TypeOK, Locked, Looping, Executing, NEW c \in Runners, Actions(c)
  PROVE  ExecutingAt(c)'
<1>1. CASE Execute(c)
  BY <1>1, ExecuteStep
<1>2. CASE ServerExecutes(c) \/ ServerFails(c)
  BY <1>2 DEF ServerExecutes, ServerFails, ExecutingAt, TypeOK
<1>3. CASE MarkDirty(c) \/ Clear(c)
  <2>1. running'[c] = NoRun
    BY <1>3 DEF MarkDirty, Clear, Connected, Locked
  <2> QED
    BY <2>1 DEF ExecutingAt
<1>4. CASE \/ \E o \in {"up", "down", "verify"} : Start(c, o)
           \/ GetLock(c) \/ LockTimesOut(c) \/ ReadApplied(c) \/ Fails(c)
           \/ Release(c) \/ ClientGone(c) \/ EndOrphan(c) \/ ServerDrops(c)
  <2>1. UNCHANGED <<history, schema, running>>
    BY <1>4 DEF Start, GetLock, LockTimesOut, ReadApplied, Fails, Release,
       ClientGone, EndOrphan, ServerDrops
  <2>2. ExecutingAt(c)
    BY DEF Executing
  <2> QED
    BY <2>1, <2>2 DEF ExecutingAt, AtItem, Alone, Before, CleanRow, DirtyRow
<1> QED
  BY <1>1, <1>2, <1>3, <1>4 DEF Actions, Statement, Server

\* The command that takes the step keeps its place in the loop, and the
\* history its word.
LEMMA LoopingStep ==
  ASSUME Inv, NEW c \in Runners, Actions(c)
  PROVE  LoopingAt(c)' /\ HistoryTellsSchema'
<1> USE DEF Inv
<1>1. CASE UNCHANGED <<history, schema>> /\ LoopingAt(c)'
  BY <1>1 DEF HistoryTellsSchema
<1>2. CASE ReadApplied(c)
  <2>1. UNCHANGED <<history, schema>>
    BY <1>2 DEF ReadApplied
  <2> QED
    BY <1>1, <1>2, <2>1, ReadStep
<1>3. CASE Execute(c)
  <2>1. UNCHANGED <<history, schema>>
    BY <1>3 DEF Execute
  <2> QED
    BY <1>1, <1>3, <2>1, ExecuteStep
<1> QED
  BY <1>1, <1>2, <1>3, MarkStep, ClearStep, ServerExecutesStep, ServerFailsStep,
     QuietStep DEF Actions, Statement, Server

-----------------------------------------------------------------------------
(***************************************************************************)
(* Theorems.                                                               *)
(***************************************************************************)

\* Next is a step of some command.
LEMMA NextActions == Next <=> \E c \in Runners : Actions(c)
BY DEF Next, Actions

\* Every conjunct of Inv holds when nothing has begun.
LEMMA InitInv == Init => Inv
<1> SUFFICES ASSUME Init PROVE Inv
  OBVIOUS
<1>1. TypeOK
  BY DEF Init, TypeOK
<1>2. Locked /\ Looping /\ Executing
  BY DEF Init, Locked, Looping, LoopingAt, Executing, ExecutingAt, InLoop
<1>3. HistoryTellsSchema
  BY DEF Init, HistoryTellsSchema
<1> QED
  BY <1>1, <1>2, <1>3 DEF Inv

\* Every step keeps Inv.
LEMMA NextInv == Inv /\ [Next]_vars => Inv'
<1> SUFFICES ASSUME Inv, [Next]_vars PROVE Inv'
  OBVIOUS
<1>1. TypeOK'
  BY TypeStep DEF Inv
<1>2. CASE UNCHANGED vars
  BY <1>1, <1>2 DEF Inv, Locked, Looping, LoopingAt, Executing, ExecutingAt,
     HistoryTellsSchema, AtItem, Alone, Ahead, Gapless, Following, Before,
     After, CleanRow, DirtyRow, vars, local
<1>3. CASE Next
  <2>1. PICK c \in Runners : Actions(c)
    BY <1>3, NextActions
  <2>2. Locked'
    BY <2>1, LockedNext DEF Inv
  <2>3. LoopingAt(c)' /\ HistoryTellsSchema' /\ ExecutingAt(c)'
    BY <2>1, LoopingStep, ExecutingStep DEF Inv
  <2>4. \A d \in Runners \ {c} : LoopingAt(d)' /\ ExecutingAt(d)'
    BY <2>1, Aside DEF Inv
  <2>5. Looping'
    BY <2>3, <2>4 DEF Looping
  <2>6. Executing'
    BY <2>3, <2>4 DEF Executing
  <2> QED
    BY <1>1, <2>2, <2>3, <2>5, <2>6 DEF Inv
<1> QED
  BY <1>2, <1>3

\* Inv is an invariant.
LEMMA Invariance == Spec => []Inv
<1> QED
  BY InitInv, NextInv, PTL DEF Spec

\* Rows, sessions and commands keep their shapes, with any files and any
\* number of commands.
THEOREM TypeCorrect == Spec => []TypeOK
<1>1. Inv => TypeOK
  BY DEF Inv
<1> QED
  BY Invariance, <1>1, PTL

\* schema_migrations never lies about a version without a row or with a clean
\* one, whatever crashes, timeouts and failures come together.
THEOREM HistoryTruthful == Spec => []HistoryTellsSchema
<1>1. Inv => HistoryTellsSchema
  BY DEF Inv
<1> QED
  BY Invariance, <1>1, PTL

\* MySQL never executes the migrations of two commands at a time, not even
\* when the first has died without waiting for its own.
THEOREM OneAtATime ==
  Spec => [](\A c, d \in Runners :
               running[c] # NoRun /\ running[d] # NoRun => c = d)
<1>1. Inv => \A c, d \in Runners :
               running[c] # NoRun /\ running[d] # NoRun => c = d
  BY DEF Inv, Locked
<1> QED
  BY Invariance, <1>1, PTL

InOrder ==
  \A v \in Versions : schema'[v] # schema[v] =>
    \E c \in Runners :
      /\ lock = c
      /\ v \in DOMAIN Local[c]
      /\ \A u \in Versions \ {v} :
           IF u \in DOMAIN Local[c] /\ u < v
           THEN history[u] = CleanRow(Local[c][u])
           ELSE history[u] = NoRow

\* A step that touches the schema is the server's, for the session that holds
\* the lock, at the version that ends the clean prefix.
LEMMA InOrderStep == Inv /\ [Next]_vars => InOrder
<1> SUFFICES ASSUME Inv, [Next]_vars, NEW v \in Versions,
                    schema'[v] # schema[v]
             PROVE  \E c \in Runners :
                      /\ lock = c
                      /\ v \in DOMAIN Local[c]
                      /\ \A u \in Versions \ {v} :
                           IF u \in DOMAIN Local[c] /\ u < v
                           THEN history[u] = CleanRow(Local[c][u])
                           ELSE history[u] = NoRow
  BY DEF InOrder
<1>1. PICK c \in Runners : Actions(c)
  BY NextActions DEF vars
<1>2. ServerExecutes(c) \/ ServerFails(c)
  BY <1>1 DEF Actions, Statement, Server, Start, GetLock, LockTimesOut,
     ReadApplied, MarkDirty, Execute, Clear, Fails, Release, EndOrphan,
     ClientGone, ServerDrops
<1>3. running[c] # NoRun /\ running[c].version = v
  BY <1>2 DEF ServerExecutes, ServerFails, Inv, TypeOK
<1>4. lock = c /\ AtItem(c, v)
  BY <1>3 DEF Inv, Locked, Executing, ExecutingAt
<1>5. \A u \in Versions \ {v} :
        IF u \in DOMAIN Local[c] /\ u < v
        THEN history[u] = CleanRow(Local[c][u]) ELSE history[u] = NoRow
  BY <1>4 DEF AtItem, Alone
<1> QED
  BY <1>4, <1>5 DEF AtItem

\* The schema is touched by one command at a time, which holds the lock, and
\* only when exactly the earlier versions of its own files are in place.
THEOREM AppliedInOrder == Spec => StepsInOrder
<1>1. Inv /\ [Next]_vars => [InOrder]_vars
  BY InOrderStep
<1> QED
  BY Invariance, <1>1, PTL DEF Spec, StepsInOrder, InOrder

=============================================================================
