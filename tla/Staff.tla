------------------------------- MODULE Staff -------------------------------
(***************************************************************************)
(* The staff of one merchant: account rows in MySQL, a session version of  *)
(* each account in Redis, and tokens that carry the version they were made *)
(* with.  A change of an account is a transaction that locks its row, and  *)
(* the rows of all enabled owners when it takes an owner away, and counts  *)
(* the session version up before it commits.  Passwords are left out: a    *)
(* sign-in starts where the password was right.                            *)
(***************************************************************************)
EXTENDS Integers, FiniteSets

CONSTANTS
  Accounts,    \* ids of accounts, those of later ones included
  Roles,       \* the roles that accounts are given
  Requests,    \* requests that may run at once
  MaxChanges,  \* bound on the changes of accounts that are begun
  Nobody

AllRoles == {"owner", "admin", "operator", "sales", "warehouse"}

ASSUME StaffAssumption ==
  /\ Roles \subseteq AllRoles
  /\ "owner" \in Roles
  /\ IsFiniteSet(Accounts)
  /\ Nobody \notin Requests \cup Accounts
  /\ MaxChanges \in Nat

-----------------------------------------------------------------------------

VARIABLES
  account,  \* the committed row of each account
  lock,     \* the request whose transaction has the row locked
  version,  \* Redis: the session version of each account
  refresh,  \* Redis: what the keys of refresh tokens hold
  request,  \* the requests in progress
  revoked,  \* versions below this one were taken back by committed changes
  changes

rows == <<account, lock, revoked, changes>>
redis == <<version, refresh>>
vars == <<rows, redis, request>>

NoAccount == [role |-> "none", enabled |-> FALSE]

Rows == [role : Roles, enabled : BOOLEAN]

Tokens == [account : Accounts, version : 0..MaxChanges]

Steps == {"idle", "version", "admitted", "count", "incr", "commit",
          "compare", "load", "issue", "store"}

\* actor, role, version: whose request it is, the role read for it, and the
\* version of its token; dead: that token had been taken back when the request
\* came; target, wanted: the row a change writes; old: the version of target
\* when its row was locked.  What is not read again is dropped.
Locals ==
  [pc : Steps, actor : Accounts \cup {Nobody}, role : Roles \cup {"none"},
   version : 0..MaxChanges, dead : BOOLEAN,
   target : Accounts \cup {Nobody}, wanted : Rows \cup {NoAccount},
   old : 0..MaxChanges]

Idle == [pc |-> "idle", actor |-> Nobody, role |-> "none", version |-> 0,
         dead |-> FALSE, target |-> Nobody, wanted |-> NoAccount, old |-> 0]

EnabledOwner(row) == row.role = "owner" /\ row.enabled

\* The merchant's first accounts are made on the command line.
Init ==
  /\ account \in [Accounts -> {row \in Rows : row.enabled} \cup {NoAccount}]
  /\ \E a \in Accounts : EnabledOwner(account[a])
  /\ lock = [a \in Accounts |-> Nobody]
  /\ version = [a \in Accounts |-> 0]
  /\ refresh = {}
  /\ request = [r \in Requests |-> Idle]
  /\ revoked = [a \in Accounts |-> 0]
  /\ changes = 0

-----------------------------------------------------------------------------

IsValidMerchantRole(role) == role \in AllRoles

MayWriteAccounts(role) == role \in {"owner", "admin"}

canManageMerchantRole(actor, target) ==
  \/ actor = "owner"
  \/ actor = "admin" /\ target \notin {"owner", "admin"}

\* What every way in asks of the account.
Usable(a) == account[a].enabled /\ IsValidMerchantRole(account[a].role)

At(r, pc) == request[r].pc = pc

Goto(r, locals) == request' = [request EXCEPT ![r] = locals]

Step(r, pc) == Goto(r, [request[r] EXCEPT !.pc = pc])

Answer(r) == Goto(r, Idle)

Token(r) == [account |-> request[r].actor, version |-> request[r].version]

\* Keys of several tokens may hold the same value: one of them is deleted.
DeleteKey(t) == refresh' \in {refresh, refresh \ {t}}

Dead(t) == t.version < revoked[t.account]

Begin(r, t, pc, role) ==
  /\ At(r, "idle")
  /\ Goto(r, [Idle EXCEPT !.pc = pc, !.actor = t.account, !.role = role,
                          !.version = t.version, !.dead = Dead(t)])
  /\ UNCHANGED <<rows, redis>>

-----------------------------------------------------------------------------
(***************************************************************************)
(* Requests with an access token.                                          *)
(***************************************************************************)

\* A signed token is one that was made: with any version there has been.
Signed(t) == t.version <= version[t.account]

\* The middleware reads the row, and then the version.
MerchantAuth(r, t) ==
  /\ Signed(t)
  /\ Usable(t.account)
  /\ Begin(r, t, "version", account[t.account].role)

\* Mutant: only tokens from the future are refused.
NotNewer(r) == request[r].version <= version[request[r].actor]

SameVersion(r) == request[r].version = version[request[r].actor]

CheckVersion(r) ==
  /\ At(r, "version")
  /\ IF SameVersion(r)
       THEN Goto(r, [request[r] EXCEPT !.pc = "admitted", !.version = 0])
       ELSE Answer(r)
  /\ UNCHANGED <<rows, redis>>

\* A request that reads, or is refused for its permission or its input.
Finish(r) ==
  /\ At(r, "admitted")
  /\ Answer(r)
  /\ UNCHANGED <<rows, redis>>

Logout(r, t) ==
  /\ At(r, "admitted")
  /\ t \in refresh /\ t.account = request[r].actor
  /\ DeleteKey(t)
  /\ Answer(r)
  /\ UNCHANGED <<rows, version>>

\* The user name is a unique key.
UsernameExists(a) == account[a] # NoAccount

Create(r, a, row) ==
  /\ At(r, "admitted")
  /\ MayWriteAccounts(request[r].role)
  /\ canManageMerchantRole(request[r].role, row.role)
  /\ ~UsernameExists(a)
  /\ account' = [account EXCEPT ![a] = row]
  /\ Answer(r)
  /\ UNCHANGED <<lock, revoked, changes, redis>>

-----------------------------------------------------------------------------
(***************************************************************************)
(* The transactions that change an account.                                *)
(***************************************************************************)

Free(r, a) == lock[a] \in {r, Nobody}

LockRows(r, locked) ==
  /\ \A a \in locked : Free(r, a)
  /\ lock' = [a \in Accounts |-> IF a \in locked THEN r ELSE lock[a]]

\* Mutant: a refused change leaves its transaction open.
KeepRows(r) == lock

Unlocked(r) == [a \in Accounts |-> IF lock[a] = r THEN Nobody ELSE lock[a]]

Rollback(r) ==
  /\ lock' = Unlocked(r)
  /\ Answer(r)
  /\ UNCHANGED <<account, revoked>>

\* Mutant: the row is read without locking it.
FindByID(r, a) == account[a] # NoAccount /\ UNCHANGED lock

FindForUpdate(r, a) ==
  /\ account[a] # NoAccount
  /\ LockRows(r, {a})

\* The row as the transaction will leave it, once it may go on to pc.
Change(r, a, row, pc) ==
  /\ At(r, "admitted")
  /\ MayWriteAccounts(request[r].role)
  /\ changes < MaxChanges
  /\ changes' = changes + 1
  /\ FindForUpdate(r, a)
  /\ Goto(r, [Idle EXCEPT !.pc = pc, !.role = request[r].role, !.target = a,
                          !.wanted = row, !.old = version[a]])
  /\ UNCHANGED <<account, revoked, redis>>

TakesOwnerAway(a, row) == account[a].role = "owner" /\ ~EnabledOwner(row)

\* A change that these checks refuse ends as Finish does.
Update(r, a, row) ==
  /\ canManageMerchantRole(request[r].role, account[a].role)
  /\ canManageMerchantRole(request[r].role, row.role)
  /\ ~(a = request[r].actor /\ ~row.enabled)
  /\ Change(r, a, row, IF TakesOwnerAway(a, row) THEN "count" ELSE "incr")

ResetPassword(r, a) ==
  /\ \/ a = request[r].actor
     \/ canManageMerchantRole(request[r].role, account[a].role)
  /\ Change(r, a, account[a], "incr")

\* Mutant: the owners are counted without locking their rows.
JustCounting == {}

OwnersToLock == {a \in Accounts : EnabledOwner(account[a])}

EnabledOwners == {a \in Accounts : EnabledOwner(account[a])}

CountEnabledOwnersForUpdate(r) ==
  /\ At(r, "count")
  /\ LockRows(r, OwnersToLock)
  /\ account[request[r].target].enabled => Cardinality(EnabledOwners) > 1
  /\ Step(r, "incr")
  /\ UNCHANGED <<account, revoked, changes, redis>>

\* Nobody but this owner is left.
LastOwner(r) ==
  /\ At(r, "count")
  /\ \A a \in OwnersToLock : Free(r, a)
  /\ account[request[r].target].enabled
  /\ Cardinality(EnabledOwners) <= 1
  /\ Rollback(r)
  /\ UNCHANGED <<changes, redis>>

\* Mutant: the sessions outlive a new password.
NextVersionIfChanged(r, a) ==
  IF request[r].wanted = account[a] THEN version[a] ELSE version[a] + 1

NextVersion(r, a) == version[a] + 1

Incr(r) ==
  /\ At(r, "incr")
  /\ LET a == request[r].target IN
       version' = [version EXCEPT ![a] = NextVersion(r, a)]
  /\ Step(r, "commit")
  /\ UNCHANGED <<rows, refresh>>

WriteRow(r) ==
  account' = [account EXCEPT ![request[r].target] = request[r].wanted]

Commit(r) ==
  /\ At(r, "commit")
  /\ WriteRow(r)
  /\ lock' = Unlocked(r)
  /\ revoked' = [revoked EXCEPT ![request[r].target] = request[r].old + 1]
  /\ Answer(r)
  /\ UNCHANGED <<changes, redis>>

\* r waits for a row that q has locked.
WaitsFor(r, q) ==
  At(r, "count") /\ q # r /\ \E a \in OwnersToLock : lock[a] = q

\* InnoDB rolls back one of the transactions that wait for each other.
DeadlockVictim(r) ==
  /\ \E circle \in SUBSET Requests :
       r \in circle /\ \A p \in circle : \E q \in circle : WaitsFor(p, q)
  /\ Rollback(r)
  /\ UNCHANGED <<changes, redis>>

-----------------------------------------------------------------------------
(***************************************************************************)
(* Signing in, and exchanging a refresh token.                             *)
(***************************************************************************)

\* The password was right, the account is in order.
Login(r, a) ==
  /\ Usable(a)
  /\ At(r, "idle")
  /\ Goto(r, [Idle EXCEPT !.pc = "issue", !.actor = a])
  /\ UNCHANGED <<rows, redis>>

Refresh(r, t) == t \in refresh /\ Begin(r, t, "compare", "none")

CompareVersion(r) ==
  /\ At(r, "compare")
  /\ \/ /\ SameVersion(r)
        /\ Step(r, "load")
        /\ UNCHANGED refresh
     \/ /\ ~SameVersion(r)
        /\ DeleteKey(Token(r))
        /\ Answer(r)
  /\ UNCHANGED <<rows, version>>

\* The token is given up for the new one when the account is in order.
loadActiveAccount(r) ==
  /\ At(r, "load")
  /\ IF Usable(request[r].actor)
       THEN /\ DeleteKey(Token(r))
            /\ Goto(r, [Idle EXCEPT !.pc = "issue", !.actor = request[r].actor])
       ELSE /\ Answer(r)
            /\ UNCHANGED refresh
  /\ UNCHANGED <<rows, version>>

\* buildAuthResponse reads the version, whatever was read before, ...
ReadVersion(r) ==
  /\ At(r, "issue")
  /\ Goto(r, [request[r] EXCEPT !.pc = "store",
                                !.version = version[request[r].actor]])
  /\ UNCHANGED <<rows, redis>>

\* ... and stores the refresh token that it hands out with the access token.
StoreToken(r) ==
  /\ At(r, "store")
  /\ refresh' = refresh \cup {Token(r)}
  /\ Answer(r)
  /\ UNCHANGED <<rows, version>>

Expire(t) ==
  /\ t \in refresh
  /\ DeleteKey(t)
  /\ UNCHANGED <<rows, version, request>>

\* Redis or MySQL fails the request, or the process dies; after Incr the
\* version stays counted up although the row does not change.
Fail(r) ==
  /\ ~At(r, "idle")
  /\ Rollback(r)
  /\ UNCHANGED <<changes, redis>>

-----------------------------------------------------------------------------

Next ==
  \/ \E r \in Requests :
       \/ CheckVersion(r)
       \/ Finish(r)
       \/ CountEnabledOwnersForUpdate(r)
       \/ LastOwner(r)
       \/ Incr(r)
       \/ Commit(r)
       \/ DeadlockVictim(r)
       \/ CompareVersion(r)
       \/ loadActiveAccount(r)
       \/ ReadVersion(r)
       \/ StoreToken(r)
       \/ Fail(r)
       \/ \E t \in Tokens : MerchantAuth(r, t) \/ Refresh(r, t) \/ Logout(r, t)
       \/ \E a \in Accounts :
            \/ Login(r, a)
            \/ ResetPassword(r, a)
            \/ \E row \in Rows : Create(r, a, row) \/ Update(r, a, row)
  \/ \E t \in Tokens : Expire(t)

Spec == Init /\ [][Next]_vars

-----------------------------------------------------------------------------
(***************************************************************************)
(* Properties.                                                             *)
(***************************************************************************)

\* Rows, keys and requests in progress have the shape the code gives them, and
\* a row is locked by a request that is in a transaction.
TypeOK ==
  /\ account \in [Accounts -> Rows \cup {NoAccount}]
  /\ version \in [Accounts -> 0..MaxChanges]
  /\ refresh \subseteq Tokens
  /\ revoked \in [Accounts -> 0..MaxChanges]
  /\ request \in [Requests -> Locals]
  /\ changes \in 0..MaxChanges
  /\ lock \in [Accounts -> Requests \cup {Nobody}]
  /\ \A a \in Accounts :
       lock[a] # Nobody => request[lock[a]].pc \in {"count", "incr", "commit"}

\* The merchant keeps an enabled owner, whichever owners are demoted or
\* disabled at the same time, and by whom.
OwnerRemains == \E a \in Accounts : EnabledOwner(account[a])

\* Once a change of an account has been committed, no request that comes with
\* a token handed out before the change began gets past the version check:
\* neither to an answer nor to new tokens.
OldSessionsRefused ==
  \A r \in Requests :
    request[r].dead => request[r].pc \in {"version", "compare"}

\* Whatever runs at once, an owner's or admin's account is only ever changed,
\* and nobody becomes one, by a request that an owner made: what an admin's
\* request found when it was checked is still so when it commits.
SeniorsChangedByOwners ==
  [][\A a \in Accounts :
       account'[a] # account[a] /\ {account[a].role, account'[a].role} \cap
                                     {"owner", "admin"} # {}
         => \E r \in Requests :
              request'[r] # request[r] /\ request[r].role = "owner"]_vars

=============================================================================
