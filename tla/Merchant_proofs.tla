-------------------------- MODULE Merchant_proofs --------------------------
(***************************************************************************)
(* Proofs about what the merchant's side changes: Staff, its accounts and  *)
(* their sessions, and Shelf, its catalogue, stock and coupons.  They have *)
(* no state in common, and each part of the module is about one of them.   *)
(*                                                                         *)
(* Staff, for any number of accounts and requests: a transaction that is   *)
(* under way has its row locked, so what it read of the row is true until  *)
(* it commits; one that takes an owner away has also locked another        *)
(* enabled owner, who therefore stays one.                                 *)
(*                                                                         *)
(* Shelf, for any catalogue, coupons, orders and staff: a request that is  *)
(* to write a SKU holds its row's lock, or is the one to insert it, so the *)
(* difference it will log is the one to the stock the row still has; an    *)
(* edit of a coupon holds its row, so nobody claims it meanwhile.  What a  *)
(* catalogue request has checked is not locked, and holds until another    *)
(* request writes: only writes that come after that can spoil anything.    *)
(***************************************************************************)
EXTENDS Staff, Shelf, FiniteSetTheorems, TLAPS

-----------------------------------------------------------------------------
(***************************************************************************)
(* The accounts.                                                           *)
(***************************************************************************)

Busy == {"count", "incr", "commit"}

Acting == {"version", "admitted", "compare", "load", "issue", "store"}

Seniors == {"owner", "admin"}

\* What is known of a request that is in no transaction.
Fits(l) ==
  /\ l.pc \notin Busy
  /\ l.pc \in Acting => l.actor \in Accounts
  /\ l.dead => /\ l.pc \in {"version", "compare"}
               /\ l.version < version[l.actor]

Outside(r) == request[r].pc \notin Busy => Fits(request[r])

\* A change is the actor's to make, unless it only ends sessions.
Permitted(role, old, new) ==
  \/ new = old
  \/ /\ canManageMerchantRole(role, old.role)
     /\ canManageMerchantRole(role, new.role)

\* What is known of a request in a transaction.
Inside(r) ==
  request[r].pc \in Busy =>
    /\ request[r].target \in Accounts
    /\ lock[request[r].target] = r
    /\ account[request[r].target] \in Rows
    /\ request[r].wanted \in Rows
    /\ ~request[r].dead
    /\ Permitted(request[r].role, account[request[r].target],
                 request[r].wanted)

Removes(r) ==
  /\ EnabledOwner(account[request[r].target])
  /\ ~EnabledOwner(request[r].wanted)

\* A transaction that takes an owner away has locked another one.
Spares(r) ==
  request[r].pc \in {"incr", "commit"} /\ Removes(r) =>
    \E b \in Accounts :
      b # request[r].target /\ EnabledOwner(account[b]) /\ lock[b] = r

\* Versions count the changes, each once.
Counts(r) ==
  /\ request[r].pc \in {"count", "incr"} =>
       /\ request[r].old <= version[request[r].target]
       /\ version[request[r].target] < changes
  /\ request[r].pc = "commit" => request[r].old < version[request[r].target]

Counted ==
  \A a \in Accounts : version[a] <= changes /\ revoked[a] <= version[a]

IInv ==
  /\ TypeOK
  /\ Counted
  /\ OwnerRemains
  /\ \A r \in Requests : Outside(r) /\ Inside(r) /\ Spares(r) /\ Counts(r)

-----------------------------------------------------------------------------
(***************************************************************************)
(* What the steps come down to.                                            *)
(***************************************************************************)

\* A step of a request that touches no row and no version.
Quiet(r, l) ==
  /\ request[r].pc \notin Busy
  /\ Fits(l)
  /\ request' = [request EXCEPT ![r] = l]
  /\ refresh' \subseteq Tokens
  /\ UNCHANGED <<rows, version>>

\* A transaction begins.
Begun(r, a, row, pc) ==
  /\ Change(r, a, row, pc)
  /\ Permitted(request[r].role, account[a], row)
  /\ \/ pc = "count"
     \/ pc = "incr" /\ (EnabledOwner(account[a]) => EnabledOwner(row))

\* A request ends and leaves its transaction, if it was in one.
RolledBack(r) ==
  /\ Rollback(r)
  /\ UNCHANGED <<changes, redis>>

\* The row that stands for none is no row.
LEMMA NoAccountIsNoRow == NoAccount \notin Rows
BY StaffAssumption DEF NoAccount, Rows, StaffAssumption, AllRoles

\* Answering leaves a request that is in order.
LEMMA IdleFits == Idle \in Locals /\ Fits(Idle) /\ Idle.pc = "idle"
BY StaffAssumption DEF Idle, Locals, Fits, Busy, Acting, Steps, StaffAssumption

\* A token names an account, and a version within the bound.
LEMMA TokenTyped ==
  ASSUME TypeOK, NEW r \in Requests, request[r].actor \in Accounts
  PROVE  Token(r) \in Tokens
BY DEF TypeOK, Token, Tokens, Locals

\* Whatever is deleted, what remains are tokens.
LEMMA DeleteTyped ==
  ASSUME TypeOK, NEW t, DeleteKey(t)
  PROVE  refresh' \subseteq Tokens
BY DEF TypeOK, DeleteKey

-----------------------------------------------------------------------------
(***************************************************************************)
(* The steps.                                                              *)
(***************************************************************************)

\* A signed token or a refresh token, when it comes, is dead only if a change
\* of its account has counted the version up since.
LEMMA BeginQuiet ==
  ASSUME IInv, NEW r \in Requests, NEW t \in Tokens,
         NEW pc \in {"version", "compare"}, NEW role \in Roles \cup {"none"},
         Begin(r, t, pc, role)
  PROVE  \E l \in Locals : Quiet(r, l)
<1> DEFINE l == [Idle EXCEPT !.pc = pc, !.actor = t.account, !.role = role,
                             !.version = t.version, !.dead = Dead(t)]
<1>1. t.account \in Accounts /\ t.version \in 0..MaxChanges
  BY DEF Tokens
<1>2. Dead(t) \in BOOLEAN /\ (Dead(t) => t.version < version[t.account])
  BY <1>1, StaffAssumption DEF Dead, IInv, Counted, TypeOK, StaffAssumption
<1>3. /\ l.pc = pc /\ l.actor = t.account /\ l.role = role
      /\ l.version = t.version /\ l.dead = Dead(t) /\ l \in Locals
  BY <1>1, <1>2, IdleFits DEF Locals, Idle, Steps
<1>4. Fits(l)
  BY <1>1, <1>2, <1>3 DEF Fits, Busy, Acting
<1>5. Quiet(r, l)
  BY <1>4 DEF Begin, Quiet, At, Goto, Busy, IInv, TypeOK, redis
<1> QED
  BY <1>3, <1>5

\* A dead token is found out when its version is looked at.
LEMMA DeadFoundOut ==
  ASSUME IInv, NEW r \in Requests, SameVersion(r),
         request[r].pc \in {"version", "compare"}
  PROVE  ~request[r].dead
BY StaffAssumption DEF IInv, TypeOK, Outside, Fits, Acting, Busy, SameVersion,
  Locals, StaffAssumption

\* Every step of a request without a transaction that changes no row is quiet.
LEMMA QuietSteps ==
  ASSUME IInv, NEW r \in Requests,
         \/ CheckVersion(r) \/ Finish(r) \/ CompareVersion(r)
         \/ loadActiveAccount(r) \/ ReadVersion(r) \/ StoreToken(r)
         \/ \E t \in Tokens : MerchantAuth(r, t) \/ Refresh(r, t) \/ Logout(r, t)
         \/ \E a \in Accounts : Login(r, a)
  PROVE  \E l \in Locals : Quiet(r, l)
<1>1. /\ request[r] \in Locals /\ Outside(r) /\ TypeOK
      /\ refresh \subseteq Tokens
      /\ \A a \in Accounts : version[a] \in 0..MaxChanges
  BY DEF IInv, TypeOK
<1>a. ASSUME request[r].pc \notin Busy, Answer(r), UNCHANGED <<rows, version>>,
             refresh' \subseteq Tokens
      PROVE  Quiet(r, Idle)
  BY <1>a, IdleFits DEF Quiet, Answer, Goto
<1>b. ASSUME NEW pc \in {"load", "admitted"}, request[r].pc \in Acting,
             ~request[r].dead
      PROVE  [request[r] EXCEPT !.pc = pc] \in Locals /\
             Fits([request[r] EXCEPT !.pc = pc])
  BY <1>1, <1>b DEF Locals, Steps, Fits, Outside, Acting, Busy
<1>2. CASE CheckVersion(r)
  <2>1. CASE SameVersion(r)
    <3> DEFINE l == [request[r] EXCEPT !.pc = "admitted", !.version = 0]
    <3>1. ~request[r].dead
      BY <1>2, <2>1, DeadFoundOut DEF CheckVersion, At
    <3>2. request[r].pc = "version" /\ request[r].actor \in Accounts
      BY <1>1, <1>2 DEF CheckVersion, At, Outside, Fits, Acting, Busy
    <3>3. 0 \in 0..MaxChanges
      BY StaffAssumption DEF StaffAssumption
    <3>4. l \in Locals
      BY <1>1, <3>3 DEF Locals, Steps
    <3>5. l.pc = "admitted" /\ l.actor = request[r].actor /\ ~l.dead
      BY <1>1, <3>1 DEF Locals
    <3>6. Fits(l)
      BY <3>2, <3>5 DEF Fits, Busy
    <3>7. Quiet(r, l)
      BY <1>1, <1>2, <2>1, <3>6 DEF CheckVersion, Quiet, At, Goto, Busy, redis
    <3> QED
      BY <3>4, <3>7
  <2>2. CASE ~SameVersion(r)
    BY <1>1, <1>2, <1>a, <2>2, IdleFits DEF CheckVersion, At, Busy, redis
  <2> QED
    BY <2>1, <2>2
<1>3. CASE Finish(r)
  BY <1>1, <1>3, <1>a, IdleFits DEF Finish, At, Busy, redis
<1>4. CASE CompareVersion(r)
  <2>1. CASE SameVersion(r) /\ Step(r, "load") /\ UNCHANGED refresh
    <3> DEFINE l == [request[r] EXCEPT !.pc = "load"]
    <3>1. l \in Locals /\ Fits(l)
      BY <1>4, <1>b, <2>1, DeadFoundOut DEF CompareVersion, At, Acting
    <3>2. Quiet(r, l)
      BY <1>1, <1>4, <2>1, <3>1 DEF CompareVersion, Quiet, At, Step, Goto, Busy
    <3> QED
      BY <3>1, <3>2
  <2>2. CASE DeleteKey(Token(r)) /\ Answer(r)
    BY <1>1, <1>4, <1>a, <2>2, DeleteTyped, IdleFits DEF CompareVersion, At, Busy
  <2> QED
    BY <1>4, <2>1, <2>2 DEF CompareVersion
<1>5. CASE loadActiveAccount(r)
  <2>1. CASE Usable(request[r].actor)
    <3> DEFINE l == [Idle EXCEPT !.pc = "issue", !.actor = request[r].actor]
    <3>1. request[r].actor \in Accounts
      BY <1>1, <1>5 DEF loadActiveAccount, At, Outside, Fits, Acting, Busy
    <3>2. l \in Locals /\ Fits(l)
      BY <3>1, IdleFits DEF Locals, Idle, Steps, Fits, Acting, Busy
    <3>3. refresh' \subseteq Tokens
      BY <1>1, <1>5, <2>1, DeleteTyped DEF loadActiveAccount
    <3>4. Quiet(r, l)
      BY <1>5, <2>1, <3>2, <3>3 DEF loadActiveAccount, Quiet, At, Goto, Busy
    <3> QED
      BY <3>2, <3>4
  <2>2. CASE ~Usable(request[r].actor)
    BY <1>1, <1>5, <1>a, <2>2, IdleFits DEF loadActiveAccount, At, Busy
  <2> QED
    BY <2>1, <2>2
<1>6. CASE ReadVersion(r)
  <2> DEFINE l == [request[r] EXCEPT !.pc = "store",
                                     !.version = version[request[r].actor]]
  <2>1. request[r].actor \in Accounts /\ ~request[r].dead
    BY <1>1, <1>6 DEF ReadVersion, At, Outside, Fits, Acting, Busy
  <2>2. l \in Locals /\ Fits(l)
    BY <1>1, <2>1 DEF Locals, Steps, Fits, Acting, Busy
  <2>3. Quiet(r, l)
    BY <1>1, <1>6, <2>2 DEF ReadVersion, Quiet, At, Goto, Busy, redis
  <2> QED
    BY <2>2, <2>3
<1>7. CASE StoreToken(r)
  <2>1. request[r].actor \in Accounts
    BY <1>1, <1>7 DEF StoreToken, At, Outside, Fits, Acting, Busy
  <2>2. refresh' \subseteq Tokens
    BY <1>1, <1>7, <2>1, TokenTyped DEF StoreToken
  <2> QED
    BY <1>7, <1>a, <2>2, IdleFits DEF StoreToken, At, Busy
<1>8. ASSUME NEW t \in Tokens, MerchantAuth(r, t)
      PROVE  \E l \in Locals : Quiet(r, l)
  <2>1. account[t.account].role \in Roles \cup {"none"}
    BY <1>1 DEF TypeOK, Tokens, Rows, NoAccount
  <2> QED
    BY <1>8, <2>1, BeginQuiet DEF MerchantAuth
<1>9. ASSUME NEW t \in Tokens, Refresh(r, t)
      PROVE  \E l \in Locals : Quiet(r, l)
  BY <1>9, BeginQuiet DEF Refresh
<1>10. ASSUME NEW t \in Tokens, Logout(r, t)
       PROVE  \E l \in Locals : Quiet(r, l)
  BY <1>1, <1>10, <1>a, DeleteTyped, IdleFits DEF Logout, At, Busy
<1>11. ASSUME NEW a \in Accounts, Login(r, a)
       PROVE  \E l \in Locals : Quiet(r, l)
  <2> DEFINE l == [Idle EXCEPT !.pc = "issue", !.actor = a]
  <2>1. l \in Locals /\ Fits(l)
    BY IdleFits DEF Locals, Idle, Steps, Fits, Acting, Busy
  <2>2. Quiet(r, l)
    BY <1>1, <1>11, <2>1 DEF Login, Quiet, At, Goto, Busy, redis
  <2> QED
    BY <2>1, <2>2
<1> QED
  BY <1>2, <1>3, <1>4, <1>5, <1>6, <1>7, <1>8, <1>9, <1>10, <1>11

\* A refused, aborted or failed transaction is rolled back.
LEMMA RollbackSteps ==
  ASSUME NEW r \in Requests, LastOwner(r) \/ DeadlockVictim(r) \/ Fail(r)
  PROVE  RolledBack(r)
BY DEF LastOwner, DeadlockVictim, Fail, RolledBack, redis

\* What the checks before a change have found out.
LEMMA BeginSteps ==
  ASSUME IInv, NEW r \in Requests, NEW a \in Accounts,
         \/ ResetPassword(r, a)
         \/ \E row \in Rows : Update(r, a, row)
  PROVE  \E row \in Rows, pc \in {"count", "incr"} : Begun(r, a, row, pc)
<1>1. account[a] \in Rows \cup {NoAccount}
  BY DEF IInv, TypeOK
<1>2. CASE ResetPassword(r, a)
  <2>1. account[a] \in Rows
    BY <1>1, <1>2 DEF ResetPassword, Change, FindForUpdate
  <2>2. Begun(r, a, account[a], "incr")
    BY <1>2 DEF ResetPassword, Begun, Permitted
  <2> QED
    BY <2>1, <2>2
<1>3. ASSUME NEW row \in Rows, Update(r, a, row)
      PROVE  \E pc \in {"count", "incr"} : Begun(r, a, row, pc)
  <2> DEFINE pc == IF TakesOwnerAway(a, row) THEN "count" ELSE "incr"
  <2>1. Begun(r, a, row, pc)
    BY <1>3 DEF Update, Begun, Permitted, TakesOwnerAway, EnabledOwner
  <2> QED
    BY <2>1
<1> QED
  BY <1>2, <1>3

\* Every step is one of seven.
LEMMA StepsSorted ==
  ASSUME IInv, Next
  PROVE  \/ \E t \in Tokens : Expire(t)
         \/ \E r \in Requests :
              \/ \E l \in Locals : Quiet(r, l)
              \/ \E a \in Accounts, row \in Rows : Create(r, a, row)
              \/ \E a \in Accounts, row \in Rows, pc \in {"count", "incr"} :
                   Begun(r, a, row, pc)
              \/ CountEnabledOwnersForUpdate(r)
              \/ Incr(r)
              \/ Commit(r)
              \/ RolledBack(r)
<1>1. ASSUME NEW r \in Requests,
             \/ CheckVersion(r) \/ Finish(r) \/ CompareVersion(r)
             \/ loadActiveAccount(r) \/ ReadVersion(r) \/ StoreToken(r)
             \/ \E t \in Tokens :
                  MerchantAuth(r, t) \/ Refresh(r, t) \/ Logout(r, t)
             \/ \E a \in Accounts : Login(r, a)
      PROVE  \E l \in Locals : Quiet(r, l)
  BY <1>1, QuietSteps
<1>2. ASSUME NEW r \in Requests, LastOwner(r) \/ DeadlockVictim(r) \/ Fail(r)
      PROVE  RolledBack(r)
  BY <1>2, RollbackSteps
<1>3. ASSUME NEW r \in Requests, NEW a \in Accounts,
             ResetPassword(r, a) \/ \E row \in Rows : Update(r, a, row)
      PROVE  \E row \in Rows, pc \in {"count", "incr"} : Begun(r, a, row, pc)
  BY <1>3, BeginSteps
<1> QED
  BY <1>1, <1>2, <1>3, ZenonT(60) DEF Next

-----------------------------------------------------------------------------
(***************************************************************************)
(* Each of them keeps the invariant.                                       *)
(***************************************************************************)

\* The invariant begins with the first accounts.
LEMMA InitIInv == Init => IInv
<1> SUFFICES ASSUME Init PROVE IInv
  OBVIOUS
<1>1. TypeOK
  BY StaffAssumption DEF Init, TypeOK, Idle, Locals, Steps, StaffAssumption
<1>2. Counted /\ OwnerRemains
  BY StaffAssumption DEF Init, Counted, OwnerRemains, StaffAssumption
<1>3. ASSUME NEW r \in Requests
      PROVE  Outside(r) /\ Inside(r) /\ Spares(r) /\ Counts(r)
  BY IdleFits DEF Init, Outside, Inside, Spares, Counts, Idle, Busy
<1> QED
  BY <1>1, <1>2, <1>3 DEF IInv

\* A key that expires is one less.
LEMMA ExpireKeeps ==
  ASSUME IInv, NEW t \in Tokens, Expire(t)
  PROVE  IInv'
<1>1. refresh' \subseteq Tokens
  BY DeleteTyped DEF Expire, IInv
<1>2. UNCHANGED <<rows, version, request>>
  BY DEF Expire
<1>3. TypeOK'
  BY <1>1, <1>2 DEF IInv, TypeOK, rows
<1>4. Counted' /\ OwnerRemains'
  BY <1>2 DEF IInv, Counted, OwnerRemains, rows
<1>5. ASSUME NEW q \in Requests
      PROVE  (Outside(q) /\ Inside(q) /\ Spares(q) /\ Counts(q))'
  BY <1>2 DEF IInv, Outside, Fits, Inside, Spares, Removes, Counts, rows
<1> QED
  BY <1>3, <1>4, <1>5 DEF IInv

\* No row is locked by a request without a transaction.
LEMMA NoLockOutside ==
  ASSUME IInv, NEW r \in Requests, request[r].pc \notin Busy, NEW a \in Accounts
  PROVE  lock[a] # r
BY StaffAssumption DEF IInv, TypeOK, Busy, StaffAssumption

\* A quiet step concerns its own request only.
LEMMA QuietKeeps ==
  ASSUME IInv, NEW r \in Requests, NEW l \in Locals, Quiet(r, l)
  PROVE  IInv'
<1>1. /\ UNCHANGED <<account, lock, revoked, changes, version>>
      /\ request[r].pc \notin Busy /\ Fits(l) /\ l.pc \notin Busy
  BY DEF Quiet, rows, Fits
<1>2. request' \in [Requests -> Locals]
  BY DEF Quiet, IInv, TypeOK
<1>3. request'[r] = l /\ \A q \in Requests \ {r} : request'[q] = request[q]
  BY DEF Quiet, IInv, TypeOK
<1>4. TypeOK'
  <2>1. ASSUME NEW a \in Accounts, lock'[a] # Nobody
        PROVE  request'[lock'[a]].pc \in {"count", "incr", "commit"}
    BY <1>1, <1>3, <2>1, NoLockOutside DEF IInv, TypeOK
  <2> QED
    BY <1>1, <1>2, <2>1 DEF IInv, TypeOK, Quiet
<1>5. Counted' /\ OwnerRemains'
  BY <1>1 DEF IInv, Counted, OwnerRemains
<1>6. ASSUME NEW q \in Requests
      PROVE  (Outside(q) /\ Inside(q) /\ Spares(q) /\ Counts(q))'
  <2>1. CASE q = r
    BY <1>1, <1>3, <2>1
    DEF Outside, Fits, Inside, Spares, Counts, Busy
  <2>2. CASE q # r
    BY <1>1, <1>3, <2>2
    DEF IInv, Outside, Fits, Inside, Spares, Removes, Counts
  <2> QED
    BY <2>1, <2>2
<1> QED
  BY <1>4, <1>5, <1>6 DEF IInv

\* Who creates an account changes nobody's row: it was not there before.
LEMMA CreateKeeps ==
  ASSUME IInv, NEW r \in Requests, NEW a \in Accounts, NEW row \in Rows,
         Create(r, a, row)
  PROVE  IInv'
<1>1. /\ UNCHANGED <<lock, revoked, changes, version, refresh>>
      /\ request[r].pc \notin Busy
      /\ account[a] = NoAccount
      /\ account' = [account EXCEPT ![a] = row]
      /\ request' = [request EXCEPT ![r] = Idle]
  BY DEF Create, redis, At, Busy, UsernameExists, Answer, Goto
<1>2. /\ request'[r] = Idle
      /\ \A q \in Requests \ {r} : request'[q] = request[q]
      /\ \A b \in Accounts \ {a} : account'[b] = account[b]
      /\ account'[a] = row
  BY <1>1 DEF IInv, TypeOK
<1>3. ~EnabledOwner(account[a])
  BY <1>1 DEF EnabledOwner, NoAccount
<1>4. TypeOK'
  <2>1. ASSUME NEW b \in Accounts, lock'[b] # Nobody
        PROVE  request'[lock'[b]].pc \in {"count", "incr", "commit"}
    BY <1>1, <1>2, <2>1, NoLockOutside DEF IInv, TypeOK
  <2>2. /\ account' \in [Accounts -> Rows \cup {NoAccount}]
        /\ request' \in [Requests -> Locals]
    BY <1>1, IdleFits DEF IInv, TypeOK
  <2> QED
    BY <1>1, <2>1, <2>2 DEF IInv, TypeOK
<1>5. Counted'
  BY <1>1 DEF IInv, Counted
<1>6. OwnerRemains'
  BY <1>2, <1>3 DEF IInv, OwnerRemains
<1>7. ASSUME NEW q \in Requests
      PROVE  (Outside(q) /\ Inside(q) /\ Spares(q) /\ Counts(q))'
  <2>1. CASE q = r
    BY <1>2, <2>1, IdleFits, <1>1
    DEF Outside, Fits, Inside, Spares, Counts, Busy, Idle
  <2>2. CASE q # r
    <3>1. request'[q] = request[q] /\ Outside(q) /\ Inside(q) /\ Spares(q)
      BY <1>2, <2>2 DEF IInv
    <3>2. request[q].pc \in Busy =>
            /\ request[q].target # a
            /\ account'[request[q].target] = account[request[q].target]
      BY <1>1, <1>2, <3>1, NoAccountIsNoRow DEF Inside
    <3>3. Outside(q)' /\ Inside(q)'
      BY <1>1, <3>1, <3>2 DEF Outside, Fits, Inside
    <3>4. Spares(q)'
      BY <1>1, <1>2, <1>3, <3>1, <3>2 DEF Spares, Removes, Busy
    <3>5. Counts(q)'
      BY <1>1, <3>1 DEF IInv, Counts
    <3> QED
      BY <3>3, <3>4, <3>5
  <2> QED
    BY <2>1, <2>2
<1> QED
  BY <1>4, <1>5, <1>6, <1>7 DEF IInv

\* Who leaves a transaction unlocks rows that no other transaction counts on.
LEMMA RolledBackKeeps ==
  ASSUME IInv, NEW r \in Requests, RolledBack(r)
  PROVE  IInv'
<1>1. /\ UNCHANGED <<account, revoked, changes, version, refresh>>
      /\ lock' = Unlocked(r)
      /\ request' = [request EXCEPT ![r] = Idle]
  BY DEF RolledBack, Rollback, redis, Answer, Goto
<1>2. /\ request'[r] = Idle
      /\ \A q \in Requests \ {r} : request'[q] = request[q]
      /\ \A a \in Accounts : lock'[a] = IF lock[a] = r THEN Nobody ELSE lock[a]
  BY <1>1 DEF IInv, TypeOK, Unlocked
<1>4. TypeOK'
  <2>1. ASSUME NEW a \in Accounts, lock'[a] # Nobody
        PROVE  request'[lock'[a]].pc \in {"count", "incr", "commit"}
    BY <1>2, <2>1 DEF IInv, TypeOK
  <2>2. /\ lock' \in [Accounts -> Requests \cup {Nobody}]
        /\ request' \in [Requests -> Locals]
    BY <1>1, IdleFits DEF IInv, TypeOK, Unlocked
  <2> QED
    BY <1>1, <2>1, <2>2 DEF IInv, TypeOK
<1>5. Counted' /\ OwnerRemains'
  BY <1>1 DEF IInv, Counted, OwnerRemains
<1>7. ASSUME NEW q \in Requests
      PROVE  (Outside(q) /\ Inside(q) /\ Spares(q) /\ Counts(q))'
  <2>1. CASE q = r
    BY <1>2, <2>1, IdleFits
    DEF Outside, Fits, Inside, Spares, Counts, Busy, Idle
  <2>2. CASE q # r
    <3>1. request'[q] = request[q]
      BY <1>2, <2>2
    <3>2. \A a \in Accounts : lock[a] = q => lock'[a] = q
      BY <1>2, <2>2
    <3> QED
      BY <1>1, <3>1, <3>2
      DEF IInv, Outside, Fits, Inside, Spares, Removes, Counts
  <2> QED
    BY <2>1, <2>2
<1> QED
  BY <1>4, <1>5, <1>7 DEF IInv

\* A transaction begins with a row that no other one has locked, and with a
\* change that has not been counted yet.
LEMMA BegunKeeps ==
  ASSUME IInv, NEW r \in Requests, NEW a \in Accounts, NEW row \in Rows,
         NEW pc \in {"count", "incr"}, Begun(r, a, row, pc)
  PROVE  IInv'
<1> DEFINE l == [Idle EXCEPT !.pc = pc, !.role = request[r].role, !.target = a,
                             !.wanted = row, !.old = version[a]]
<1>1. /\ UNCHANGED <<account, revoked, version, refresh>>
      /\ request[r].pc \notin Busy
      /\ request' = [request EXCEPT ![r] = l]
      /\ changes < MaxChanges /\ changes' = changes + 1
      /\ account[a] # NoAccount
      /\ lock[a] \in {r, Nobody}
      /\ lock' = [b \in Accounts |-> IF b \in {a} THEN r ELSE lock[b]]
      /\ Permitted(request[r].role, account[a], row)
      /\ pc = "incr" => (EnabledOwner(account[a]) => EnabledOwner(row))
  BY DEF Begun, Change, At, Busy, Goto, redis, FindForUpdate, LockRows, Free
<1>2. /\ request'[r] = l
      /\ \A q \in Requests \ {r} : request'[q] = request[q]
      /\ lock'[a] = r
      /\ \A b \in Accounts \ {a} : lock'[b] = lock[b]
      /\ account[a] \in Rows
  BY <1>1 DEF IInv, TypeOK
<1>3. /\ l.pc = pc /\ l.role = request[r].role /\ l.target = a
      /\ l.wanted = row /\ l.old = version[a] /\ ~l.dead /\ l \in Locals
  BY IdleFits DEF IInv, TypeOK, Locals, Idle, Steps
<1>4. TypeOK'
  <2>1. ASSUME NEW b \in Accounts, lock'[b] # Nobody
        PROVE  request'[lock'[b]].pc \in {"count", "incr", "commit"}
    <3>1. CASE b = a
      BY <1>2, <1>3, <3>1
    <3>2. CASE b # a
      BY <1>1, <1>2, <2>1, <3>2, NoLockOutside DEF IInv, TypeOK
    <3> QED
      BY <3>1, <3>2
  <2>2. /\ lock' \in [Accounts -> Requests \cup {Nobody}]
        /\ request' \in [Requests -> Locals]
        /\ changes' \in 0..MaxChanges
    BY <1>1, <1>3, StaffAssumption DEF IInv, TypeOK, StaffAssumption
  <2> QED
    BY <1>1, <2>1, <2>2 DEF IInv, TypeOK
<1>5. Counted' /\ OwnerRemains'
  BY <1>1, StaffAssumption
  DEF IInv, Counted, OwnerRemains, TypeOK, StaffAssumption
<1>6. version[a] <= changes /\ changes \in Nat /\ version[a] \in Nat
  BY DEF IInv, Counted, TypeOK
<1>7. ASSUME NEW q \in Requests
      PROVE  (Outside(q) /\ Inside(q) /\ Spares(q) /\ Counts(q))'
  <2>1. CASE q = r
    <3>1. Outside(r)' /\ Inside(r)'
      BY <1>1, <1>2, <1>3 DEF Outside, Inside, Busy
    <3>2. Spares(r)'
      BY <1>1, <1>2, <1>3 DEF Spares, Removes
    <3>3. Counts(r)'
      <4>1. /\ request'[r].old = version'[a] /\ request'[r].target = a
            /\ request'[r].pc # "commit"
        BY <1>1, <1>2, <1>3
      <4>2. version'[a] <= version'[a] /\ version'[a] < changes'
        BY <1>1, <1>6
      <4> QED
        BY <4>1, <4>2 DEF Counts
    <3> QED
      BY <2>1, <3>1, <3>2, <3>3
  <2>2. CASE q # r
    <3>1. request'[q] = request[q] /\ Outside(q) /\ Inside(q) /\ Spares(q)
      BY <1>2, <2>2 DEF IInv
    <3>2. \A b \in Accounts : lock[b] = q => lock'[b] = q
      BY <1>1, <1>2, <2>2, StaffAssumption DEF StaffAssumption
    <3>3. Outside(q)' /\ Inside(q)'
      BY <1>1, <3>1, <3>2 DEF Outside, Fits, Inside
    <3>4. Spares(q)'
      BY <1>1, <3>1, <3>2 DEF Spares, Removes
    <3>5. Counts(q)'
      <4>1. request[q].pc \in Busy => version[request[q].target] \in Int
        BY <3>1 DEF Inside, IInv, TypeOK
      <4> QED
        BY <1>1, <1>6, <3>1, <4>1 DEF IInv, Counts, Busy
    <3> QED
      BY <3>3, <3>4, <3>5
  <2> QED
    BY <2>1, <2>2
<1> QED
  BY <1>4, <1>5, <1>7 DEF IInv

\* Where there are two enabled owners, there is another one.
LEMMA AnotherOwner ==
  ASSUME NEW a \in Accounts, Cardinality(EnabledOwners) > 1
  PROVE  \E b \in Accounts : b # a /\ EnabledOwner(account[b])
<1> SUFFICES ASSUME \A b \in Accounts : EnabledOwner(account[b]) => b = a
             PROVE  FALSE
  OBVIOUS
<1>1. IsFiniteSet({a}) /\ Cardinality({a}) = 1
  BY FS_Singleton
<1>2. EnabledOwners \subseteq {a}
  BY DEF EnabledOwners
<1>3. Cardinality(EnabledOwners) <= 1 /\ IsFiniteSet(EnabledOwners)
  BY <1>1, <1>2, FS_Subset
<1>4. Cardinality(EnabledOwners) \in Nat
  BY <1>3, FS_CardinalityType
<1> QED
  BY <1>3, <1>4

\* Counting the owners locks one that the change does not take away.
LEMMA CountKeeps ==
  ASSUME IInv, NEW r \in Requests, CountEnabledOwnersForUpdate(r)
  PROVE  IInv'
<1> DEFINE l == [request[r] EXCEPT !.pc = "incr"]
<1>1. /\ UNCHANGED <<account, revoked, changes, version, refresh>>
      /\ request[r].pc = "count"
      /\ request' = [request EXCEPT ![r] = l]
      /\ \A a \in OwnersToLock : lock[a] \in {r, Nobody}
      /\ lock' = [a \in Accounts |-> IF a \in OwnersToLock THEN r ELSE lock[a]]
      /\ account[request[r].target].enabled => Cardinality(EnabledOwners) > 1
  BY DEF CountEnabledOwnersForUpdate, At, Step, Goto, redis, LockRows, Free
<1>2. /\ request'[r] = l
      /\ \A q \in Requests \ {r} : request'[q] = request[q]
      /\ \A a \in Accounts : a \in OwnersToLock => lock'[a] = r
      /\ \A a \in Accounts : a \notin OwnersToLock => lock'[a] = lock[a]
  BY <1>1 DEF IInv, TypeOK
<1>3. /\ l \in Locals /\ l.pc = "incr" /\ l.role = request[r].role
      /\ l.target = request[r].target /\ l.wanted = request[r].wanted
      /\ l.old = request[r].old /\ l.dead = request[r].dead
  BY DEF IInv, TypeOK, Locals, Steps
<1>4. TypeOK'
  <2>1. ASSUME NEW a \in Accounts, lock'[a] # Nobody
        PROVE  request'[lock'[a]].pc \in {"count", "incr", "commit"}
    <3>1. CASE lock'[a] = r
      BY <1>2, <1>3, <3>1
    <3>2. CASE lock'[a] # r
      BY <1>2, <2>1, <3>2 DEF IInv, TypeOK
    <3> QED
      BY <3>1, <3>2
  <2>2. /\ lock' \in [Accounts -> Requests \cup {Nobody}]
        /\ request' \in [Requests -> Locals]
    BY <1>1, <1>3 DEF IInv, TypeOK
  <2> QED
    BY <1>1, <2>1, <2>2 DEF IInv, TypeOK
<1>5. Counted' /\ OwnerRemains'
  BY <1>1 DEF IInv, Counted, OwnerRemains
<1>6. \A q \in Requests, a \in Accounts : lock[a] = q => lock'[a] = q
  BY <1>1, <1>2, StaffAssumption DEF StaffAssumption
<1>7. ASSUME NEW q \in Requests
      PROVE  (Outside(q) /\ Inside(q) /\ Spares(q) /\ Counts(q))'
  <2>1. CASE q = r
    <3>1. Inside(r) /\ Counts(r) /\ request[r].target \in Accounts
      BY <1>1 DEF IInv, Inside, Busy
    <3>2. Outside(r)' /\ Inside(r)' /\ Counts(r)'
      BY <1>1, <1>2, <1>3, <1>6, <3>1 DEF Outside, Inside, Counts, Busy
    <3>3. Spares(r)'
      <4> SUFFICES ASSUME Removes(r)'
                   PROVE  \E b \in Accounts :
                            /\ b # request[r].target
                            /\ EnabledOwner(account[b])
                            /\ lock'[b] = r
        BY <1>1, <1>2, <1>3 DEF Spares
      <4>1. account[request[r].target].enabled
        BY <1>1, <1>2, <1>3 DEF Removes, EnabledOwner
      <4>2. PICK b \in Accounts :
              b # request[r].target /\ EnabledOwner(account[b])
        BY <1>1, <3>1, <4>1, AnotherOwner
      <4> QED
        BY <1>2, <4>2 DEF OwnersToLock
    <3> QED
      BY <2>1, <3>2, <3>3
  <2>2. CASE q # r
    BY <1>1, <1>2, <1>6, <2>2
    DEF IInv, Outside, Fits, Inside, Spares, Removes, Counts
  <2> QED
    BY <2>1, <2>2
<1> QED
  BY <1>4, <1>5, <1>7 DEF IInv

\* No two transactions change the same row.
LEMMA OwnTarget ==
  ASSUME IInv, NEW r \in Requests, NEW q \in Requests, q # r,
         request[r].pc \in Busy, request[q].pc \in Busy
  PROVE  request[q].target # request[r].target
BY DEF IInv, Inside

\* The version is counted up once for a change that has been counted.
LEMMA IncrKeeps ==
  ASSUME IInv, NEW r \in Requests, Incr(r)
  PROVE  IInv'
<1> DEFINE l == [request[r] EXCEPT !.pc = "commit"]
           t == request[r].target
<1>1. /\ UNCHANGED <<account, lock, revoked, changes, refresh>>
      /\ request[r].pc = "incr"
      /\ request' = [request EXCEPT ![r] = l]
      /\ version' = [version EXCEPT ![t] = version[t] + 1]
  BY DEF Incr, At, Step, Goto, rows, NextVersion
<1>2. Inside(r) /\ Spares(r) /\ Counts(r) /\ t \in Accounts /\ lock[t] = r
  BY <1>1 DEF IInv, Inside, Busy
<1>3. /\ l \in Locals /\ l.pc = "commit" /\ l.role = request[r].role
      /\ l.target = t /\ l.wanted = request[r].wanted
      /\ l.old = request[r].old /\ l.dead = request[r].dead
  BY DEF IInv, TypeOK, Locals, Steps
<1>4. /\ request'[r] = l
      /\ \A q \in Requests \ {r} : request'[q] = request[q]
      /\ version'[t] = version[t] + 1
      /\ \A a \in Accounts \ {t} : version'[a] = version[a]
  BY <1>1, <1>2 DEF IInv, TypeOK
<1>5. /\ changes \in Nat /\ MaxChanges \in Nat /\ changes <= MaxChanges
      /\ \A a \in Accounts : /\ version[a] \in Nat
                             /\ revoked[a] \in Nat
                             /\ version[a] <= changes /\ revoked[a] <= version[a]
      /\ version[t] < changes
      /\ request[r].old <= version[t] /\ request[r].old \in Nat
  BY <1>1, <1>2, StaffAssumption
  DEF IInv, Counted, TypeOK, Counts, Locals, StaffAssumption
<1>6. \A a \in Accounts : /\ version'[a] \in Nat /\ version[a] <= version'[a]
                          /\ version'[a] <= changes
  <2> TAKE a \in Accounts
  <2>1. CASE a = t
    BY <1>4, <1>5, <2>1
  <2>2. CASE a # t
    BY <1>4, <1>5, <2>2
  <2> QED
    BY <2>1, <2>2
<1>7. TypeOK'
  <2>1. ASSUME NEW a \in Accounts, lock'[a] # Nobody
        PROVE  request'[lock'[a]].pc \in {"count", "incr", "commit"}
    BY <1>1, <1>3, <1>4, <2>1 DEF IInv, TypeOK
  <2>2. version' \in [Accounts -> 0..MaxChanges]
    <3>1. \A a \in Accounts : version'[a] \in 0..MaxChanges
      BY <1>5, <1>6
    <3>2. version' = [a \in Accounts |-> version'[a]]
      BY <1>1 DEF IInv, TypeOK
    <3> QED
      BY <3>1, <3>2
  <2>3. request' \in [Requests -> Locals]
    BY <1>1, <1>3 DEF IInv, TypeOK
  <2> QED
    BY <1>1, <2>1, <2>2, <2>3 DEF IInv, TypeOK
<1>8. Counted'
  <2> SUFFICES ASSUME NEW a \in Accounts
               PROVE  version'[a] <= changes /\ revoked[a] <= version'[a]
    BY <1>1 DEF Counted
  <2> QED
    BY <1>5, <1>6
<1>9. OwnerRemains'
  BY <1>1 DEF IInv, OwnerRemains
<1>10. ASSUME NEW q \in Requests
       PROVE  (Outside(q) /\ Inside(q) /\ Spares(q) /\ Counts(q))'
  <2>1. CASE q = r
    <3>1. Outside(r)' /\ Inside(r)' /\ Spares(r)'
      BY <1>1, <1>2, <1>3, <1>4
      DEF Outside, Inside, Spares, Removes, Busy
    <3>2. Counts(r)'
      <4>1. request'[r].pc = "commit" /\ request'[r].old = request[r].old
            /\ request'[r].target = t
        BY <1>3, <1>4
      <4>2. request[r].old < version'[t]
        BY <1>2, <1>4, <1>5
      <4> QED
        BY <4>1, <4>2 DEF Counts
    <3> QED
      BY <2>1, <3>1, <3>2
  <2>2. CASE q # r
    <3>1. /\ request'[q] = request[q] /\ request[q] \in Locals
          /\ Outside(q) /\ Inside(q) /\ Spares(q) /\ Counts(q)
      BY <1>4, <2>2 DEF IInv, TypeOK
    <3>2. Inside(q)' /\ Spares(q)'
      BY <1>1, <3>1 DEF Inside, Spares, Removes
    <3>3. Counts(q)'
      <4>1. request[q].pc \in Busy =>
              version'[request[q].target] = version[request[q].target]
        BY <1>1, <1>4, <2>2, <3>1, OwnTarget DEF Inside, Busy
      <4> QED
        BY <1>1, <3>1, <4>1 DEF Counts, Busy
    <3>4. Outside(q)'
      <4>1. request[q].dead => request[q].version \in Nat
        BY <3>1 DEF Locals
      <4> SUFFICES ASSUME request[q].pc \notin Busy PROVE Fits(request[q])'
        BY <3>1 DEF Outside
      <4>2. ASSUME request[q].dead
            PROVE  request[q].version < version'[request[q].actor]
        <5>1. /\ request[q].actor \in Accounts
              /\ request[q].version < version[request[q].actor]
          BY <3>1, <4>2 DEF Outside, Fits, Acting
        <5> QED
          BY <1>5, <1>6, <4>1, <4>2, <5>1
      <4> QED
        BY <3>1, <4>2 DEF Outside, Fits
    <3> QED
      BY <3>2, <3>3, <3>4
  <2> QED
    BY <2>1, <2>2
<1> QED
  BY <1>7, <1>8, <1>9, <1>10 DEF IInv

\* A committed change leaves an enabled owner, and takes back the versions that
\* there were before it.
LEMMA CommitKeeps ==
  ASSUME IInv, NEW r \in Requests, Commit(r)
  PROVE  IInv'
<1> DEFINE t == request[r].target
<1>1. /\ UNCHANGED <<changes, version, refresh>>
      /\ request[r].pc = "commit"
      /\ request' = [request EXCEPT ![r] = Idle]
      /\ account' = [account EXCEPT ![t] = request[r].wanted]
      /\ lock' = Unlocked(r)
      /\ revoked' = [revoked EXCEPT ![t] = request[r].old + 1]
  BY DEF Commit, WriteRow, At, Answer, Goto, redis
<1>2. /\ Inside(r) /\ Spares(r) /\ Counts(r) /\ t \in Accounts /\ lock[t] = r
      /\ request[r].wanted \in Rows /\ account[t] \in Rows
  BY <1>1 DEF IInv, Inside, Busy
<1>3. /\ request'[r] = Idle
      /\ \A q \in Requests \ {r} : request'[q] = request[q]
      /\ account'[t] = request[r].wanted
      /\ \A a \in Accounts \ {t} : account'[a] = account[a]
      /\ revoked'[t] = request[r].old + 1
      /\ \A a \in Accounts \ {t} : revoked'[a] = revoked[a]
      /\ \A a \in Accounts : lock'[a] = IF lock[a] = r THEN Nobody ELSE lock[a]
  BY <1>1, <1>2 DEF IInv, TypeOK, Unlocked
<1>4. /\ request[r].old \in Nat /\ version[t] \in 0..MaxChanges
      /\ request[r].old < version[t]
  BY <1>1, <1>2 DEF IInv, TypeOK, Counts, Locals
<1>5. TypeOK'
  <2>1. ASSUME NEW a \in Accounts, lock'[a] # Nobody
        PROVE  request'[lock'[a]].pc \in {"count", "incr", "commit"}
    BY <1>3, <2>1 DEF IInv, TypeOK
  <2>2. request[r].old + 1 \in 0..MaxChanges
    BY <1>4, StaffAssumption DEF StaffAssumption
  <2>3. /\ account' \in [Accounts -> Rows \cup {NoAccount}]
        /\ revoked' \in [Accounts -> 0..MaxChanges]
        /\ lock' \in [Accounts -> Requests \cup {Nobody}]
        /\ request' \in [Requests -> Locals]
    BY <1>1, <1>2, <2>2, IdleFits DEF IInv, TypeOK, Unlocked
  <2> QED
    BY <1>1, <2>1, <2>3 DEF IInv, TypeOK
<1>6. Counted'
  <2> SUFFICES ASSUME NEW a \in Accounts
               PROVE  version[a] <= changes /\ revoked'[a] <= version[a]
    BY <1>1 DEF Counted
  <2>1. CASE a = t
    BY <1>3, <1>4, <2>1 DEF IInv, Counted
  <2>2. CASE a # t
    BY <1>3, <2>2 DEF IInv, Counted
  <2> QED
    BY <2>1, <2>2
<1>7. OwnerRemains'
  <2>1. CASE Removes(r)
    <3>1. PICK b \in Accounts : b # t /\ EnabledOwner(account[b])
      BY <1>1, <1>2, <2>1 DEF Spares
    <3> QED
      BY <1>3, <3>1 DEF OwnerRemains
  <2>2. CASE ~Removes(r)
    <3>1. PICK b \in Accounts : EnabledOwner(account[b])
      BY DEF IInv, OwnerRemains
    <3>2. EnabledOwner(account'[b])
      BY <1>3, <2>2, <3>1 DEF Removes
    <3> QED
      BY <3>2 DEF OwnerRemains
  <2> QED
    BY <2>1, <2>2
<1>8. ASSUME NEW q \in Requests
      PROVE  (Outside(q) /\ Inside(q) /\ Spares(q) /\ Counts(q))'
  <2>1. CASE q = r
    BY <1>1, <1>3, <2>1, IdleFits
    DEF Outside, Fits, Inside, Spares, Counts, Busy, Idle
  <2>2. CASE q # r
    <3>1. /\ request'[q] = request[q]
          /\ Outside(q) /\ Inside(q) /\ Spares(q) /\ Counts(q)
      BY <1>3, <2>2 DEF IInv
    <3>2. \A a \in Accounts :
            lock[a] = q => lock'[a] = q /\ account'[a] = account[a]
      BY <1>2, <1>3, <2>2
    <3>3. Outside(q)' /\ Counts(q)'
      BY <1>1, <3>1 DEF Outside, Fits, Counts
    <3>4. Inside(q)'
      BY <3>1, <3>2 DEF Inside
    <3>5. Spares(q)'
      BY <3>1, <3>2 DEF Inside, Spares, Removes, Busy
    <3> QED
      BY <3>3, <3>4, <3>5
  <2> QED
    BY <2>1, <2>2
<1> QED
  BY <1>5, <1>6, <1>7, <1>8 DEF IInv

-----------------------------------------------------------------------------
(***************************************************************************)
(* Theorems.                                                               *)
(***************************************************************************)

\* Every step keeps the invariant.
LEMMA StepKeeps == IInv /\ [Next]_vars => IInv'
<1> SUFFICES ASSUME IInv, [Next]_vars PROVE IInv'
  OBVIOUS
<1>1. CASE Next
  <2>1. CASE \E t \in Tokens : Expire(t)
    BY <2>1, ExpireKeeps
  <2>2. ASSUME NEW r \in Requests,
               \/ \E l \in Locals : Quiet(r, l)
               \/ CountEnabledOwnersForUpdate(r)
               \/ Incr(r)
               \/ Commit(r)
               \/ RolledBack(r)
        PROVE  IInv'
    BY <2>2, QuietKeeps, CountKeeps, IncrKeeps, CommitKeeps, RolledBackKeeps
  <2>3. ASSUME NEW r \in Requests,
               \E a \in Accounts, row \in Rows : Create(r, a, row)
        PROVE  IInv'
    BY <2>3, CreateKeeps
  <2>4. ASSUME NEW r \in Requests,
               \E a \in Accounts, row \in Rows, pc \in {"count", "incr"} :
                 Begun(r, a, row, pc)
        PROVE  IInv'
    BY <2>4, BegunKeeps
  <2> QED
    BY <1>1, <2>1, <2>2, <2>3, <2>4, StepsSorted, ZenonT(60)
<1>2. CASE UNCHANGED vars
  <2>1. TypeOK' /\ Counted' /\ OwnerRemains'
    BY <1>2 DEF IInv, TypeOK, Counted, OwnerRemains, vars, rows, redis
  <2>2. ASSUME NEW q \in Requests
        PROVE  (Outside(q) /\ Inside(q) /\ Spares(q) /\ Counts(q))'
    BY <1>2 DEF IInv, Outside, Fits, Inside, Spares, Removes, Counts,
                vars, rows, redis
  <2> QED
    BY <2>1, <2>2 DEF IInv
<1> QED
  BY <1>1, <1>2

\* The invariant holds in every state that the staff's requests can reach.
THEOREM Invariance == Spec => []IInv
BY InitIInv, StepKeeps, PTL DEF Spec

\* Accounts, tokens and requests have their types, and only transactions hold
\* locks, however many accounts and requests there are.
THEOREM TypeCorrect == Spec => []TypeOK
<1>1. IInv => TypeOK
  BY DEF IInv
<1> QED
  BY <1>1, Invariance, PTL

\* However many owners are demoted and disabled at once, one stays enabled.
THEOREM OwnerAlwaysRemains == Spec => []OwnerRemains
<1>1. IInv => OwnerRemains
  BY DEF IInv
<1> QED
  BY <1>1, Invariance, PTL

\* No session from before a committed change gets past the version check.
THEOREM DeadRefused == Spec => []OldSessionsRefused
<1>1. IInv => OldSessionsRefused
  BY DEF IInv, Outside, Inside, Fits, OldSessionsRefused
<1> QED
  BY <1>1, Invariance, PTL

\* An owner's or admin's account is changed by an owner's request only.
THEOREM SeniorsProtected == Spec => SeniorsChangedByOwners
<1> DEFINE P == \A a \in Accounts :
                  account'[a] # account[a] /\ {account[a].role, account'[a].role}
                                                \cap {"owner", "admin"} # {}
                    => \E r \in Requests :
                         request'[r] # request[r] /\ request[r].role = "owner"
<1>1. IInv /\ [Next]_vars => P
  <2> SUFFICES ASSUME IInv, [Next]_vars, NEW a \in Accounts,
                      account'[a] # account[a],
                      account[a].role \in {"owner", "admin"} \/
                      account'[a].role \in {"owner", "admin"}
               PROVE  \E r \in Requests :
                        request'[r] # request[r] /\ request[r].role = "owner"
    OBVIOUS
  <2>1. ASSUME NEW r \in Requests, NEW x \in Accounts, NEW row \in Rows,
               Create(r, x, row)
        PROVE  request'[r] # request[r] /\ request[r].role = "owner"
    <3>1. a = x /\ account[a] = NoAccount /\ account'[a] = row
      BY <2>1 DEF Create, UsernameExists, IInv, TypeOK
    <3>2. row.role \in {"owner", "admin"}
      BY <3>1 DEF NoAccount
    <3>3. request[r].role = "owner"
      BY <2>1, <3>2 DEF Create, canManageMerchantRole
    <3>4. request'[r].pc = "idle" /\ request[r].pc = "admitted"
      BY <2>1, IdleFits DEF Create, Answer, Goto, At, IInv, TypeOK
    <3> QED
      BY <3>3, <3>4
  <2>2. ASSUME NEW r \in Requests, Commit(r)
        PROVE  request'[r] # request[r] /\ request[r].role = "owner"
    <3>1. /\ Inside(r) /\ request[r].pc = "commit"
          /\ request'[r] = Idle
          /\ account' = [account EXCEPT ![request[r].target] = request[r].wanted]
      BY <2>2 DEF Commit, WriteRow, At, Answer, Goto, IInv, TypeOK
    <3>2. a = request[r].target /\ account'[a] = request[r].wanted
      BY <3>1 DEF IInv, TypeOK, Inside, Busy
    <3>3. Permitted(request[r].role, account[a], account'[a])
      BY <3>1, <3>2 DEF Inside, Busy
    <3>4. request[r].role = "owner"
      BY <3>3 DEF Permitted, canManageMerchantRole
    <3> QED
      BY <3>1, <3>4, IdleFits
  <2>3. ASSUME \/ \E t \in Tokens : Expire(t)
               \/ \E r \in Requests :
                    \/ \E l \in Locals : Quiet(r, l)
                    \/ \E x \in Accounts, row \in Rows, pc \in {"count", "incr"} :
                         Begun(r, x, row, pc)
                    \/ CountEnabledOwnersForUpdate(r)
                    \/ Incr(r)
                    \/ RolledBack(r)
               \/ UNCHANGED vars
        PROVE  FALSE
    BY <2>3 DEF Expire, Quiet, Begun, Change, CountEnabledOwnersForUpdate, Incr,
      RolledBack, Rollback, vars, rows
  <2> QED
    BY <2>1, <2>2, <2>3, StepsSorted, ZenonT(60)
<1> QED
  BY <1>1, Invariance, PTL DEF Spec, SeniorsChangedByOwners


-----------------------------------------------------------------------------
(***************************************************************************)
(* The shelf: units.                                                       *)
(***************************************************************************)

OnSKU(w, s) ==
  staff[w] # NoRequest /\ staff[w].table = "sku" /\ staff[w].id = s

\* What a request on a SKU is about to write fits the row: it is the only one
\* to insert it, or the only one to hold its lock, and then what it will log is
\* the difference to the stock that the row still has.
WriteFits(w) ==
  staff[w] # NoRequest =>
    /\ staff[w] \in SKUInserts =>
         /\ sku[staff[w].id].row = "absent"
         /\ staff[w].log = staff[w].set.stock
         /\ \A v \in Staff : OnSKU(v, staff[w].id) => v = w
    /\ staff[w] \in SKUUpdates =>
         /\ sku[staff[w].id].row = "live"
         /\ staff[w].log = staff[w].set.stock - sku[staff[w].id].stock
         /\ \A v \in Staff : OnSKU(v, staff[w].id) /\ staff[v].holds => v = w
    /\ staff[w] \in SKUDeletions => sku[staff[w].id].row # "absent"

\* A SKU that is not there has no stock, and no order has units of it.
AbsentUnsold ==
  /\ \A s \in SKUs : sku[s].row = "absent" => sku[s].stock = 0
  /\ \A o \in Orders : order[o] # NoOrder => sku[order[o].sku].row # "absent"

UnitsSound ==
  /\ CatalogueTypeOK
  /\ order \in [Orders -> OrderRows \cup {NoOrder}]
  /\ StockLogged
  /\ AbsentUnsold
  /\ \A w \in Staff : WriteFits(w)

\* What an edit will save has the counters of the row, which it has locked,
\* and keeps what was promised to those who have claimed the coupon.
EditFits(k) ==
  editing[k] # NoEdit =>
    /\ k \in Issued
    /\ editing[k].claimed = coupon[k].claimed
    /\ editing[k].used = coupon[k].used
    /\ coupon[k].claimed <= editing[k].form.total
    /\ coupon[k].claimed > 0 => KeepsPromise(coupon[k].form, editing[k].form)

\* Claims are of coupons, and orders use claims.
ClaimsOfCoupons ==
  \A u \in UserCoupons : userCoupon[u] # NoClaim => userCoupon[u].coupon \in Issued

OrdersUseClaims ==
  \A o \in Orders :
    order[o] # NoOrder /\ order[o].coupon # NoCoupon =>
      userCoupon[order[o].coupon] # NoClaim

CouponsSound ==
  /\ CouponsTypeOK
  /\ \A k \in CouponIds : EditFits(k)
  /\ ClaimsOfCoupons
  /\ CouponsHonoured

ShelfSound ==
  /\ UnitsSound
  /\ CouponsSound
  /\ OrdersUseClaims
  /\ edits \in 0..MaxEdits
-----------------------------------------------------------------------------
(***************************************************************************)
(* Units: what a step leaves alone, and how rows change.                   *)
(***************************************************************************)

\* What is about to be written tells what kind of request it is.
LEMMA Kinds ==
  ASSUME NEW r \in Writes
  PROVE  /\ r.table \in {"category", "product", "sku"} /\ r.log \in Int
         /\ r.table = "category" => r \in CategoryWrites
         /\ r.table = "product" => r \in ProductWrites
         /\ r.table = "sku" =>
              r \in SKUInserts \/ r \in SKUUpdates \/ r \in SKUDeletions
         /\ r.holds <=> r \in SKUUpdates
         /\ r \in SKUInserts =>
              /\ r.table = "sku" /\ ~r.holds /\ r.id \in SKUs /\ r.set.row = "live"
              /\ r.set.stock \in Nat /\ r.set.enabled \in BOOLEAN
         /\ r \in SKUUpdates =>
              /\ r.table = "sku" /\ r.id \in SKUs
              /\ r.set.stock \in Nat /\ r.set.enabled \in BOOLEAN
         /\ r \in SKUDeletions =>
              /\ r.table = "sku" /\ ~r.holds /\ r.id \in SKUs /\ r.set.row = "deleted"
              /\ r.log = 0
<1>1. CASE r \in CategoryWrites
  <2>1. r.table = "category" /\ r.log = 0 /\ r.holds = FALSE
    BY <1>1 DEF CategoryWrites
  <2>2. r \notin SKUInserts /\ r \notin SKUUpdates /\ r \notin SKUDeletions
    BY <2>1 DEF SKUInserts, SKUUpdates, SKUDeletions
  <2> QED
    BY <1>1, <2>1, <2>2
<1>2. CASE r \in ProductWrites
  <2>1. r.table = "product" /\ r.log = 0 /\ r.holds = FALSE
    BY <1>2 DEF ProductWrites
  <2>2. r \notin SKUInserts /\ r \notin SKUUpdates /\ r \notin SKUDeletions
    BY <2>1 DEF SKUInserts, SKUUpdates, SKUDeletions
  <2> QED
    BY <1>2, <2>1, <2>2
<1>3. CASE r \in SKUInserts
  <2>1. Stocks \subseteq Int /\ Stocks \subseteq Nat
    BY CatalogueAssumption DEF CatalogueAssumption
  <2>2. /\ r.table = "sku" /\ r.log \in Int /\ r.holds = FALSE /\ r.id \in SKUs
        /\ r.set.row = "live" /\ r.set.stock \in Nat /\ r.set.enabled \in BOOLEAN
    BY <1>3, <2>1 DEF SKUInserts
  <2>3. r \notin SKUUpdates /\ r \notin SKUDeletions
    BY <2>2 DEF SKUUpdates, SKUDeletions, Deletion
  <2> QED
    BY <1>3, <2>2, <2>3
<1>4. CASE r \in SKUUpdates
  <2>1. Stocks \subseteq Nat
    BY CatalogueAssumption DEF CatalogueAssumption
  <2>2. /\ r.table = "sku" /\ r.log \in Int /\ r.holds = TRUE /\ r.id \in SKUs
        /\ r.set.stock \in Nat /\ r.set.enabled \in BOOLEAN
    BY <1>4, <2>1 DEF SKUUpdates
  <2>3. r \notin SKUInserts /\ r \notin SKUDeletions
    BY <2>2 DEF SKUInserts, SKUDeletions
  <2> QED
    BY <1>4, <2>2, <2>3
<1>5. CASE r \in SKUDeletions
  <2>1. /\ r.table = "sku" /\ r.log = 0 /\ r.holds = FALSE /\ r.id \in SKUs
        /\ r.set.row = "deleted"
    BY <1>5 DEF SKUDeletions, Deletion
  <2>2. r \notin SKUInserts /\ r \notin SKUUpdates
    BY <2>1 DEF SKUInserts, SKUUpdates
  <2> QED
    BY <1>5, <2>1, <2>2
<1> QED
  BY <1>1, <1>2, <1>3, <1>4, <1>5 DEF Writes

\* A SKU is inserted, updated or deleted as the request says.
LEMMA Inserted ==
  ASSUME NEW old \in SKURows,
         NEW set \in [row : {"live"}, enabled : BOOLEAN, stock : Stocks],
         old.row = "absent"
  PROVE  /\ Updated(old, set) \in SKURows /\ Updated(old, set).row = "live"
         /\ Updated(old, set).stock = set.stock /\ Updated(old, set).enabled = set.enabled
<1>1. DOMAIN old = {"row", "enabled", "stock"}
  BY DEF SKURows
<1>2. DOMAIN set = {"row", "enabled", "stock"}
  OBVIOUS
<1>3. set.stock \in Nat
  BY CatalogueAssumption DEF CatalogueAssumption
<1> QED
  BY <1>1, <1>2, <1>3 DEF Updated, SKURows, RowStates

\* An update of a SKU sets what is sold and the stock, and keeps the row.
LEMMA Changed ==
  ASSUME NEW old \in SKURows, NEW set \in [enabled : BOOLEAN, stock : Stocks],
         old.row # "deleted"
  PROVE  /\ Updated(old, set) \in SKURows /\ Updated(old, set).row = old.row
         /\ Updated(old, set).stock = set.stock /\ Updated(old, set).enabled = set.enabled
<1>1. DOMAIN old = {"row", "enabled", "stock"}
  BY DEF SKURows
<1>2. DOMAIN set = {"enabled", "stock"}
  OBVIOUS
<1>3. set.stock \in Nat
  BY CatalogueAssumption DEF CatalogueAssumption
<1> QED
  BY <1>1, <1>2, <1>3 DEF Updated, SKURows

\* A deletion marks a SKU's row and keeps its stock.
LEMMA Removed ==
  ASSUME NEW old \in SKURows, NEW set \in Deletion, old.row # "absent"
  PROVE  /\ Updated(old, set) \in SKURows /\ Updated(old, set).row = "deleted"
         /\ Updated(old, set).stock = old.stock /\ Updated(old, set).enabled = old.enabled
<1>1. DOMAIN old = {"row", "enabled", "stock"}
  BY DEF SKURows
<1>2. DOMAIN set = {"row"} /\ set.row = "deleted"
  BY DEF Deletion
<1> QED
  BY <1>1, <1>2 DEF Updated, SKURows, RowStates

\* Categories and products stay what their tables hold.
LEMMA CategoryUpdated ==
  ASSUME NEW old \in CategoryRows, NEW r \in CategoryWrites
  PROVE  Updated(old, r.set) \in CategoryRows
<1>1. DOMAIN old = {"row", "parent", "enabled"}
  BY DEF CategoryRows
<1>2. CASE r.set \in [row : {"live"}, parent : Categories \cup {Root}, enabled : BOOLEAN]
  <2>1. DOMAIN r.set = {"row", "parent", "enabled"}
    BY <1>2
  <2> QED
    BY <1>1, <1>2, <2>1 DEF Updated, CategoryRows, RowStates
<1>3. CASE r.set \in [parent : Categories \cup {Root}, enabled : BOOLEAN]
  <2>1. DOMAIN r.set = {"parent", "enabled"}
    BY <1>3
  <2> QED
    BY <1>1, <1>3, <2>1 DEF Updated, CategoryRows
<1>4. CASE r.set \in Deletion
  <2>1. DOMAIN r.set = {"row"}
    BY <1>4 DEF Deletion
  <2> QED
    BY <1>1, <1>4, <2>1 DEF Updated, CategoryRows, RowStates, Deletion
<1> QED
  BY <1>2, <1>3, <1>4 DEF CategoryWrites

\* What a request writes to a product is a product.
LEMMA ProductUpdated ==
  ASSUME NEW old \in ProductRows, NEW r \in ProductWrites
  PROVE  Updated(old, r.set) \in ProductRows
<1>1. DOMAIN old = {"row", "category", "status"}
  BY DEF ProductRows
<1>2. CASE r.set \in [row : {"live"}, category : Categories, status : ProductStates]
  <2>1. DOMAIN r.set = {"row", "category", "status"}
    BY <1>2
  <2> QED
    BY <1>1, <1>2, <2>1 DEF Updated, ProductRows, RowStates
<1>3. CASE r.set \in [category : Categories, status : ProductStates]
  <2>1. DOMAIN r.set = {"category", "status"}
    BY <1>3
  <2> QED
    BY <1>1, <1>3, <2>1 DEF Updated, ProductRows
<1>4. CASE r.set \in [status : ProductStates]
  <2>1. DOMAIN r.set = {"status"}
    BY <1>4
  <2> QED
    BY <1>1, <1>4, <2>1 DEF Updated, ProductRows
<1>5. CASE r.set \in Deletion
  <2>1. DOMAIN r.set = {"row"}
    BY <1>5 DEF Deletion
  <2> QED
    BY <1>1, <1>5, <2>1 DEF Updated, ProductRows, RowStates, Deletion
<1> QED
  BY <1>2, <1>3, <1>4, <1>5 DEF ProductWrites

\* The requests that are under way, as the invariant has them.
LEMMA UnderWay ==
  ASSUME UnitsSound, NEW w \in Staff, staff[w] # NoRequest
  PROVE  staff[w] \in Writes /\ WriteFits(w)
BY DEF UnitsSound, CatalogueTypeOK

\* A step about no unit.
LEMMA UnitsStay ==
  ASSUME UnitsSound, UNCHANGED <<catalogue, order>>
  PROVE  UnitsSound'
BY DEF UnitsSound, catalogue, tables, CatalogueTypeOK, StockLogged, AbsentUnsold,
       WriteFits, OnSKU

\* A request on a SKU that fits what it has read goes under way.
LEMMA Started ==
  ASSUME UnitsSound, NEW w \in Staff, NEW r \in Writes,
         staff[w] = NoRequest, staff' = [staff EXCEPT ![w] = r],
         UNCHANGED <<tables, overtaken>>, UNCHANGED order,
         r \in SKUInserts =>
           sku[r.id].row = "absent" /\ r.log = r.set.stock /\ Unused("sku", r.id),
         r \in SKUUpdates =>
           /\ sku[r.id].row = "live" /\ r.log = r.set.stock - sku[r.id].stock
           /\ ~LockedSKU(r.id),
         r \in SKUDeletions => sku[r.id].row = "live"
  PROVE  UnitsSound'
<1>1. staff \in [Staff -> Writes \cup {NoRequest}]
  BY DEF UnitsSound, CatalogueTypeOK
<1>2. /\ staff' \in [Staff -> Writes \cup {NoRequest}] /\ staff'[w] = r
      /\ \A v \in Staff : v # w => staff'[v] = staff[v]
  BY <1>1
<1>3. UNCHANGED <<category, product, sku, logged, order>>
  BY DEF tables
<1>4. r \in SKUInserts \/ r \in SKUUpdates \/ r \in SKUDeletions
        <=> r.table = "sku"
  BY Kinds
<1>5. ASSUME NEW v \in Staff PROVE WriteFits(v)'
  <2>1. SUFFICES ASSUME staff'[v] # NoRequest PROVE WriteFits(v)'
    BY DEF WriteFits
  <2>2. CASE v = w
    <3>1. ASSUME r \in SKUInserts, NEW x \in Staff, OnSKU(x, r.id)' PROVE x = w
      BY <1>2, <3>1 DEF OnSKU, Unused
    <3>2. ASSUME r \in SKUUpdates, NEW x \in Staff, OnSKU(x, r.id)', staff'[x].holds
          PROVE x = w
      BY <1>2, <3>2 DEF OnSKU, LockedSKU
    <3> QED
      BY <1>2, <1>3, <2>2, <3>1, <3>2 DEF WriteFits, OnSKU
  <2>3. CASE v # w
    <3>1. staff'[v] = staff[v] /\ staff[v] \in Writes /\ WriteFits(v)
      BY <1>2, <2>1, <2>3, UnderWay
    <3>2. ASSUME staff[v] \in SKUInserts, NEW x \in Staff, OnSKU(x, staff[v].id)'
          PROVE x = v
      <4>1. CASE x = w
        <5>1. r.table = "sku" /\ r.id = staff[v].id
          BY <1>2, <3>2, <4>1, <3>1 DEF OnSKU
        <5>2. sku[r.id].row = "absent"
          BY <3>1, <3>2, <5>1, <2>1 DEF WriteFits
        <5>3. ~Unused("sku", r.id)
          BY <2>1, <3>1, <3>2, <5>1, Kinds DEF Unused
        <5> QED
          BY <1>4, <5>1, <5>2, <5>3
      <4>2. CASE x # w
        BY <1>2, <2>1, <3>1, <3>2, <4>2 DEF OnSKU, WriteFits
      <4> QED
        BY <4>1, <4>2
    <3>3. ASSUME staff[v] \in SKUUpdates, NEW x \in Staff, OnSKU(x, staff[v].id)',
                 staff'[x].holds
          PROVE x = v
      <4>1. CASE x = w
        <5>1. r.table = "sku" /\ r.id = staff[v].id /\ r.holds
          BY <1>2, <3>3, <4>1, <3>1 DEF OnSKU
        <5>2. r \in SKUUpdates
          BY <5>1, Kinds
        <5>3. staff[v].holds /\ staff[v].table = "sku"
          BY <3>1, <3>3, Kinds
        <5>4. LockedSKU(r.id)
          BY <2>1, <3>1, <5>1, <5>3 DEF LockedSKU
        <5> QED
          BY <5>2, <5>4
      <4>2. CASE x # w
        BY <1>2, <2>1, <3>1, <3>3, <4>2 DEF OnSKU, WriteFits
      <4> QED
        BY <4>1, <4>2
    <3> QED
      BY <1>3, <2>1, <3>1, <3>2, <3>3 DEF WriteFits
  <2> QED
    BY <2>2, <2>3
<1> QED
  BY <1>2, <1>3, <1>5 DEF UnitsSound, CatalogueTypeOK, StockLogged, AbsentUnsold

\* A request on the categories, or on the products, is none on the SKUs.
LEMMA OtherStarted ==
  ASSUME UnitsSound, NEW w \in Staff, NEW table, NEW id, NEW set,
         UNCHANGED order, ReadsOnly(w, table, id, set),
         [table |-> table, id |-> id, set |-> set, log |-> 0, holds |-> FALSE]
           \in CategoryWrites \cup ProductWrites
  PROVE  UnitsSound'
<1> DEFINE r == [table |-> table, id |-> id, set |-> set, log |-> 0, holds |-> FALSE]
<1>1. /\ staff[w] = NoRequest /\ staff' = [staff EXCEPT ![w] = r]
      /\ UNCHANGED <<tables, overtaken>>
  BY DEF ReadsOnly, Reads
<1>2. r \in Writes
  BY DEF Writes
<1>3. r.table # "sku"
  BY DEF CategoryWrites, ProductWrites
<1> HIDE DEF r
<1> QED
  BY <1>1, <1>2, <1>3, Kinds, Started

\* Every request of the staff goes under way with what it has read.
LEMMA StartedRequest ==
  ASSUME UnitsSound, NEW w \in Staff, StartRequest(w), UNCHANGED order
  PROVE  UnitsSound'
<1>1. ASSUME NEW c \in Categories, NEW parent \in Categories \cup {Root}, NEW on \in BOOLEAN,
             CreateCategory(w, c, parent, on)
      PROVE  UnitsSound'
  <2>1. ReadsOnly(w, "category", c, [row |-> "live", parent |-> parent, enabled |-> on])
    BY <1>1 DEF CreateCategory
  <2> QED
    BY <2>1, OtherStarted DEF CategoryWrites
<1>2. ASSUME NEW c \in Categories, NEW parent \in Categories \cup {Root}, NEW on \in BOOLEAN,
             UpdateCategory(w, c, parent, on)
      PROVE  UnitsSound'
  <2>1. ReadsOnly(w, "category", c, [parent |-> parent, enabled |-> on])
    BY <1>2 DEF UpdateCategory
  <2> QED
    BY <2>1, OtherStarted DEF CategoryWrites
<1>3. ASSUME NEW c \in Categories, DeleteCategory(w, c)
      PROVE  UnitsSound'
  <2>1. ReadsOnly(w, "category", c, [row |-> "deleted"])
    BY <1>3 DEF DeleteCategory
  <2> QED
    BY <2>1, OtherStarted DEF CategoryWrites, Deletion
<1>4. ASSUME NEW p \in Products, NEW c \in Categories, NEW status \in ProductStates,
             CreateProduct(w, p, c, status)
      PROVE  UnitsSound'
  <2>1. ReadsOnly(w, "product", p, [row |-> "live", category |-> c, status |-> status])
    BY <1>4 DEF CreateProduct
  <2> QED
    BY <2>1, OtherStarted DEF ProductWrites
<1>5. ASSUME NEW p \in Products, NEW c \in Categories, NEW status \in ProductStates,
             UpdateProduct(w, p, c, status)
      PROVE  UnitsSound'
  <2>1. ReadsOnly(w, "product", p, [category |-> c, status |-> status])
    BY <1>5 DEF UpdateProduct
  <2> QED
    BY <2>1, OtherStarted DEF ProductWrites
<1>6. ASSUME NEW p \in Products, NEW status \in ProductStates,
             ReadsOnly(w, "product", p, [status |-> status])
      PROVE  UnitsSound'
  BY <1>6, OtherStarted DEF ProductWrites
<1>7. ASSUME NEW p \in Products, DeleteProduct(w, p)
      PROVE  UnitsSound'
  <2>1. ReadsOnly(w, "product", p, [row |-> "deleted"])
    BY <1>7 DEF DeleteProduct
  <2> QED
    BY <2>1, OtherStarted DEF ProductWrites, Deletion
<1>8. ASSUME NEW s \in SKUs, NEW on \in BOOLEAN, NEW stock \in Stocks,
             CreateSKU(w, s, on, stock)
      PROVE  UnitsSound'
  <2> DEFINE set == [row |-> "live", enabled |-> on, stock |-> stock]
             r == [table |-> "sku", id |-> s, set |-> set, log |-> stock, holds |-> FALSE]
  <2>1. /\ sku[s].row = "absent" /\ Unused("sku", s)
        /\ staff[w] = NoRequest /\ staff' = [staff EXCEPT ![w] = r] /\ UNCHANGED <<tables, overtaken>>
    BY <1>8 DEF CreateSKU, Reads
  <2>2. r \in SKUInserts /\ r.id = s /\ r.log = r.set.stock
    BY DEF SKUInserts
  <2> HIDE DEF r
  <2>3. r \in Writes /\ r \notin SKUUpdates /\ r \notin SKUDeletions
    BY <2>2, Kinds DEF Writes, SKUDeletions, SKUInserts, Deletion
  <2> QED
    BY <2>1, <2>2, <2>3, Started
<1>9. ASSUME NEW s \in SKUs, NEW on \in BOOLEAN, NEW stock \in Stocks,
             UpdateSKU(w, s, on, stock)
      PROVE  UnitsSound'
  <2> DEFINE set == [enabled |-> on, stock |-> stock]
             r == [table |-> "sku", id |-> s, set |-> set, log |-> stock - sku[s].stock,
                   holds |-> TRUE]
  <2>1. /\ sku[s].row = "live" /\ ~LockedSKU(s)
        /\ staff[w] = NoRequest /\ staff' = [staff EXCEPT ![w] = r] /\ UNCHANGED <<tables, overtaken>>
    BY <1>9 DEF UpdateSKU, Reads, Live
  <2>2. stock - sku[s].stock \in Int
    BY CatalogueAssumption DEF CatalogueAssumption, UnitsSound, CatalogueTypeOK, SKURows
  <2>3. /\ r \in SKUUpdates /\ r.id = s /\ r.log = r.set.stock - sku[s].stock
        /\ r.holds = TRUE
    BY <2>2 DEF SKUUpdates
  <2> HIDE DEF r
  <2>4. r \in Writes /\ r \notin SKUInserts /\ r \notin SKUDeletions
    BY <2>3 DEF Writes, SKUDeletions, SKUInserts
  <2> QED
    BY <2>1, <2>3, <2>4, Started
<1>10. ASSUME NEW s \in SKUs, DeleteSKU(w, s)
       PROVE  UnitsSound'
  <2> DEFINE set == [row |-> "deleted"]
             r == [table |-> "sku", id |-> s, set |-> set, log |-> 0, holds |-> FALSE]
  <2>1. /\ sku[s].row = "live"
        /\ staff[w] = NoRequest /\ staff' = [staff EXCEPT ![w] = r] /\ UNCHANGED <<tables, overtaken>>
    BY <1>10 DEF DeleteSKU, ReadsOnly, Reads, Live
  <2>2. /\ r \in SKUDeletions /\ r.id = s /\ r.holds = FALSE
        /\ r.set.row = "deleted"
    BY DEF SKUDeletions, Deletion
  <2> HIDE DEF r
  <2>3. r \in Writes /\ r \notin SKUInserts /\ r \notin SKUUpdates
    BY <2>2 DEF Writes, SKUUpdates, SKUInserts
  <2> QED
    BY <2>1, <2>2, <2>3, Started
<1> QED
  BY <1>1, <1>2, <1>3, <1>4, <1>5, <1>6, <1>7, <1>8, <1>9, <1>10
  DEF StartRequest, OnSaleProduct, OffSaleProduct, ProductStates

\* A request ends.  Nobody else who inserts or updates a SKU finds it changed,
\* no SKU vanishes, and the log explains the stock again.
LEMMA Finished ==
  ASSUME UnitsSound, NEW w \in Staff, Done(w), overtaken' \subseteq Staff,
         UNCHANGED order,
         category' \in [Categories -> CategoryRows],
         product' \in [Products -> ProductRows],
         sku' \in [SKUs -> SKURows], logged' \in [SKUs -> Int],
         StockLogged',
         \A s \in SKUs : sku'[s].row = "absent" => sku'[s] = sku[s],
         \A v \in Staff :
           v # w /\ staff[v] # NoRequest
             /\ (staff[v] \in SKUInserts \/ staff[v] \in SKUUpdates)
           => sku'[staff[v].id] = sku[staff[v].id]
  PROVE  UnitsSound'
<1>1. /\ staff \in [Staff -> Writes \cup {NoRequest}]
      /\ order \in [Orders -> OrderRows \cup {NoOrder}]
  BY DEF UnitsSound, CatalogueTypeOK
<1>2. /\ staff' \in [Staff -> Writes \cup {NoRequest}] /\ staff'[w] = NoRequest
      /\ \A v \in Staff : v # w => staff'[v] = staff[v]
  BY <1>1 DEF Done
<1>3. CatalogueTypeOK'
  BY <1>2 DEF CatalogueTypeOK
<1>4. ASSUME NEW v \in Staff PROVE WriteFits(v)'
  <2>1. SUFFICES ASSUME staff'[v] # NoRequest PROVE WriteFits(v)'
    BY DEF WriteFits
  <2>2. /\ v # w /\ staff'[v] = staff[v] /\ staff[v] \in Writes /\ WriteFits(v)
        /\ staff[v] # NoRequest
    BY <1>2, <2>1, UnderWay
  <2>3. \A x \in Staff, s \in SKUs :
          OnSKU(x, s)' => OnSKU(x, s) /\ staff'[x] = staff[x]
    BY <1>2 DEF OnSKU
  <2>4. ASSUME staff[v] \in SKUInserts
        PROVE  /\ sku'[staff[v].id].row = "absent"
               /\ staff[v].log = staff[v].set.stock
               /\ \A x \in Staff : OnSKU(x, staff[v].id)' => x = v
    BY <2>2, <2>3, <2>4, Kinds DEF WriteFits
  <2>5. ASSUME staff[v] \in SKUUpdates
        PROVE  /\ sku'[staff[v].id].row = "live"
               /\ staff[v].log = staff[v].set.stock - sku'[staff[v].id].stock
               /\ \A x \in Staff : OnSKU(x, staff[v].id)' /\ staff'[x].holds => x = v
    BY <2>2, <2>3, <2>5, Kinds DEF WriteFits
  <2>6. ASSUME staff[v] \in SKUDeletions PROVE sku'[staff[v].id].row # "absent"
    BY <2>2, <2>6, Kinds DEF WriteFits
  <2> QED
    BY <2>2, <2>4, <2>5, <2>6 DEF WriteFits, OnSKU
<1>5. AbsentUnsold'
  <2>1. AbsentUnsold
    BY DEF UnitsSound
  <2>2. ASSUME NEW o \in Orders, order[o] # NoOrder PROVE order[o].sku \in SKUs
    BY <1>1, <2>2 DEF OrderRows
  <2> QED
    BY <2>1, <2>2 DEF AbsentUnsold
<1> QED
  BY <1>1, <1>3, <1>4, <1>5 DEF UnitsSound

\* A request that ends without its write.
LEMMA Abandoned ==
  ASSUME UnitsSound, NEW w \in Staff, Abandon(w), UNCHANGED order
  PROVE  UnitsSound'
<1>1. /\ Done(w) /\ UNCHANGED <<category, product, sku, logged>>
      /\ overtaken' \subseteq Staff
  BY DEF Abandon, tables, UnitsSound, CatalogueTypeOK
<1> QED
  BY <1>1, Finished DEF UnitsSound, CatalogueTypeOK, StockLogged

\* A category is written.
LEMMA CategoryWritten ==
  ASSUME UnitsSound, NEW w \in Staff, staff[w] # NoRequest,
         staff[w].table = "category", WriteCategory(staff[w].id, staff[w].set),
         Done(w), overtaken' \subseteq Staff, UNCHANGED order
  PROVE  UnitsSound'
<1>1. staff[w] \in CategoryWrites
  BY UnderWay, Kinds
<1>2. category \in [Categories -> CategoryRows] /\ staff[w].id \in Categories
  BY <1>1 DEF UnitsSound, CatalogueTypeOK, CategoryWrites
<1>3. Updated(category[staff[w].id], staff[w].set) \in CategoryRows
  BY <1>1, <1>2, CategoryUpdated
<1>4. category' \in [Categories -> CategoryRows]
  BY <1>2, <1>3 DEF WriteCategory
<1> QED
  BY <1>4, Finished DEF WriteCategory, UnitsSound, CatalogueTypeOK, StockLogged

\* Deleting a product takes its SKUs, of which none is locked.
LEMMA ProductWritten ==
  ASSUME UnitsSound, NEW w \in Staff, staff[w] # NoRequest,
         staff[w].table = "product", WriteProduct(staff[w].id, staff[w].set),
         Done(w), overtaken' \subseteq Staff, UNCHANGED order
  PROVE  UnitsSound'
<1> DEFINE id == staff[w].id
           set == staff[w].set
<1>1. staff[w] \in ProductWrites
  BY UnderWay, Kinds
<1>2. /\ product \in [Products -> ProductRows] /\ id \in Products
      /\ sku \in [SKUs -> SKURows]
  BY <1>1 DEF UnitsSound, CatalogueTypeOK, ProductWrites
<1>3. Updated(product[id], set) \in ProductRows
  BY <1>1, <1>2, ProductUpdated
<1>4. product' \in [Products -> ProductRows] /\ UNCHANGED <<category, logged>>
  BY <1>2, <1>3 DEF WriteProduct
<1>5. /\ sku' \in [SKUs -> SKURows]
      /\ \A s \in SKUs :
           \/ sku'[s] = sku[s]
           \/ /\ ProductOf[s] = id /\ sku[s].row = "live" /\ sku'[s].row = "deleted"
              /\ sku'[s].stock = sku[s].stock
  <2>1. CASE UNCHANGED sku
    BY <1>2, <2>1
  <2>2. CASE sku' = Cascade(id, set)
    <3>1. \A s \in SKUs : [sku[s] EXCEPT !.row = "deleted"] \in SKURows
      BY <1>2 DEF SKURows, RowStates
    <3>2. \A s \in SKUs : [sku[s] EXCEPT !.row = "deleted"].row = "deleted"
                          /\ [sku[s] EXCEPT !.row = "deleted"].stock = sku[s].stock
      BY <1>2 DEF SKURows
    <3> HIDE DEF id, set
    <3> QED
      BY <1>2, <2>2, <3>1, <3>2 DEF Cascade
  <2> QED
    BY <2>1, <2>2 DEF WriteProduct
<1>6. sku' # sku => \A s \in SKUs : ProductOf[s] = id => ~LockedSKU(s)
  BY DEF WriteProduct
<1> HIDE DEF id, set
<1>7. ASSUME NEW v \in Staff, staff[v] # NoRequest,
             staff[v] \in SKUInserts \/ staff[v] \in SKUUpdates
      PROVE  sku'[staff[v].id] = sku[staff[v].id]
  <2>1. staff[v] \in Writes /\ WriteFits(v) /\ staff[v].id \in SKUs
    BY <1>7, UnderWay, Kinds
  <2>2. CASE staff[v] \in SKUInserts
    <3>1. sku[staff[v].id].row = "absent"
      BY <1>7, <2>1, <2>2 DEF WriteFits
    <3> QED
      BY <1>5, <2>1, <3>1
  <2>3. CASE staff[v] \in SKUUpdates
    <3>1. staff[v].table = "sku" /\ staff[v].holds
      BY <2>1, <2>3, Kinds
    <3>2. LockedSKU(staff[v].id)
      BY <1>7, <3>1 DEF LockedSKU
    <3> QED
      BY <1>5, <1>6, <2>1, <3>2
  <2> QED
    BY <1>7, <2>2, <2>3
<1>8. StockLogged'
  BY <1>4, <1>5 DEF UnitsSound, StockLogged
<1>9. logged' \in [SKUs -> Int] /\ category' \in [Categories -> CategoryRows]
  BY <1>4 DEF UnitsSound, CatalogueTypeOK
<1> QED
  BY <1>4, <1>5, <1>7, <1>8, <1>9, Finished

\* Whichever way a SKU is written, its stock and what is logged stay together.
LEMMA SKUWritten ==
  ASSUME UnitsSound, NEW w \in Staff, staff[w] # NoRequest,
         staff[w].table = "sku", WriteSKU(w, staff[w].id, staff[w].set),
         Done(w), overtaken' \subseteq Staff, UNCHANGED order
  PROVE  UnitsSound'
<1>1. PICK r \in Writes : r = staff[w]
  BY UnderWay
<1>2. /\ r.id \in SKUs /\ r.log \in Int
      /\ r \in SKUInserts \/ r \in SKUUpdates \/ r \in SKUDeletions
  BY <1>1, Kinds
<1>3. WriteFits(w)
  BY UnderWay
<1>4. /\ sku \in [SKUs -> SKURows] /\ logged \in [SKUs -> Int]
      /\ logged[r.id] = sku[r.id].stock /\ sku[r.id].stock \in Nat
  BY <1>2 DEF UnitsSound, CatalogueTypeOK, StockLogged, SKURows
<1>5. PICK row : row = Updated(sku[r.id], r.set)
  OBVIOUS
<1>6. /\ row \in SKURows /\ row.row # "absent" /\ row.stock = sku[r.id].stock + r.log
  <2>1. CASE r \in SKUInserts
    <3>1. /\ sku[r.id].row = "absent" /\ r.log = r.set.stock /\ r.set.stock \in Nat
          /\ r.set \in [row : {"live"}, enabled : BOOLEAN, stock : Stocks]
      BY <1>1, <1>3, <2>1, Kinds DEF WriteFits, SKUInserts
    <3>2. sku[r.id].stock = 0
      BY <1>2, <3>1 DEF UnitsSound, AbsentUnsold
    <3>3. /\ row \in SKURows /\ row.row = "live" /\ row.stock = r.set.stock
      BY <1>2, <1>4, <1>5, <3>1, Inserted
    <3> QED
      BY <3>1, <3>2, <3>3
  <2>2. CASE r \in SKUUpdates
    <3>1. /\ sku[r.id].row = "live" /\ r.log = r.set.stock - sku[r.id].stock
          /\ r.set.stock \in Nat /\ r.set \in [enabled : BOOLEAN, stock : Stocks]
      BY <1>1, <1>3, <2>2, Kinds DEF WriteFits, SKUUpdates
    <3>2. /\ row \in SKURows /\ row.row = "live" /\ row.stock = r.set.stock
      BY <1>2, <1>4, <1>5, <3>1, Changed
    <3> QED
      BY <1>4, <3>1, <3>2
  <2>3. CASE r \in SKUDeletions
    <3>1. sku[r.id].row # "absent" /\ r.log = 0 /\ r.set \in Deletion
      BY <1>1, <1>3, <2>3, Kinds DEF WriteFits, SKUDeletions
    <3>2. row \in SKURows /\ row.row = "deleted" /\ row.stock = sku[r.id].stock
      BY <1>2, <1>4, <1>5, <3>1, Removed
    <3> QED
      BY <1>4, <3>1, <3>2
  <2> QED
    BY <1>2, <2>1, <2>2, <2>3
<1>7. /\ sku' = [sku EXCEPT ![r.id] = row]
      /\ logged' = [logged EXCEPT ![r.id] = @ + r.log]
      /\ UNCHANGED <<category, product>>
  BY <1>1, <1>5 DEF WriteSKU
<1>8. /\ sku' \in [SKUs -> SKURows] /\ logged' \in [SKUs -> Int]
      /\ sku'[r.id] = row /\ logged'[r.id] = logged[r.id] + r.log
      /\ \A s \in SKUs : s # r.id => sku'[s] = sku[s] /\ logged'[s] = logged[s]
  BY <1>2, <1>4, <1>6, <1>7
<1>9. StockLogged'
  BY <1>4, <1>6, <1>8 DEF UnitsSound, StockLogged
<1>10. \A s \in SKUs : sku'[s].row = "absent" => sku'[s] = sku[s]
  BY <1>6, <1>8
<1>11. ASSUME NEW v \in Staff, v # w, staff[v] # NoRequest,
              staff[v] \in SKUInserts \/ staff[v] \in SKUUpdates
       PROVE  sku'[staff[v].id] = sku[staff[v].id]
  <2>1. SUFFICES ASSUME staff[v].id = r.id PROVE FALSE
    BY <1>8, <1>11, UnderWay, Kinds
  <2>2. staff[v] \in Writes /\ WriteFits(v) /\ staff[v].table = "sku"
    BY <1>11, UnderWay, Kinds
  <2>3. OnSKU(w, r.id) /\ OnSKU(v, r.id)
    BY <1>1, <1>11, <2>1, <2>2 DEF OnSKU
  <2>4. r \notin SKUInserts
    BY <1>1, <1>3, <1>11, <2>3 DEF WriteFits
  <2>5. staff[v] \notin SKUInserts
    BY <1>1, <1>11, <2>1, <2>2, <2>3 DEF WriteFits
  <2>6. staff[v] \in SKUUpdates /\ staff[v].holds
    BY <1>11, <2>2, <2>5, Kinds
  <2>7. r \in SKUUpdates
    <3>1. LockedSKU(r.id)
      BY <1>11, <2>1, <2>2, <2>6 DEF LockedSKU
    <3>2. r.holds
      BY <1>1, <3>1 DEF WriteSKU
    <3> QED
      BY <3>2, Kinds
  <2> QED
    BY <1>1, <1>3, <1>11, <2>3, <2>6, <2>7 DEF WriteFits
<1>12. category' \in [Categories -> CategoryRows] /\ product' \in [Products -> ProductRows]
  BY <1>7 DEF UnitsSound, CatalogueTypeOK
<1> QED
  BY <1>8, <1>9, <1>10, <1>11, <1>12, Finished

\* Every request of the staff writes what it has read, or nothing.
LEMMA WrittenRequest ==
  ASSUME UnitsSound, NEW w \in Staff, Write(w), UNCHANGED order
  PROVE  UnitsSound'
BY CategoryWritten, ProductWritten, SKUWritten DEF Write

\* Stock changes by as much as is logged, where no request holds the SKU.
LEMMA StockChanged ==
  ASSUME UnitsSound, NEW s \in SKUs, NEW quantity \in Int, ChangeStock(s, quantity),
         sku[s].row # "absent", sku[s].stock + quantity \in Nat,
         UNCHANGED <<category, product, staff, overtaken>>,
         order' \in [Orders -> OrderRows \cup {NoOrder}],
         \A o \in Orders : order'[o] # NoOrder =>
           \/ order'[o].sku = s
           \/ order[o] # NoOrder /\ order'[o].sku = order[o].sku
  PROVE  UnitsSound'
<1>1. /\ sku \in [SKUs -> SKURows] /\ logged \in [SKUs -> Int]
      /\ \A t \in SKUs : logged[t] = sku[t].stock
      /\ staff \in [Staff -> Writes \cup {NoRequest}]
  BY DEF UnitsSound, CatalogueTypeOK, StockLogged
<1>2. /\ sku' = [sku EXCEPT ![s].stock = @ + quantity]
      /\ logged' = [logged EXCEPT ![s] = @ + quantity] /\ ~LockedSKU(s)
  BY DEF ChangeStock
<1>3. /\ sku' \in [SKUs -> SKURows] /\ sku'[s].stock = sku[s].stock + quantity
      /\ \A t \in SKUs : sku'[t].row = sku[t].row /\ (t # s => sku'[t] = sku[t])
  BY <1>1, <1>2 DEF SKURows
<1>4. /\ logged' \in [SKUs -> Int] /\ logged'[s] = logged[s] + quantity
      /\ \A t \in SKUs : t # s => logged'[t] = logged[t]
  BY <1>1, <1>2
<1>5. StockLogged'
  BY <1>1, <1>3, <1>4 DEF StockLogged
<1>6. ASSUME NEW v \in Staff PROVE WriteFits(v)'
  <2>1. SUFFICES ASSUME staff[v] # NoRequest PROVE WriteFits(v)'
    BY DEF WriteFits
  <2>2. staff[v] \in Writes /\ WriteFits(v)
    BY <2>1, UnderWay
  <2>3. \A x, t : OnSKU(x, t)' <=> OnSKU(x, t)
    BY DEF OnSKU
  <2>4. staff[v] \in SKUUpdates => staff[v].id # s
    BY <1>2, <2>1, <2>2, Kinds DEF LockedSKU
  <2>5. staff[v] \in SKUInserts \/ staff[v] \in SKUUpdates \/ staff[v] \in SKUDeletions
          => staff[v].id \in SKUs
    BY <2>2, Kinds
  <2> QED
    BY <1>3, <2>1, <2>2, <2>3, <2>4, <2>5 DEF WriteFits, OnSKU
<1>7. AbsentUnsold'
  <2>1. AbsentUnsold /\ order \in [Orders -> OrderRows \cup {NoOrder}]
    BY DEF UnitsSound
  <2>2. ASSUME NEW o \in Orders, order'[o] # NoOrder PROVE order'[o].sku \in SKUs
    BY <2>2 DEF OrderRows
  <2> QED
    BY <1>3, <2>1, <2>2 DEF AbsentUnsold
<1> QED
  BY <1>3, <1>4, <1>5, <1>6, <1>7 DEF UnitsSound, CatalogueTypeOK

-----------------------------------------------------------------------------
(***************************************************************************)
(* Coupons: one at a time.                                                 *)
(***************************************************************************)

\* No step takes a claim away.
ClaimsStay ==
  \A u \in UserCoupons : userCoupon[u] # NoClaim => userCoupon'[u] # NoClaim

\* A coupon that is there has the columns of a coupon, and so has a request.
LEMMA IssuedRow ==
  ASSUME CouponsTypeOK, NEW k \in Issued
  PROVE  /\ k \in CouponIds /\ coupon[k] \in CouponRows
         /\ coupon[k].form \in CouponRequests /\ coupon[k].claimed \in Nat
         /\ coupon[k].used \in Nat
BY DEF CouponsTypeOK, Issued, CouponRows

\* What a request asks for has a total and a limit of at least one.
LEMMA RequestForm ==
  ASSUME NEW form \in CouponRequests
  PROVE  /\ form.total \in Nat \ {0} /\ form.limit \in Nat \ {0}
         /\ form.start \in Nat /\ form.end \in Nat
BY CouponsAssumption DEF CouponsAssumption, CouponForms

\* A coupon's row is a coupon that there is.
LEMMA RowIssued ==
  ASSUME NEW row \in CouponRows
  PROVE  row # NoCoupon
<1>1. row \in [form : CouponForms, claimed : Nat, used : Nat]
  BY CouponsAssumption DEF CouponsAssumption, CouponRows
<1> QED
  BY <1>1, CouponsAssumption DEF CouponsAssumption

\* A row has the form and the counters it is made of.
LEMMA NewRow ==
  ASSUME NEW form \in CouponRequests, NEW claimed \in Nat, NEW used \in Nat
  PROVE  /\ CouponRow(form, claimed, used) \in CouponRows
         /\ CouponRow(form, claimed, used).form = form
         /\ CouponRow(form, claimed, used).claimed = claimed
         /\ CouponRow(form, claimed, used).used = used
BY DEF CouponRow, CouponRows

\* Claims can be counted.
LEMMA Countable ==
  ASSUME NEW k, NEW user
  PROVE  /\ IsFiniteSet(Claims(k)) /\ Cardinality(Claims(k)) \in Nat
         /\ IsFiniteSet(InUse(k)) /\ Cardinality(InUse(k)) \in Nat
         /\ IsFiniteSet({u \in Claims(k) : userCoupon[u].user = user})
         /\ CountClaimedByUser(k, user) \in Nat
<1>1. IsFiniteSet(UserCoupons)
  BY CouponsAssumption DEF CouponsAssumption
<1>2. IsFiniteSet(Claims(k))
  <2>1. Claims(k) \subseteq UserCoupons
    BY DEF Claims
  <2> QED
    BY <1>1, <2>1, FS_Subset
<1>3. IsFiniteSet(InUse(k))
  <2>1. InUse(k) \subseteq Claims(k)
    BY DEF InUse
  <2> QED
    BY <1>2, <2>1, FS_Subset
<1>4. IsFiniteSet({u \in Claims(k) : userCoupon[u].user = user})
  <2>1. {u \in Claims(k) : userCoupon[u].user = user} \subseteq Claims(k)
    OBVIOUS
  <2> QED
    BY <1>2, <2>1, FS_Subset
<1> QED
  BY <1>2, <1>3, <1>4, FS_CardinalityType DEF CountClaimedByUser

\* A coupon that nobody has claimed.
LEMMA Unclaimed ==
  ASSUME CouponsSound, NEW k \in CouponIds, k \in Issued => coupon[k].claimed = 0
  PROVE  Claims(k) = {}
<1>1. CASE k \in Issued
  BY <1>1, Countable, FS_EmptySet DEF CouponsSound, CouponsHonoured, CouponCounted
<1>2. CASE k \notin Issued
  BY <1>2 DEF CouponsSound, ClaimsOfCoupons, Claims
<1> QED
  BY <1>1, <1>2

\* Claims that stay what they are, of a buyer and of a coupon, whatever their
\* status, stay the claims of the coupon and of the buyer.
LEMMA SameClaims ==
  ASSUME NEW k,
         \A u \in UserCoupons :
           /\ (userCoupon'[u] # NoClaim /\ userCoupon'[u].coupon = k)
                <=> (userCoupon[u] # NoClaim /\ userCoupon[u].coupon = k)
           /\ userCoupon[u] # NoClaim /\ userCoupon[u].coupon = k
                => userCoupon'[u].user = userCoupon[u].user
  PROVE  /\ Claims(k)' = Claims(k)
         /\ \A user : CountClaimedByUser(k, user)' = CountClaimedByUser(k, user)
<1>1. Claims(k)' = Claims(k)
  BY DEF Claims
<1>2. ASSUME NEW user
      PROVE {u \in Claims(k)' : userCoupon'[u].user = user}
              = {u \in Claims(k) : userCoupon[u].user = user}
  BY <1>1 DEF Claims
<1> QED
  BY <1>1, <1>2 DEF CountClaimedByUser

\* A step about one coupon.
LEMMA OneCoupon ==
  ASSUME CouponsSound, CouponsTypeOK', NEW k \in CouponIds,
         \A j \in CouponIds : j # k => coupon'[j] = coupon[j] /\ editing'[j] = editing[j],
         \A u \in UserCoupons :
           \/ userCoupon'[u] = userCoupon[u]
           \/ /\ userCoupon'[u] # NoClaim /\ userCoupon'[u].coupon = k
              /\ userCoupon[u] = NoClaim \/ userCoupon[u].coupon = k,
         \A u \in UserCoupons : userCoupon[u] # NoClaim => promised'[u] = promised[u],
         k \in Issued' \/ UNCHANGED <<coupon, userCoupon>>,
         EditFits(k)',
         k \in Issued' => CouponCounted(k)' /\ PromiseKept(k)'
  PROVE  CouponsSound' /\ ClaimsStay
<1>1. ASSUME NEW j \in CouponIds, j # k PROVE EditFits(j)'
  <2>1. EditFits(j)
    BY DEF CouponsSound
  <2> QED
    BY <1>1, <2>1 DEF EditFits, Issued
<1>2. ASSUME NEW j \in CouponIds, j # k, j \in Issued'
      PROVE  CouponCounted(j)' /\ PromiseKept(j)'
  <2>1. /\ j \in Issued /\ CouponCounted(j) /\ PromiseKept(j)
        /\ coupon'[j] = coupon[j]
    BY <1>2 DEF CouponsSound, CouponsHonoured, Issued
  <2>2. \A u \in UserCoupons :
          /\ (userCoupon'[u] # NoClaim /\ userCoupon'[u].coupon = j)
               <=> (userCoupon[u] # NoClaim /\ userCoupon[u].coupon = j)
          /\ userCoupon[u] # NoClaim /\ userCoupon[u].coupon = j
               => userCoupon'[u] = userCoupon[u]
    BY <1>2
  <2>3. /\ Claims(j)' = Claims(j)
        /\ \A user : CountClaimedByUser(j, user)' = CountClaimedByUser(j, user)
    BY <2>2, SameClaims
  <2>4. InUse(j)' = InUse(j)
    BY <2>2, <2>3 DEF InUse, Claims
  <2>5. \A u \in Claims(j) : promised'[u] = promised[u]
    BY DEF Claims
  <2> QED
    BY <2>1, <2>3, <2>4, <2>5 DEF CouponCounted, PromiseKept
<1>3. ClaimsStay
  BY DEF ClaimsStay
<1>4. ClaimsOfCoupons'
  <2>1. \A j \in Issued : j # k => j \in Issued'
    BY DEF Issued
  <2>2. ASSUME NEW u \in UserCoupons, userCoupon'[u] # NoClaim
        PROVE  userCoupon'[u].coupon \in Issued'
    <3>1. CASE userCoupon'[u] = userCoupon[u]
      <4>1. userCoupon[u].coupon \in Issued
        BY <2>2, <3>1 DEF CouponsSound, ClaimsOfCoupons
      <4> QED
        BY <2>1, <3>1, <4>1 DEF Issued
    <3>2. CASE userCoupon'[u] # userCoupon[u]
      BY <3>2
    <3> QED
      BY <3>1, <3>2
  <2> QED
    BY <2>2 DEF ClaimsOfCoupons
<1>5. CouponsHonoured'
  BY <1>2 DEF CouponsHonoured, Issued
<1> QED
  BY <1>1, <1>3, <1>4, <1>5 DEF CouponsSound

\* The merchant creates a coupon.
LEMMA Created ==
  ASSUME CouponsSound, NEW k \in CouponIds, NEW form \in CouponRequests,
         MerchantCreate(k, form)
  PROVE  CouponsSound' /\ ClaimsStay
<1>1. /\ coupon[k] = NoCoupon
      /\ coupon' = [coupon EXCEPT ![k] = CouponRow(form, 0, 0)]
      /\ UNCHANGED <<now, editing, userCoupon, promised>>
  BY DEF MerchantCreate
<1>2. PICK row \in CouponRows : /\ row = CouponRow(form, 0, 0)
                                /\ row.form = form /\ row.claimed = 0 /\ row.used = 0
  BY NewRow
<1>3. CouponsTypeOK /\ coupon \in [CouponIds -> CouponRows \cup {NoCoupon}]
  BY DEF CouponsSound, CouponsTypeOK
<1>4. /\ coupon' \in [CouponIds -> CouponRows \cup {NoCoupon}] /\ coupon'[k] = row
      /\ \A j \in CouponIds : j # k => coupon'[j] = coupon[j]
  BY <1>1, <1>2, <1>3
<1>5. CouponsTypeOK'
  BY <1>1, <1>3, <1>4 DEF CouponsTypeOK
<1>6. k \in Issued' /\ k \notin Issued
  BY <1>1, <1>2, <1>4, RowIssued DEF Issued
<1>7. Claims(k) = {}
  BY <1>6, Unclaimed
<1>8. Claims(k)' = {} /\ InUse(k)' = {}
  BY <1>1, <1>7 DEF Claims, InUse
<1>9. ASSUME NEW user PROVE CountClaimedByUser(k, user)' = 0
  BY <1>8, FS_EmptySet DEF CountClaimedByUser
<1>10. CouponCounted(k)' /\ PromiseKept(k)'
  BY <1>2, <1>4, <1>8, <1>9, FS_EmptySet, RequestForm DEF CouponCounted, PromiseKept
<1>11. EditFits(k)'
  BY <1>1, <1>6 DEF CouponsSound, EditFits
<1> QED
  BY <1>1, <1>4, <1>5, <1>6, <1>10, <1>11, OneCoupon

\* An edit that is begun, saved or given up leaves the claims alone.
LEMMA EditBegun ==
  ASSUME CouponsSound, NEW k \in CouponIds, NEW form \in CouponRequests,
         MerchantUpdate(k, form)
  PROVE  CouponsSound' /\ ClaimsStay
<1>1. /\ k \in Issued /\ form.total >= coupon[k].claimed
      /\ coupon[k].claimed > 0 => KeepsPromise(coupon[k].form, form)
      /\ editing' = [editing EXCEPT ![k] =
                       CouponRow(form, coupon[k].claimed, coupon[k].used)]
      /\ UNCHANGED <<now, coupon, userCoupon, promised>>
  BY DEF MerchantUpdate
<1>2. CouponsTypeOK /\ coupon[k].claimed \in Nat /\ coupon[k].used \in Nat
  BY <1>1, IssuedRow DEF CouponsSound
<1>3. PICK row \in CouponRows :
        /\ row = CouponRow(form, coupon[k].claimed, coupon[k].used)
        /\ row.form = form /\ row.claimed = coupon[k].claimed
        /\ row.used = coupon[k].used
  BY <1>2, NewRow
<1>4. editing \in [CouponIds -> CouponRows \cup {NoEdit}]
  BY <1>2 DEF CouponsTypeOK
<1>5. /\ editing' \in [CouponIds -> CouponRows \cup {NoEdit}] /\ editing'[k] = row
      /\ \A j \in CouponIds : j # k => editing'[j] = editing[j]
  BY <1>1, <1>3, <1>4
<1>6. CouponsTypeOK'
  BY <1>1, <1>2, <1>5 DEF CouponsTypeOK
<1>7. EditFits(k)'
  <2>1. coupon[k].claimed <= row.form.total
    BY <1>1, <1>2, <1>3, RequestForm
  <2> QED
    BY <1>1, <1>3, <1>5, <2>1 DEF EditFits, Issued, KeepsPromise
<1>8. CouponCounted(k)' /\ PromiseKept(k)'
  BY <1>1 DEF CouponsSound, CouponsHonoured, CouponCounted, PromiseKept, Claims,
     InUse, CountClaimedByUser
<1>9. k \in Issued'
  BY <1>1 DEF Issued
<1> QED
  BY <1>1, <1>5, <1>6, <1>7, <1>8, <1>9, OneCoupon

\* An edit that is rolled back changes no coupon and no claim.
LEMMA EditAbandoned ==
  ASSUME CouponsSound, NEW k \in CouponIds, AbandonEdit(k)
  PROVE  CouponsSound' /\ ClaimsStay
<1>1. /\ editing[k] # NoEdit /\ editing' = [editing EXCEPT ![k] = NoEdit]
      /\ UNCHANGED <<now, coupon, userCoupon, promised>>
  BY DEF AbandonEdit
<1>2. CouponsTypeOK /\ editing \in [CouponIds -> CouponRows \cup {NoEdit}]
  BY DEF CouponsSound, CouponsTypeOK
<1>3. /\ editing' \in [CouponIds -> CouponRows \cup {NoEdit}] /\ editing'[k] = NoEdit
      /\ \A j \in CouponIds : j # k => editing'[j] = editing[j]
  BY <1>1, <1>2
<1>4. CouponsTypeOK'
  BY <1>1, <1>2, <1>3 DEF CouponsTypeOK
<1>5. EditFits(k)' /\ k \in Issued /\ k \in Issued'
  BY <1>1, <1>3 DEF CouponsSound, EditFits, Issued
<1>6. CouponCounted(k)' /\ PromiseKept(k)'
  BY <1>1, <1>5 DEF CouponsSound, CouponsHonoured, CouponCounted, PromiseKept,
     Claims, InUse, CountClaimedByUser
<1> QED
  BY <1>1, <1>3, <1>4, <1>5, <1>6, OneCoupon

\* A coupon whose form is replaced by one that keeps its promise to those who
\* have claimed it.
LEMMA Saved ==
  ASSUME CouponsSound, NEW k \in CouponIds, Save(k)
  PROVE  CouponsSound' /\ ClaimsStay
<1>1. /\ editing[k] # NoEdit
      /\ coupon' = [coupon EXCEPT ![k] = editing[k]]
      /\ editing' = [editing EXCEPT ![k] = NoEdit]
      /\ UNCHANGED <<now, userCoupon, promised>>
  BY DEF Save
<1>2. /\ CouponsTypeOK /\ coupon \in [CouponIds -> CouponRows \cup {NoCoupon}]
      /\ editing \in [CouponIds -> CouponRows \cup {NoEdit}]
  BY DEF CouponsSound, CouponsTypeOK
<1>3. PICK row \in CouponRows : row = editing[k]
  BY <1>1, <1>2
<1>4. /\ k \in Issued /\ row.claimed = coupon[k].claimed /\ row.used = coupon[k].used
      /\ coupon[k].claimed <= row.form.total
      /\ coupon[k].claimed > 0 => KeepsPromise(coupon[k].form, row.form)
  BY <1>1, <1>3 DEF CouponsSound, EditFits
<1>5. /\ coupon' \in [CouponIds -> CouponRows \cup {NoCoupon}] /\ coupon'[k] = row
      /\ editing' \in [CouponIds -> CouponRows \cup {NoEdit}] /\ editing'[k] = NoEdit
      /\ \A j \in CouponIds : j # k => coupon'[j] = coupon[j] /\ editing'[j] = editing[j]
  BY <1>1, <1>2, <1>3
<1>6. CouponsTypeOK'
  BY <1>1, <1>2, <1>5 DEF CouponsTypeOK
<1>7. EditFits(k)' /\ k \in Issued'
  BY <1>4, <1>5, RowIssued DEF EditFits, Issued
<1>8. /\ Claims(k)' = Claims(k) /\ InUse(k)' = InUse(k)
      /\ \A user : CountClaimedByUser(k, user)' = CountClaimedByUser(k, user)
  BY <1>1 DEF Claims, InUse, CountClaimedByUser
<1>9. CouponCounted(k) /\ PromiseKept(k)
  BY <1>4 DEF CouponsSound, CouponsHonoured
<1>10. CouponCounted(k)' /\ PromiseKept(k)'
  <2>1. CASE coupon[k].claimed = 0
    <3>1. Claims(k) = {}
      BY <2>1, Unclaimed
    <3>2. \A user : CountClaimedByUser(k, user) = 0
      BY <3>1, FS_EmptySet DEF CountClaimedByUser
    <3>3. row.form.limit \in Nat
      BY RequestForm DEF CouponRows
    <3> QED
      BY <1>4, <1>5, <1>8, <1>9, <3>1, <3>2, <3>3 DEF CouponCounted, PromiseKept
  <2>2. CASE coupon[k].claimed > 0
    <3>1. KeepsPromise(coupon[k].form, row.form)
      BY <1>4, <2>2
    <3>2. CouponCounted(k)'
      BY <1>4, <1>5, <1>8, <1>9, <3>1 DEF CouponCounted, KeepsPromise
    <3>3. ASSUME NEW u \in Claims(k)
          PROVE  /\ row.form.terms = promised[u].terms
                 /\ row.form.start <= promised[u].start
                 /\ row.form.end >= promised[u].end
      <4>1. promised[u] \in CouponRequests
        BY <1>2, <3>3 DEF Claims, CouponsTypeOK
      <4>2. /\ promised[u].end \in Nat /\ row.form.end \in Nat
            /\ coupon[k].form.end \in Nat
        BY <1>2, <1>4, <4>1, IssuedRow, RequestForm DEF CouponRows
      <4> QED
        BY <1>9, <3>1, <4>2 DEF KeepsPromise, PromiseKept
    <3> QED
      BY <1>1, <1>5, <1>8, <3>2, <3>3 DEF PromiseKept
  <2>3. coupon[k].claimed \in Nat
    BY <1>2, <1>4, IssuedRow
  <2> QED
    BY <2>1, <2>2, <2>3
<1> QED
  BY <1>1, <1>5, <1>6, <1>7, <1>10, OneCoupon

\* What a claim is.
LEMMA ClaimRow ==
  ASSUME NEW row \in UserCouponRows
  PROVE  /\ row # NoClaim /\ row.coupon \in CouponIds
         /\ row.status \in {"unused", "used", "expired"}
         /\ \A status \in {"unused", "used", "expired"} :
              /\ [row EXCEPT !.status = status] \in UserCouponRows
              /\ [row EXCEPT !.status = status].coupon = row.coupon
              /\ [row EXCEPT !.status = status].user = row.user
              /\ [row EXCEPT !.status = status].status = status
BY CouponsAssumption DEF CouponsAssumption, UserCouponRows

\* Somebody claims a coupon of which there are some left.
LEMMA Claimed ==
  ASSUME CouponsSound, NEW u \in UserCoupons, NEW user \in Users, NEW k \in CouponIds,
         Claim(u, user, k)
  PROVE  CouponsSound' /\ ClaimsStay
<1>1. /\ userCoupon[u] = NoClaim /\ k \in Issued /\ RowFree(k)
      /\ CountClaimedByUser(k, user) < coupon[k].form.limit
      /\ coupon[k].claimed < coupon[k].form.total
      /\ coupon' = [coupon EXCEPT ![k].claimed = @ + 1]
      /\ promised' = [promised EXCEPT ![u] = coupon[k].form]
      /\ UNCHANGED <<now, editing>>
  BY DEF Claim, IncrementClaimed
<1>2. PICK claim : claim = [coupon |-> k, user |-> user, status |-> "unused"]
  OBVIOUS
<1>3. /\ claim \in UserCouponRows /\ claim.coupon = k /\ claim.user = user
      /\ claim.status = "unused" /\ claim # NoClaim
  BY <1>2, ClaimRow DEF UserCouponRows
<1>4. userCoupon' = [userCoupon EXCEPT ![u] = claim]
  BY <1>2 DEF Claim
<1>5. /\ CouponsTypeOK /\ coupon \in [CouponIds -> CouponRows \cup {NoCoupon}]
      /\ userCoupon \in [UserCoupons -> UserCouponRows \cup {NoClaim}]
      /\ promised \in [UserCoupons -> CouponRequests \cup {NoClaim}]
  BY DEF CouponsSound, CouponsTypeOK
<1>6. /\ coupon[k] \in CouponRows /\ coupon[k].form \in CouponRequests
      /\ coupon[k].claimed \in Nat /\ coupon[k].used \in Nat
      /\ coupon[k].form.total \in Nat /\ coupon[k].form.limit \in Nat
      /\ coupon[k].form.start \in Nat /\ coupon[k].form.end \in Nat
  BY <1>1, <1>5, IssuedRow, RequestForm
<1>7. /\ [coupon[k] EXCEPT !.claimed = @ + 1] \in CouponRows
      /\ [coupon[k] EXCEPT !.claimed = @ + 1].form = coupon[k].form
      /\ [coupon[k] EXCEPT !.claimed = @ + 1].used = coupon[k].used
      /\ [coupon[k] EXCEPT !.claimed = @ + 1].claimed = coupon[k].claimed + 1
  BY <1>6 DEF CouponRows
<1>8. PICK row \in CouponRows : row = [coupon[k] EXCEPT !.claimed = @ + 1]
  BY <1>7
<1>9. /\ row.form = coupon[k].form /\ row.used = coupon[k].used
      /\ row.claimed = coupon[k].claimed + 1
  BY <1>7, <1>8
<1>10. /\ coupon' \in [CouponIds -> CouponRows \cup {NoCoupon}] /\ coupon'[k] = row
       /\ \A j \in CouponIds : j # k => coupon'[j] = coupon[j]
  BY <1>1, <1>5, <1>8
<1>11. /\ userCoupon' \in [UserCoupons -> UserCouponRows \cup {NoClaim}]
       /\ userCoupon'[u] = claim
       /\ \A x \in UserCoupons : x # u => userCoupon'[x] = userCoupon[x]
  BY <1>3, <1>4, <1>5
<1>12. /\ promised' \in [UserCoupons -> CouponRequests \cup {NoClaim}]
       /\ promised'[u] = coupon[k].form
       /\ \A x \in UserCoupons : x # u => promised'[x] = promised[x]
  BY <1>1, <1>5, <1>6
<1>13. CouponsTypeOK'
  BY <1>1, <1>5, <1>6, <1>10, <1>11, <1>12 DEF CouponsTypeOK
<1>14. k \in Issued' /\ EditFits(k)'
  BY <1>1, <1>10, RowIssued DEF Issued, EditFits, RowFree
<1>15. /\ Claims(k)' = Claims(k) \cup {u} /\ u \notin Claims(k)
       /\ InUse(k)' = InUse(k)
  BY <1>1, <1>3, <1>11 DEF Claims, InUse
<1>16. CouponCounted(k) /\ PromiseKept(k)
  BY <1>1 DEF CouponsSound, CouponsHonoured
<1>17. Cardinality(Claims(k)') = Cardinality(Claims(k)) + 1
  BY <1>15, Countable, FS_AddElement
<1>18. ASSUME NEW x \in Users
       PROVE  CountClaimedByUser(k, x)' <= coupon[k].form.limit
  <2> DEFINE before == {y \in Claims(k) : userCoupon[y].user = x}
             after == {y \in Claims(k)' : userCoupon'[y].user = x}
  <2>1. /\ CountClaimedByUser(k, x) = Cardinality(before)
        /\ CountClaimedByUser(k, x)' = Cardinality(after)
        /\ CountClaimedByUser(k, x) <= coupon[k].form.limit
    BY <1>16 DEF CountClaimedByUser, CouponCounted
  <2>2. IsFiniteSet(before) /\ Cardinality(before) \in Nat
    BY <2>1, Countable
  <2>3. \A y \in Claims(k) : y \in UserCoupons /\ y # u /\ userCoupon'[y] = userCoupon[y]
    BY <1>11, <1>15 DEF Claims
  <2>4. CASE x = user
    <3>1. after = before \cup {u} /\ u \notin before
      BY <1>3, <1>11, <1>15, <2>3, <2>4
    <3>2. Cardinality(after) = Cardinality(before) + 1
      BY <2>2, <3>1, FS_AddElement
    <3> HIDE DEF before, after
    <3> QED
      BY <1>1, <1>6, <2>1, <2>2, <2>4, <3>2
  <2>5. CASE x # user
    <3>1. after = before
      BY <1>3, <1>11, <1>15, <2>3, <2>5
    <3> QED
      BY <2>1, <3>1
  <2> QED
    BY <2>4, <2>5
<1>19. CouponCounted(k)'
  <2>1. row.claimed = Cardinality(Claims(k)')
    BY <1>9, <1>16, <1>17 DEF CouponCounted
  <2>2. row.used = Cardinality(InUse(k)')
    BY <1>9, <1>15, <1>16 DEF CouponCounted
  <2>3. row.claimed <= row.form.total
    BY <1>1, <1>6, <1>9
  <2> QED
    BY <1>9, <1>10, <1>18, <2>1, <2>2, <2>3 DEF CouponCounted
<1>20. PromiseKept(k)'
  <2>1. ASSUME NEW x \in Claims(k)'
        PROVE  /\ row.form.terms = promised'[x].terms
               /\ row.form.start <= promised'[x].start
               /\ row.form.end >= promised'[x].end
    <3>1. CASE x = u
      BY <1>6, <1>9, <1>12, <3>1
    <3>2. CASE x # u
      <4>1. x \in Claims(k) /\ promised'[x] = promised[x]
        BY <1>12, <1>15, <2>1, <3>2 DEF Claims
      <4> QED
        BY <1>9, <1>16, <4>1 DEF PromiseKept
    <3> QED
      BY <3>1, <3>2
  <2> QED
    BY <1>10, <2>1 DEF PromiseKept
<1>21. \A x \in UserCoupons : userCoupon[x] # NoClaim => promised'[x] = promised[x]
  BY <1>1, <1>12
<1>22. \A j \in CouponIds : j # k => coupon'[j] = coupon[j] /\ editing'[j] = editing[j]
  BY <1>1, <1>10
<1>23. \A x \in UserCoupons :
         \/ userCoupon'[x] = userCoupon[x]
         \/ /\ userCoupon'[x] # NoClaim /\ userCoupon'[x].coupon = k
            /\ userCoupon[x] = NoClaim \/ userCoupon[x].coupon = k
  BY <1>1, <1>3, <1>11
<1> QED
  BY <1>13, <1>14, <1>19, <1>20, <1>21, <1>22, <1>23, OneCoupon

\* A claim's status and the counter of those in use change together.
LEMMA StatusChanged ==
  ASSUME CouponsSound, NEW u \in UserCoupons, userCoupon[u] # NoClaim,
         NEW k \in CouponIds, k = userCoupon[u].coupon, RowFree(k),
         NEW status \in {"unused", "used", "expired"}, NEW used \in Nat,
         userCoupon' = [userCoupon EXCEPT ![u].status = status],
         coupon' = [coupon EXCEPT ![k].used = used],
         UNCHANGED <<now, editing, promised>>,
         used = Cardinality({x \in Claims(k) :
                               IF x = u THEN status = "used"
                               ELSE userCoupon[x].status = "used"})
  PROVE  CouponsSound' /\ ClaimsStay
<1>1. /\ CouponsTypeOK /\ coupon \in [CouponIds -> CouponRows \cup {NoCoupon}]
      /\ userCoupon \in [UserCoupons -> UserCouponRows \cup {NoClaim}]
  BY DEF CouponsSound, CouponsTypeOK
<1>2. k \in Issued
  BY DEF CouponsSound, ClaimsOfCoupons
<1>3. coupon[k] \in CouponRows
  BY <1>1, <1>2, IssuedRow
<1>4. /\ [coupon[k] EXCEPT !.used = used] \in CouponRows
      /\ [coupon[k] EXCEPT !.used = used].form = coupon[k].form
      /\ [coupon[k] EXCEPT !.used = used].claimed = coupon[k].claimed
      /\ [coupon[k] EXCEPT !.used = used].used = used
  BY <1>3 DEF CouponRows
<1>5. PICK row \in CouponRows : row = [coupon[k] EXCEPT !.used = used]
  BY <1>4
<1>6. row.form = coupon[k].form /\ row.claimed = coupon[k].claimed /\ row.used = used
  BY <1>4, <1>5
<1>7. /\ coupon' \in [CouponIds -> CouponRows \cup {NoCoupon}] /\ coupon'[k] = row
      /\ \A j \in CouponIds : j # k => coupon'[j] = coupon[j]
  BY <1>1, <1>5
<1>8. PICK claim : claim = [userCoupon[u] EXCEPT !.status = status]
  OBVIOUS
<1>9. /\ claim \in UserCouponRows /\ claim # NoClaim /\ claim.coupon = k
      /\ claim.user = userCoupon[u].user /\ claim.status = status
  <2>1. PICK old \in UserCouponRows : old = userCoupon[u]
    BY <1>1
  <2>2. /\ [old EXCEPT !.status = status] \in UserCouponRows
        /\ [old EXCEPT !.status = status].coupon = old.coupon
        /\ [old EXCEPT !.status = status].user = old.user
        /\ [old EXCEPT !.status = status].status = status
    BY DEF UserCouponRows
  <2>3. claim \in UserCouponRows
    BY <1>8, <2>1, <2>2
  <2> QED
    BY <1>8, <2>1, <2>2, <2>3, ClaimRow
<1>10. /\ userCoupon' \in [UserCoupons -> UserCouponRows \cup {NoClaim}]
       /\ userCoupon'[u] = claim
       /\ \A x \in UserCoupons : x # u => userCoupon'[x] = userCoupon[x]
  BY <1>1, <1>8, <1>9
<1>11. CouponsTypeOK'
  BY <1>1, <1>7, <1>10 DEF CouponsTypeOK
<1>12. k \in Issued' /\ EditFits(k)'
  BY <1>7, RowIssued DEF Issued, EditFits, RowFree
<1>13. /\ Claims(k)' = Claims(k)
       /\ \A user : CountClaimedByUser(k, user)' = CountClaimedByUser(k, user)
  BY <1>9, <1>10, SameClaims
<1>14. InUse(k)' = {x \in Claims(k) : IF x = u THEN status = "used"
                                      ELSE userCoupon[x].status = "used"}
  BY <1>9, <1>10, <1>13 DEF InUse, Claims
<1>15. CouponCounted(k) /\ PromiseKept(k)
  BY <1>2 DEF CouponsSound, CouponsHonoured
<1>16. CouponCounted(k)' /\ PromiseKept(k)'
  <2>1. CouponCounted(k)'
    BY <1>6, <1>7, <1>13, <1>14, <1>15 DEF CouponCounted
  <2>2. PromiseKept(k)'
    BY <1>6, <1>7, <1>13, <1>15 DEF PromiseKept
  <2> QED
    BY <2>1, <2>2
<1>17. \A x \in UserCoupons :
         \/ userCoupon'[x] = userCoupon[x]
         \/ /\ userCoupon'[x] # NoClaim /\ userCoupon'[x].coupon = k
            /\ userCoupon[x] = NoClaim \/ userCoupon[x].coupon = k
  BY <1>9, <1>10
<1>18. \A j \in CouponIds : j # k => coupon'[j] = coupon[j] /\ editing'[j] = editing[j]
  BY <1>7
<1> QED
  BY <1>11, <1>12, <1>16, <1>17, <1>18, OneCoupon

\* Placing an order uses a claim; cancelling it releases the claim.
LEMMA UsedOne ==
  ASSUME CouponsSound, NEW u \in UserCoupons, Use(u)
  PROVE  CouponsSound' /\ ClaimsStay
<1> DEFINE k == userCoupon[u].coupon
<1>1. /\ userCoupon[u] # NoClaim /\ userCoupon[u].status = "unused" /\ RowFree(k)
      /\ userCoupon' = [userCoupon EXCEPT ![u].status = "used"]
      /\ coupon' = [coupon EXCEPT ![k].used = @ + 1]
      /\ UNCHANGED <<now, editing, promised>>
  BY DEF Use
<1>2. k \in CouponIds /\ k \in Issued
  <2>1. userCoupon[u] \in UserCouponRows
    BY <1>1 DEF CouponsSound, CouponsTypeOK
  <2> QED
    BY <1>1, <2>1, ClaimRow DEF CouponsSound, ClaimsOfCoupons
<1>3. /\ coupon[k].used \in Nat /\ coupon[k].used = Cardinality(InUse(k))
      /\ coupon \in [CouponIds -> CouponRows \cup {NoCoupon}]
  BY <1>2, IssuedRow DEF CouponsSound, CouponsTypeOK, CouponsHonoured, CouponCounted
<1> DEFINE after == {x \in Claims(k) : IF x = u THEN "used" = "used"
                                       ELSE userCoupon[x].status = "used"}
<1>4. after = InUse(k) \cup {u} /\ u \notin InUse(k)
  BY <1>1 DEF InUse, Claims
<1>5. Cardinality(after) = coupon[k].used + 1
  BY <1>3, <1>4, Countable, FS_AddElement
<1>6. Cardinality(after) \in Nat
  <2> HIDE DEF after
  <2> QED
    BY <1>3, <1>5
<1>7. coupon' = [coupon EXCEPT ![k].used = Cardinality(after)]
  <2> HIDE DEF after
  <2> QED
    BY <1>1, <1>2, <1>3, <1>5
<1> QED
  BY <1>1, <1>2, <1>6, <1>7, StatusChanged

\* A cancelled order gives back the coupon it used, counted down once.
LEMMA ReleasedOne ==
  ASSUME CouponsSound, NEW u \in UserCoupons, userCoupon[u] # NoClaim, Release(u)
  PROVE  CouponsSound' /\ ClaimsStay
<1> DEFINE k == userCoupon[u].coupon
<1>1. /\ userCoupon[u].status = "used" /\ RowFree(k)
      /\ userCoupon' = [userCoupon EXCEPT ![u].status = "unused"]
      /\ coupon' = [coupon EXCEPT ![k].used = IF @ > 0 THEN @ - 1 ELSE 0]
      /\ UNCHANGED <<now, editing, promised>>
  BY DEF Release
<1>2. k \in CouponIds /\ k \in Issued
  <2>1. userCoupon[u] \in UserCouponRows
    BY DEF CouponsSound, CouponsTypeOK
  <2> QED
    BY <2>1, ClaimRow DEF CouponsSound, ClaimsOfCoupons
<1>3. /\ coupon[k].used \in Nat /\ coupon[k].used = Cardinality(InUse(k))
      /\ coupon \in [CouponIds -> CouponRows \cup {NoCoupon}]
  BY <1>2, IssuedRow DEF CouponsSound, CouponsTypeOK, CouponsHonoured, CouponCounted
<1> DEFINE after == {x \in Claims(k) : IF x = u THEN "unused" = "used"
                                       ELSE userCoupon[x].status = "used"}
<1>4. after = InUse(k) \ {u} /\ u \in InUse(k)
  BY <1>1 DEF InUse, Claims
<1>5. IsFiniteSet(after) /\ Cardinality(after) \in Nat
  BY <1>4, Countable, FS_Subset, FS_CardinalityType
<1>6. Cardinality(InUse(k)) = Cardinality(after) + 1
  <2>1. InUse(k) = after \cup {u} /\ u \notin after
    BY <1>4
  <2> HIDE DEF after
  <2> QED
    BY <1>5, <2>1, FS_AddElement
<1>7. coupon[k].used > 0 /\ Cardinality(after) = coupon[k].used - 1
  <2> HIDE DEF after
  <2> QED
    BY <1>3, <1>5, <1>6
<1>8. coupon' = [coupon EXCEPT ![k].used = Cardinality(after)]
  <2> HIDE DEF after
  <2> QED
    BY <1>1, <1>2, <1>3, <1>7
<1> QED
  BY <1>1, <1>2, <1>5, <1>8, StatusChanged

\* Expiry marks claims that are not in use.
LEMMA Expired ==
  ASSUME CouponsSound, NEW user \in Users, ExpireUserCoupons(user)
  PROVE  CouponsSound' /\ ClaimsStay
<1>1. /\ CouponsTypeOK /\ UNCHANGED <<now, coupon, editing, promised>>
      /\ userCoupon \in [UserCoupons -> UserCouponRows \cup {NoClaim}]
  BY DEF ExpireUserCoupons, CouponsSound, CouponsTypeOK
<1>2. /\ userCoupon' \in [UserCoupons -> UserCouponRows \cup {NoClaim}]
      /\ \A u \in UserCoupons :
           \/ userCoupon'[u] = userCoupon[u]
           \/ /\ userCoupon[u] # NoClaim /\ userCoupon'[u] # NoClaim
              /\ userCoupon'[u].coupon = userCoupon[u].coupon
              /\ userCoupon'[u].user = userCoupon[u].user
              /\ userCoupon[u].status = "unused" /\ userCoupon'[u].status = "expired"
  <2>1. ASSUME NEW u \in UserCoupons, userCoupon[u] # NoClaim
        PROVE  /\ [userCoupon[u] EXCEPT !.status = "expired"] \in UserCouponRows
               /\ [userCoupon[u] EXCEPT !.status = "expired"] # NoClaim
               /\ [userCoupon[u] EXCEPT !.status = "expired"].coupon = userCoupon[u].coupon
               /\ [userCoupon[u] EXCEPT !.status = "expired"].user = userCoupon[u].user
               /\ [userCoupon[u] EXCEPT !.status = "expired"].status = "expired"
    <3>1. userCoupon[u] \in UserCouponRows
      BY <1>1, <2>1
    <3> QED
      BY <3>1, ClaimRow
  <2> QED
    BY <1>1, <2>1 DEF ExpireUserCoupons
<1>3. CouponsTypeOK'
  BY <1>1, <1>2 DEF CouponsTypeOK
<1>4. ClaimsStay
  BY <1>2 DEF ClaimsStay
<1>5. ASSUME NEW k
      PROVE  /\ Claims(k)' = Claims(k) /\ InUse(k)' = InUse(k)
             /\ \A x : CountClaimedByUser(k, x)' = CountClaimedByUser(k, x)
  <2>1. /\ Claims(k)' = Claims(k)
        /\ \A x : CountClaimedByUser(k, x)' = CountClaimedByUser(k, x)
    BY <1>2, SameClaims
  <2> QED
    BY <1>2, <2>1 DEF InUse, Claims
<1>6. CouponsHonoured'
  BY <1>1, <1>5 DEF CouponsSound, CouponsHonoured, CouponCounted, PromiseKept, Issued
<1>7. ClaimsOfCoupons' /\ \A k \in CouponIds : EditFits(k)'
  BY <1>1, <1>2 DEF CouponsSound, ClaimsOfCoupons, EditFits, Issued
<1> QED
  BY <1>3, <1>4, <1>6, <1>7 DEF CouponsSound

\* Neither do time and steps about other things do anything to the coupons.
LEMMA CouponsStay ==
  ASSUME CouponsSound, UNCHANGED coupons \/ Tick
  PROVE  CouponsSound' /\ ClaimsStay
<1>1. UNCHANGED <<coupon, editing, userCoupon, promised>>
  BY DEF coupons, Tick
<1>2. now' \in 0..MaxTime
  BY CouponsAssumption DEF coupons, Tick, CouponsSound, CouponsTypeOK, CouponsAssumption
<1>3. CouponsTypeOK'
  BY <1>1, <1>2 DEF CouponsSound, CouponsTypeOK
<1>4. ClaimsStay /\ ClaimsOfCoupons' /\ \A k \in CouponIds : EditFits(k)'
  BY <1>1 DEF CouponsSound, ClaimsOfCoupons, EditFits, Issued, ClaimsStay
<1>5. ASSUME NEW k \in CouponIds
      PROVE  /\ Claims(k)' = Claims(k) /\ InUse(k)' = InUse(k)
             /\ \A user : CountClaimedByUser(k, user)' = CountClaimedByUser(k, user)
  BY <1>1 DEF Claims, InUse, CountClaimedByUser
<1>6. CouponsHonoured'
  BY <1>1, <1>5 DEF CouponsSound, CouponsHonoured, Issued, CouponCounted, PromiseKept
<1> QED
  BY <1>3, <1>4, <1>6 DEF CouponsSound

\* Orders go on using claims that are there.
LEMMA ClaimsStillUsed ==
  ASSUME OrdersUseClaims, ClaimsStay, UNCHANGED order,
         order \in [Orders -> OrderRows \cup {NoOrder}]
  PROVE  OrdersUseClaims'
BY DEF OrdersUseClaims, ClaimsStay, OrderRows

-----------------------------------------------------------------------------
(***************************************************************************)
(* The shelf: orders, and all steps together.                              *)
(***************************************************************************)

\* An order is placed.
LEMMA Placed ==
  ASSUME ShelfSound, NEW o \in Orders, NEW user \in Users, NEW s \in SKUs,
         NEW quantity \in 1..MaxQuantity, NEW u \in UserCoupons \cup {NoCoupon},
         Place(o, user, s, quantity, u)
  PROVE  ShelfSound'
<1>1. /\ sku[s].row = "live" /\ sku[s].stock >= quantity /\ ChangeStock(s, -quantity)
      /\ UNCHANGED <<category, product, staff, overtaken, edits>>
  BY DEF Place, ForSale, DecreaseSKUStock, Live
<1>2. PICK row : row = [status |-> "pending", sku |-> s, quantity |-> quantity,
                        coupon |-> u]
  OBVIOUS
<1>3. row \in OrderRows /\ row.sku = s /\ row.coupon = u
  BY <1>2 DEF OrderRows
<1>4. order \in [Orders -> OrderRows \cup {NoOrder}] /\ sku[s].stock \in Nat
  BY DEF ShelfSound, UnitsSound, CatalogueTypeOK, SKURows
<1>5. /\ order' \in [Orders -> OrderRows \cup {NoOrder}] /\ order'[o] = row
      /\ \A x \in Orders : x # o => order'[x] = order[x]
  BY <1>2, <1>3, <1>4 DEF Place
<1>6. -quantity \in Int /\ sku[s].stock + (-quantity) \in Nat
  BY <1>1, <1>4
<1>7. UnitsSound'
  BY <1>1, <1>3, <1>5, <1>6, StockChanged DEF ShelfSound
<1>8. /\ CouponsSound' /\ ClaimsStay
      /\ u # NoCoupon => userCoupon[u] # NoClaim
  BY UsedOne, CouponsStay DEF Place, ShelfSound
<1>9. OrdersUseClaims'
  <2>1. ASSUME NEW x \in Orders, order'[x] # NoOrder, order'[x].coupon # NoCoupon
        PROVE  userCoupon'[order'[x].coupon] # NoClaim
    <3>1. CASE x = o
      BY <1>3, <1>5, <1>8, <2>1, <3>1 DEF ClaimsStay
    <3>2. CASE x # o
      <4>1. /\ order[x] # NoOrder /\ order[x].coupon \in UserCoupons
            /\ order'[x] = order[x]
        BY <1>4, <1>5, <2>1, <3>2 DEF OrderRows
      <4> QED
        BY <1>8, <2>1, <4>1 DEF ShelfSound, OrdersUseClaims, ClaimsStay
    <3> QED
      BY <3>1, <3>2
  <2> QED
    BY <2>1 DEF OrdersUseClaims
<1> QED
  BY <1>1, <1>7, <1>8, <1>9 DEF ShelfSound

\* An order is cancelled: its SKU may have been deleted, but it is there.
LEMMA Cancelled ==
  ASSUME ShelfSound, NEW o \in Orders, Cancel(o)
  PROVE  ShelfSound'
<1>1. order \in [Orders -> OrderRows \cup {NoOrder}]
  BY DEF ShelfSound, UnitsSound
<1>2. PICK old \in OrderRows : old = order[o]
  BY <1>1 DEF Cancel
<1>3. /\ old.sku \in SKUs /\ old.quantity \in 1..MaxQuantity
      /\ old.coupon \in UserCoupons \cup {NoCoupon}
  BY DEF OrderRows
<1>4. /\ order[o] # NoOrder /\ ChangeStock(old.sku, old.quantity)
      /\ IF old.coupon = NoCoupon THEN UNCHANGED coupons ELSE Release(old.coupon)
      /\ order' = [order EXCEPT ![o].status = "cancelled"]
      /\ UNCHANGED <<category, product, staff, overtaken, edits>>
  BY <1>2 DEF Cancel, IncreaseSKUStock
<1>5. PICK row : row = [old EXCEPT !.status = "cancelled"]
  OBVIOUS
<1>6. row \in OrderRows /\ row.sku = old.sku /\ row.coupon = old.coupon
  BY <1>5 DEF OrderRows
<1>7. /\ order' \in [Orders -> OrderRows \cup {NoOrder}] /\ order'[o] = row
      /\ \A x \in Orders : x # o => order'[x] = order[x]
  BY <1>1, <1>2, <1>4, <1>5, <1>6
<1>8. sku[old.sku].row # "absent" /\ sku[old.sku].stock \in Nat
  BY <1>2, <1>3, <1>4 DEF ShelfSound, UnitsSound, AbsentUnsold, CatalogueTypeOK, SKURows
<1>9. old.quantity \in Int /\ sku[old.sku].stock + old.quantity \in Nat
  BY <1>3, <1>8
<1>10. \A x \in Orders : order'[x] # NoOrder =>
         \/ order'[x].sku = old.sku
         \/ order[x] # NoOrder /\ order'[x].sku = order[x].sku
  BY <1>6, <1>7
<1>11. UnitsSound'
  BY <1>3, <1>4, <1>7, <1>8, <1>9, <1>10, StockChanged DEF ShelfSound
<1>12. old.coupon # NoCoupon => old.coupon \in UserCoupons /\ userCoupon[old.coupon] # NoClaim
  BY <1>2, <1>3, <1>4 DEF ShelfSound, OrdersUseClaims
<1>13. CouponsSound' /\ ClaimsStay
  BY <1>4, <1>12, ReleasedOne, CouponsStay DEF ShelfSound
<1>14. OrdersUseClaims'
  <2>1. ASSUME NEW x \in Orders, order'[x] # NoOrder, order'[x].coupon # NoCoupon
        PROVE  userCoupon'[order'[x].coupon] # NoClaim
    <3>1. /\ order[x] # NoOrder /\ order'[x].coupon = order[x].coupon
          /\ order[x].coupon \in UserCoupons
      BY <1>1, <1>2, <1>3, <1>4, <1>6, <1>7, <2>1 DEF OrderRows
    <3> QED
      BY <1>13, <2>1, <3>1 DEF ShelfSound, OrdersUseClaims, ClaimsStay
  <2> QED
    BY <2>1 DEF OrdersUseClaims
<1> QED
  BY <1>4, <1>11, <1>13, <1>14 DEF ShelfSound

\* The staff set the stock of a SKU.
LEMMA Adjusted ==
  ASSUME ShelfSound, NEW s \in SKUs, NEW stock \in Stocks, AdjustStock(s, stock),
         UNCHANGED order
  PROVE  UnitsSound'
<1>1. /\ ChangeStock(s, stock - sku[s].stock) /\ sku[s].row = "live"
      /\ UNCHANGED <<category, product, staff, overtaken>>
  BY DEF AdjustStock, UpdateSKUStock, FindSKU, Live
<1>2. /\ sku[s].stock \in Nat /\ stock \in Nat
      /\ order' \in [Orders -> OrderRows \cup {NoOrder}]
  BY CatalogueAssumption
  DEF CatalogueAssumption, ShelfSound, UnitsSound, CatalogueTypeOK, SKURows
<1>3. stock - sku[s].stock \in Int /\ sku[s].stock + (stock - sku[s].stock) \in Nat
  BY <1>2
<1> QED
  BY <1>1, <1>2, <1>3, StockChanged DEF ShelfSound

\* The staff begin, and finish.
LEMMA StaffBegan ==
  ASSUME ShelfSound, Edit, StaffEdit
  PROVE  ShelfSound'
<1>1. UNCHANGED order /\ edits' \in 0..MaxEdits
  BY ShelfAssumption DEF ShelfSound, Edit, ShelfAssumption
<1>2. CASE /\ \/ \E w \in Staff : StartRequest(w)
              \/ \E s \in SKUs, stock \in Stocks : AdjustStock(s, stock)
           /\ UNCHANGED coupons
  <2>1. UnitsSound'
    BY <1>1, <1>2, StartedRequest, Adjusted DEF ShelfSound
  <2>2. CouponsSound' /\ ClaimsStay
    BY <1>2, CouponsStay DEF ShelfSound
  <2> QED
    BY <1>1, <2>1, <2>2, ClaimsStillUsed DEF ShelfSound, UnitsSound
<1>3. CASE /\ \E k \in CouponIds, form \in CouponRequests :
                MerchantCreate(k, form) \/ MerchantUpdate(k, form)
           /\ UNCHANGED catalogue
  <2>1. UnitsSound'
    BY <1>1, <1>3, UnitsStay DEF ShelfSound
  <2>2. CouponsSound' /\ ClaimsStay
    BY <1>3, Created, EditBegun DEF ShelfSound
  <2> QED
    BY <1>1, <2>1, <2>2, ClaimsStillUsed DEF ShelfSound, UnitsSound
<1> QED
  BY <1>2, <1>3 DEF StaffEdit

\* A request of staff that writes, saves or gives up keeps the invariant.
LEMMA StaffFinished ==
  ASSUME ShelfSound, StaffFinish, UNCHANGED <<order, edits>>
  PROVE  ShelfSound'
<1>1. CASE (\E w \in Staff : Write(w) \/ Abandon(w)) /\ UNCHANGED coupons
  <2>1. UnitsSound'
    BY <1>1, WrittenRequest, Abandoned DEF ShelfSound
  <2>2. CouponsSound' /\ ClaimsStay
    BY <1>1, CouponsStay DEF ShelfSound
  <2> QED
    BY <2>1, <2>2, ClaimsStillUsed DEF ShelfSound, UnitsSound
<1>2. CASE (\E k \in CouponIds : Save(k) \/ AbandonEdit(k)) /\ UNCHANGED catalogue
  <2>1. UnitsSound'
    BY <1>2, UnitsStay DEF ShelfSound
  <2>2. CouponsSound' /\ ClaimsStay
    BY <1>2, Saved, EditAbandoned DEF ShelfSound
  <2> QED
    BY <2>1, <2>2, ClaimsStillUsed DEF ShelfSound, UnitsSound
<1> QED
  BY <1>1, <1>2 DEF StaffFinish

\* Buyers claim, and look at what they have.
LEMMA BuyersWithCoupons ==
  ASSUME ShelfSound, BuyerWithCoupons, UNCHANGED <<catalogue, order, edits>>
  PROVE  ShelfSound'
<1>1. UnitsSound'
  BY UnitsStay DEF ShelfSound
<1>2. CouponsSound' /\ ClaimsStay
  BY Claimed, Expired, CouponsStay DEF BuyerWithCoupons, ShelfSound
<1> QED
  BY <1>1, <1>2, ClaimsStillUsed DEF ShelfSound, UnitsSound

\* Every shop the system may start with has the invariant.
LEMMA ShelfStarts == ShelfInit => ShelfSound
<1> SUFFICES ASSUME ShelfInit PROVE ShelfSound
  OBVIOUS
<1>1. PICK shop \in Shops :
        /\ category = shop.category /\ product = shop.product /\ sku = shop.sku
        /\ logged = [s \in SKUs |-> shop.sku[s].stock]
  BY DEF ShelfInit
<1>2. /\ category \in [Categories -> CategoryRows] /\ product \in [Products -> ProductRows]
      /\ sku \in [SKUs -> SKURows]
      /\ \A s \in SKUs : sku[s].row = "absent" => sku[s].stock = 0
  BY <1>1, ShelfAssumption DEF ShelfAssumption
<1>3. logged \in [SKUs -> Int] /\ StockLogged
  BY <1>1, <1>2 DEF SKURows, StockLogged
<1>4. CatalogueTypeOK /\ AbsentUnsold /\ \A w \in Staff : WriteFits(w)
  BY <1>2, <1>3 DEF ShelfInit, CatalogueTypeOK, AbsentUnsold, WriteFits
<1>5. UnitsSound
  BY <1>3, <1>4 DEF ShelfInit, UnitsSound
<1>6. CouponsTypeOK
  BY CouponsAssumption DEF ShelfInit, CouponsTypeOK, CouponsAssumption
<1>7. CouponsSound
  BY <1>6 DEF ShelfInit, CouponsSound, EditFits, ClaimsOfCoupons, CouponsHonoured, Issued
<1>8. OrdersUseClaims /\ edits \in 0..MaxEdits
  BY ShelfAssumption DEF ShelfInit, OrdersUseClaims, ShelfAssumption
<1> QED
  BY <1>5, <1>7, <1>8 DEF ShelfSound

\* Every step keeps the invariant.
LEMMA ShelfGoesOn == ShelfSound /\ [ShelfNext]_shelf => ShelfSound'
<1> SUFFICES ASSUME ShelfSound, [ShelfNext]_shelf PROVE ShelfSound'
  OBVIOUS
<1>1. CASE UNCHANGED shelf
  <2>1. UNCHANGED <<catalogue, order, edits>> /\ UNCHANGED coupons
    BY <1>1 DEF shelf
  <2>2. UnitsSound'
    BY <2>1, UnitsStay DEF ShelfSound
  <2>3. CouponsSound' /\ ClaimsStay
    BY <2>1, CouponsStay DEF ShelfSound
  <2> QED
    BY <2>1, <2>2, <2>3, ClaimsStillUsed DEF ShelfSound, UnitsSound
<1>2. CASE ShelfNext
  BY <1>2, StaffBegan, StaffFinished, BuyersWithCoupons, Placed, Cancelled DEF ShelfNext
<1> QED
  BY <1>1, <1>2

\* What a request is about to write fits the rows, what an edit will save fits
\* the coupon, and with that the counters stay exact.
THEOREM ShelfInvariance == ShelfSpec => []ShelfSound
BY ShelfStarts, ShelfGoesOn, PTL DEF ShelfSpec

\* Rows, requests and edits have the shape the code gives them.
THEOREM ShelfTypeCorrect == ShelfSpec => []ShelfTypeOK
<1>1. ShelfSound => ShelfTypeOK
  BY DEF ShelfSound, UnitsSound, CouponsSound, ShelfTypeOK
<1> QED
  BY <1>1, ShelfInvariance, PTL

\* The inventory log explains the stock to the unit, coupons are counted, and
\* what was promised to those who claimed them holds, however many requests,
\* edits, claims, orders and cancellations cross.
THEOREM CountersAlwaysExact == ShelfSpec => []CountersExact
<1>1. ShelfSound => CountersExact
  BY DEF ShelfSound, UnitsSound, CouponsSound, CountersExact
<1> QED
  BY <1>1, ShelfInvariance, PTL

-----------------------------------------------------------------------------
(***************************************************************************)
(* The catalogue: the categories as a tree.                                *)
(***************************************************************************)

Tables == [Categories -> CategoryRows]

\* Where the parents of a category lead to in a table.
LeadsUp(table, above) ==
  \A e \in above : table[e].parent \in above \cup {Root}

Above(table, c) ==
  {d \in Categories :
     \A above \in SUBSET Categories :
       c \in above /\ LeadsUp(table, above) => d \in above}

\* They lead through rows that are there to one without a parent.
Grounded(table, c) ==
  /\ Above(table, c) \subseteq Live(table)
  /\ \E d \in Above(table, c) : table[d].parent = Root

\* The categories the code walks through are those above a category.
LEMMA UpwardIsAbove ==
  /\ \A c : Upward(c) = Above(category, c)
  /\ \A c : Upward(c)' = Above(category', c)
BY DEF Upward, Above, LeadsUp

\* It is the least set that leads up from the category.
LEMMA AboveLeast ==
  ASSUME NEW table \in Tables, NEW c \in Categories
  PROVE  /\ Above(table, c) \subseteq Categories /\ c \in Above(table, c)
         /\ LeadsUp(table, Above(table, c))
         /\ \A above \in SUBSET Categories :
              c \in above /\ LeadsUp(table, above) => Above(table, c) \subseteq above
<1>1. Above(table, c) \subseteq Categories /\ c \in Above(table, c)
  BY DEF Above
<1>2. ASSUME NEW e \in Above(table, c), table[e].parent # Root
      PROVE  table[e].parent \in Above(table, c)
  <2>1. table[e].parent \in Categories
    BY <1>1, <1>2 DEF Tables, CategoryRows
  <2>2. ASSUME NEW above \in SUBSET Categories, c \in above, LeadsUp(table, above)
        PROVE  table[e].parent \in above
    BY <1>2, <2>2 DEF Above, LeadsUp
  <2> QED
    BY <2>1, <2>2 DEF Above
<1>3. LeadsUp(table, Above(table, c))
  BY <1>2 DEF LeadsUp
<1> QED
  BY <1>1, <1>3 DEF Above

\* It depends on the rows that it goes through only.
LEMMA AboveStays ==
  ASSUME NEW old \in Tables, NEW new \in Tables, NEW c \in Categories,
         \A e \in Above(old, c) : new[e].parent = old[e].parent
  PROVE  Above(new, c) = Above(old, c)
<1>1. Above(new, c) \subseteq Above(old, c)
  <2>1. LeadsUp(new, Above(old, c))
    BY AboveLeast DEF LeadsUp
  <2> QED
    BY <2>1, AboveLeast
<1>2. Above(old, c) \subseteq Above(new, c)
  <2>1. LeadsUp(old, Above(new, c))
    BY <1>1, AboveLeast DEF LeadsUp
  <2> QED
    BY <2>1, AboveLeast
<1> QED
  BY <1>1, <1>2

\* From a category it goes to the parent, and on from there.
LEMMA AboveParent ==
  ASSUME NEW table \in Tables, NEW c \in Categories
  PROVE  /\ table[c].parent = Root => Above(table, c) = {c}
         /\ table[c].parent \in Categories =>
              Above(table, c) = {c} \cup Above(table, table[c].parent)
<1>1. ASSUME table[c].parent = Root PROVE Above(table, c) = {c}
  <2>1. LeadsUp(table, {c}) /\ {c} \in SUBSET Categories
    BY <1>1 DEF LeadsUp
  <2> QED
    BY <2>1, AboveLeast
<1>2. ASSUME table[c].parent \in Categories
      PROVE  Above(table, c) = {c} \cup Above(table, table[c].parent)
  <2> DEFINE parent == table[c].parent
  <2>1. /\ Above(table, parent) \subseteq Categories /\ parent \in Above(table, parent)
        /\ LeadsUp(table, Above(table, parent))
    BY <1>2, AboveLeast
  <2>2. LeadsUp(table, {c} \cup Above(table, parent))
    BY <2>1 DEF LeadsUp
  <2>3. Above(table, c) \subseteq {c} \cup Above(table, parent)
    BY <2>1, <2>2, AboveLeast
  <2>4. parent \in Above(table, c)
    <3>1. c \in Above(table, c) /\ LeadsUp(table, Above(table, c))
      BY AboveLeast
    <3>2. parent # Root
      BY <1>2, CatalogueAssumption DEF CatalogueAssumption
    <3> QED
      BY <3>1, <3>2 DEF LeadsUp
  <2>5. Above(table, parent) \subseteq Above(table, c)
    BY <1>2, <2>4, AboveLeast
  <2> QED
    BY <2>3, <2>5, AboveLeast
<1> QED
  BY <1>1, <1>2

\* A category that gets another parent takes along what is below it.
LEMMA Reattached ==
  ASSUME NEW old \in Tables, NEW new \in Tables, NEW c \in Categories,
         \A e \in Categories \ {c} : new[e].parent = old[e].parent,
         NEW d \in Categories, c \in Above(old, d)
  PROVE  /\ Above(new, d) \subseteq Above(old, d) \cup Above(new, c)
         /\ Above(new, c) \subseteq Above(new, d)
<1>1. /\ Above(old, d) \subseteq Categories /\ d \in Above(old, d)
      /\ LeadsUp(old, Above(old, d))
      /\ Above(new, c) \subseteq Categories /\ c \in Above(new, c)
      /\ LeadsUp(new, Above(new, c))
      /\ Above(new, d) \subseteq Categories /\ d \in Above(new, d)
      /\ LeadsUp(new, Above(new, d))
  BY AboveLeast
<1>2. LeadsUp(new, Above(old, d) \cup Above(new, c))
  BY <1>1 DEF LeadsUp
<1>3. Above(new, d) \subseteq Above(old, d) \cup Above(new, c)
  BY <1>1, <1>2, AboveLeast
<1>4. c \in Above(new, d)
  <2>1. SUFFICES ASSUME c \notin Above(new, d) PROVE FALSE
    OBVIOUS
  <2>2. LeadsUp(old, Above(new, d))
    BY <1>1, <2>1 DEF LeadsUp
  <2>3. Above(old, d) \subseteq Above(new, d)
    BY <1>1, <2>2, AboveLeast
  <2> QED
    BY <2>1, <2>3
<1> QED
  BY <1>1, <1>3, <1>4, AboveLeast

\* The tree stays a tree when a category is put below one that is grounded and
\* does not lead through it.
LEMMA TreeAttached ==
  ASSUME NEW old \in Tables, NEW new \in Tables, NEW c \in Categories,
         \A e \in Categories \ {c} : new[e] = old[e],
         new[c].row = "live",
         \A d \in Live(old) : Grounded(old, d),
         \/ new[c].parent = Root
         \/ /\ new[c].parent \in Categories \ {c}
            /\ Above(old, new[c].parent) \subseteq Live(old) \ {c}
            /\ \E d \in Above(old, new[c].parent) : old[d].parent = Root
  PROVE  \A d \in Live(new) : Grounded(new, d)
<1>1. /\ Live(old) \subseteq Categories /\ Live(new) \subseteq Categories
      /\ Live(old) \subseteq Live(new) /\ c \in Live(new)
      /\ Live(new) \subseteq Live(old) \cup {c}
  BY DEF Live, Tables
<1>2. Grounded(new, c)
  <2>1. CASE new[c].parent = Root
    <3>1. Above(new, c) = {c}
      BY <2>1, AboveParent
    <3> QED
      BY <1>1, <2>1, <3>1 DEF Grounded
  <2>2. CASE /\ new[c].parent \in Categories \ {c}
             /\ Above(old, new[c].parent) \subseteq Live(old) \ {c}
             /\ \E d \in Above(old, new[c].parent) : old[d].parent = Root
    <3>1. Above(new, new[c].parent) = Above(old, new[c].parent)
      BY <1>1, <2>2, AboveStays
    <3>2. Above(new, c) = {c} \cup Above(old, new[c].parent)
      BY <2>2, <3>1, AboveParent
    <3> QED
      BY <1>1, <2>2, <3>2 DEF Grounded
  <2> QED
    BY <2>1, <2>2
<1>3. ASSUME NEW d \in Live(new), d # c PROVE Grounded(new, d)
  <2>1. /\ d \in Live(old) /\ d \in Categories /\ Grounded(old, d)
        /\ Above(old, d) \subseteq Live(old)
    BY <1>1, <1>3 DEF Grounded
  <2>2. CASE c \notin Above(old, d)
    <3>1. Above(new, d) = Above(old, d)
      BY <1>1, <2>1, <2>2, AboveStays
    <3> QED
      BY <1>1, <2>1, <2>2, <3>1 DEF Grounded
  <2>3. CASE c \in Above(old, d)
    <3>1. /\ Above(new, d) \subseteq Above(old, d) \cup Above(new, c)
          /\ Above(new, c) \subseteq Above(new, d)
      BY <2>1, <2>3, Reattached
    <3> QED
      BY <1>1, <1>2, <2>1, <3>1 DEF Grounded
  <2> QED
    BY <2>2, <2>3
<1> QED
  BY <1>2, <1>3

\* So it does when a category without children goes.
LEMMA TreeCut ==
  ASSUME NEW old \in Tables, NEW new \in Tables, NEW c \in Categories,
         \A e \in Categories \ {c} : new[e] = old[e],
         new[c].row # "live",
         \A d \in Live(old) : Grounded(old, d),
         \A d \in Live(old) : old[d].parent # c
  PROVE  \A d \in Live(new) : Grounded(new, d)
<1>1. ASSUME NEW d \in Live(new) PROVE Grounded(new, d)
  <2>1. /\ d \in Categories \ {c} /\ d \in Live(old) /\ Grounded(old, d)
        /\ Above(old, d) \subseteq Live(old) /\ Live(old) \subseteq Categories
        /\ Live(old) \ {c} \subseteq Live(new)
    BY DEF Live, Tables, Grounded
  <2>2. c \notin Above(old, d)
    <3>1. d \in Above(old, d) /\ LeadsUp(old, Above(old, d))
      BY <2>1, AboveLeast
    <3>2. LeadsUp(old, Above(old, d) \ {c})
      BY <2>1, <3>1 DEF LeadsUp
    <3>3. Above(old, d) \subseteq Above(old, d) \ {c}
      BY <2>1, <3>1, <3>2, AboveLeast
    <3> QED
      BY <3>3
  <2>3. Above(new, d) = Above(old, d)
    BY <2>1, <2>2, AboveStays
  <2> QED
    BY <2>1, <2>2, <2>3 DEF Grounded
<1> QED
  BY <1>1

-----------------------------------------------------------------------------
(***************************************************************************)
(* The catalogue: what requests write.                                     *)
(***************************************************************************)

\* The part of the catalogue's soundness that is about the rows.
RowsSound ==
  /\ \A p \in Live(product) :
       /\ product[p].category \in Live(category)
       /\ product[p].status = "onSale" =>
            category[product[p].category].enabled /\ EnabledSKUs(p) # {}
  /\ \A s \in Live(sku) : ProductOf[s] \in Live(product)

\* The catalogue is sound when its rows are and every category is grounded.
LEMMA SoundInParts ==
  /\ CatalogueSound <=> RowsSound /\ \A c \in Live(category) : Grounded(category, c)
  /\ CatalogueSound' <=>
       RowsSound' /\ \A c \in Live(category') : Grounded(category', c)
<1>1. CatalogueSound <=> RowsSound /\ \A c \in Live(category) : Grounded(category, c)
  BY UpwardIsAbove DEF CatalogueSound, LastSKUStays, RowsSound, Grounded
<1>2. CatalogueSound' <=>
        RowsSound' /\ \A c \in Live(category') : Grounded(category', c)
  BY UpwardIsAbove DEF CatalogueSound, LastSKUStays, RowsSound, Grounded, Live
<1> QED
  BY <1>1, <1>2

\* A category is inserted, or its parent and its switch are written.
LEMMA CategoryPut ==
  ASSUME CatalogueSound, category \in Tables, category' \in Tables,
         NEW c \in Categories, UNCHANGED <<product, sku>>,
         \A e \in Categories \ {c} : category'[e] = category[e],
         category'[c].row = "live",
         validateCategoryParent(c, category'[c].parent),
         c \in Live(category) =>
           \/ category'[c].enabled \/ ~category[c].enabled
           \/ \A p \in ProductsByCategory(c) : product[p].status # "onSale"
  PROVE  CatalogueSound'
<1>1. RowsSound /\ \A d \in Live(category) : Grounded(category, d)
  BY SoundInParts
<1>2. \A d \in Live(category') : Grounded(category', d)
  BY <1>1, TreeAttached, UpwardIsAbove DEF validateCategoryParent
<1>3. /\ Live(category) \subseteq Live(category')
      /\ Live(category) \subseteq Categories
  BY DEF Live, Tables
<1>4. ASSUME NEW p \in Live(product)
      PROVE  /\ product[p].category \in Live(category')
             /\ product[p].status = "onSale" => category'[product[p].category].enabled
  <2>1. /\ product[p].category \in Live(category)
        /\ product[p].status = "onSale" => category[product[p].category].enabled
    BY <1>1 DEF RowsSound
  <2>2. product[p].category = c => p \in ProductsByCategory(c)
    BY DEF ProductsByCategory
  <2> QED
    BY <1>3, <2>1, <2>2
<1>5. RowsSound'
  BY <1>1, <1>4 DEF RowsSound, EnabledSKUs, Live
<1> QED
  BY <1>2, <1>5, SoundInParts

\* A category without children and products goes.
LEMMA CategoryGone ==
  ASSUME CatalogueSound, category \in Tables, category' \in Tables,
         NEW c \in Categories, UNCHANGED <<product, sku>>,
         \A e \in Categories \ {c} : category'[e] = category[e],
         category'[c].row = "deleted",
         ChildCategories(c) = {}, ProductsByCategory(c) = {}
  PROVE  CatalogueSound'
<1>1. RowsSound /\ \A d \in Live(category) : Grounded(category, d)
  BY SoundInParts
<1>2. \A d \in Live(category') : Grounded(category', d)
  BY <1>1, TreeCut DEF ChildCategories
<1>3. Live(category') = Live(category) \ {c} /\ Live(category) \subseteq Categories
  BY DEF Live, Tables
<1>4. ASSUME NEW p \in Live(product)
      PROVE  /\ product[p].category \in Live(category')
             /\ product[p].status = "onSale" => category'[product[p].category].enabled
  <2>1. /\ product[p].category \in Live(category)
        /\ product[p].status = "onSale" => category[product[p].category].enabled
    BY <1>1 DEF RowsSound
  <2>2. product[p].category # c
    BY DEF ProductsByCategory
  <2> QED
    BY <1>3, <2>1, <2>2
<1>5. RowsSound'
  BY <1>1, <1>4 DEF RowsSound, EnabledSKUs, Live
<1> QED
  BY <1>2, <1>5, SoundInParts

\* A product is inserted or written.
LEMMA ProductPut ==
  ASSUME CatalogueSound, product \in [Products -> ProductRows],
         product' \in [Products -> ProductRows],
         NEW p \in Products, UNCHANGED <<category, sku>>,
         \A q \in Products \ {p} : product'[q] = product[q],
         product'[p].row = "live", product'[p].category \in Live(category),
         product'[p].status = "onSale" =>
           category[product'[p].category].enabled /\ EnabledSKUs(p) # {}
  PROVE  CatalogueSound'
<1>1. RowsSound /\ \A d \in Live(category) : Grounded(category, d)
  BY SoundInParts
<1>2. Live(product') = Live(product) \cup {p} /\ Live(product) \subseteq Products
  BY DEF Live
<1>3. \A q : EnabledSKUs(q)' = EnabledSKUs(q)
  BY DEF EnabledSKUs, Live
<1>4. RowsSound'
  BY <1>1, <1>2, <1>3 DEF RowsSound, Live
<1> QED
  BY <1>1, <1>4, SoundInParts

\* A product goes, and its SKUs with it.
LEMMA ProductGone ==
  ASSUME CatalogueSound, product \in [Products -> ProductRows],
         product' \in [Products -> ProductRows],
         sku \in [SKUs -> SKURows], sku' \in [SKUs -> SKURows],
         NEW p \in Products, UNCHANGED category,
         \A q \in Products \ {p} : product'[q] = product[q],
         product'[p].row = "deleted",
         \A s \in SKUs : IF ProductOf[s] = p THEN sku'[s].row # "live"
                         ELSE sku'[s] = sku[s]
  PROVE  CatalogueSound'
<1>1. RowsSound /\ \A d \in Live(category) : Grounded(category, d)
  BY SoundInParts
<1>2. Live(product') = Live(product) \ {p} /\ Live(product) \subseteq Products
  BY DEF Live
<1>3. /\ Live(sku') = {s \in Live(sku) : ProductOf[s] # p}
      /\ Live(sku) \subseteq SKUs
  BY DEF Live
<1>4. \A q : q # p => EnabledSKUs(q)' = EnabledSKUs(q)
  BY <1>3 DEF EnabledSKUs
<1>5. RowsSound'
  BY <1>1, <1>2, <1>3, <1>4 DEF RowsSound
<1> QED
  BY <1>1, <1>5, SoundInParts

\* A SKU is inserted or written, or goes, and leaves something to buy.
LEMMA SKUPut ==
  ASSUME CatalogueSound, sku \in [SKUs -> SKURows], sku' \in [SKUs -> SKURows],
         NEW s \in SKUs, UNCHANGED <<category, product>>,
         \A t \in SKUs \ {s} : sku'[t] = sku[t],
         ProductOf[s] \in Live(product),
         product[ProductOf[s]].status = "onSale" =>
           \/ sku'[s].row = "live" /\ sku'[s].enabled
           \/ EnabledSKUs(ProductOf[s]) \ {s} # {}
           \/ ~(sku[s].row = "live" /\ sku[s].enabled)
  PROVE  CatalogueSound'
<1>1. RowsSound /\ \A d \in Live(category) : Grounded(category, d)
  BY SoundInParts
<1>2. /\ Live(sku) \subseteq SKUs /\ Live(sku') \subseteq SKUs
      /\ Live(sku') \subseteq Live(sku) \cup {s}
      /\ Live(sku) \ {s} \subseteq Live(sku')
      /\ s \in Live(sku') <=> sku'[s].row = "live"
      /\ s \in Live(sku) <=> sku[s].row = "live"
  BY DEF Live
<1>3. ASSUME NEW p \in Live(product), product[p].status = "onSale"
      PROVE  EnabledSKUs(p)' # {}
  <2>1. PICK t \in EnabledSKUs(p) : TRUE
    BY <1>1, <1>3 DEF RowsSound
  <2>2. ASSUME NEW x \in EnabledSKUs(p) \ {s} PROVE x \in EnabledSKUs(p)'
    BY <1>2, <2>2 DEF EnabledSKUs
  <2>3. CASE t = s
    <3>1. ProductOf[s] = p /\ sku[s].row = "live" /\ sku[s].enabled
      BY <1>2, <2>1, <2>3 DEF EnabledSKUs
    <3>2. CASE sku'[s].row = "live" /\ sku'[s].enabled
      BY <1>2, <3>1, <3>2 DEF EnabledSKUs
    <3>3. CASE EnabledSKUs(ProductOf[s]) \ {s} # {}
      BY <2>2, <3>1, <3>3
    <3> QED
      BY <1>3, <3>1, <3>2, <3>3
  <2>4. CASE t # s
    BY <2>1, <2>2, <2>4
  <2> QED
    BY <2>3, <2>4
<1>4. RowsSound'
  BY <1>1, <1>2, <1>3 DEF RowsSound, Live
<1> QED
  BY <1>1, <1>4, SoundInParts

-----------------------------------------------------------------------------
(***************************************************************************)
(* The catalogue: a request that no write has overtaken writes into what   *)
(* it has read.                                                            *)
(***************************************************************************)

CategoryHolds(r) ==
  /\ r.table = "category" /\ r.id \in Categories
  /\ \/ \E parent \in Categories \cup {Root}, on \in BOOLEAN :
          /\ r.set = [row |-> "live", parent |-> parent, enabled |-> on]
          /\ category[r.id].row = "absent"
          /\ validateCategoryParent(r.id, parent)
     \/ \E parent \in Categories \cup {Root}, on \in BOOLEAN :
          /\ r.set = [parent |-> parent, enabled |-> on]
          /\ category[r.id].row = "live"
          /\ validateCategoryParent(r.id, parent)
          /\ on \/ ~category[r.id].enabled
               \/ \A p \in ProductsByCategory(r.id) : product[p].status # "onSale"
     \/ /\ r.set = [row |-> "deleted"]
        /\ category[r.id].row = "live"
        /\ ChildCategories(r.id) = {} /\ ProductsByCategory(r.id) = {}

ProductHolds(r) ==
  /\ r.table = "product" /\ r.id \in Products
  /\ \/ \E c \in Categories, status \in ProductStates \ {"onSale"} :
          /\ r.set = [row |-> "live", category |-> c, status |-> status]
          /\ product[r.id].row = "absent" /\ c \in Live(category)
     \/ \E c \in Categories, status \in ProductStates :
          /\ r.set = [category |-> c, status |-> status]
          /\ product[r.id].row = "live" /\ ensureCategory(c)
          /\ \/ status = product[r.id].status
             \/ status = "onSale" => EnabledSKUs(r.id) # {}
     \/ \E status \in ProductStates :
          /\ r.set = [status |-> status]
          /\ product[r.id].row = "live"
          /\ status = "onSale" => /\ ensureCategory(product[r.id].category)
                                  /\ EnabledSKUs(r.id) # {}
     \/ r.set = [row |-> "deleted"] /\ product[r.id].row = "live"

SKUHolds(r) ==
  /\ r.table = "sku" /\ r.id \in SKUs /\ ProductOf[r.id] \in Live(product)
  /\ \/ \E on \in BOOLEAN, stock \in Stocks :
          /\ r.set = [row |-> "live", enabled |-> on, stock |-> stock]
          /\ sku[r.id].row = "absent"
     \/ \E on \in BOOLEAN, stock \in Stocks :
          /\ r.set = [enabled |-> on, stock |-> stock]
          /\ sku[r.id].row = "live" /\ (on \/ MayStopSelling(r.id))
     \/ /\ r.set = [row |-> "deleted"]
        /\ sku[r.id].row = "live" /\ MayStopSelling(r.id)

Waiting(w) ==
  staff[w] # NoRequest =>
    CategoryHolds(staff[w]) \/ ProductHolds(staff[w]) \/ SKUHolds(staff[w])

\* Requests that no write has overtaken wait with checks that still hold.
RequestsHold == \A w \in Staff \ overtaken : Waiting(w)

\* What a request reads of the tree stays while nobody writes.
LEMMA TreeStays ==
  ASSUME UNCHANGED <<category, product>>
  PROVE  /\ \A c : ChildCategories(c)' = ChildCategories(c)
         /\ \A c : ProductsByCategory(c)' = ProductsByCategory(c)
         /\ \A c, parent :
              validateCategoryParent(c, parent)' <=> validateCategoryParent(c, parent)
<1>1. Live(category)' = Live(category) /\ Live(product)' = Live(product)
  BY DEF Live
<1>2. \A c : Upward(c)' = Upward(c)
  BY UpwardIsAbove
<1>3. \A c, parent :
        validateCategoryParent(c, parent)' <=> validateCategoryParent(c, parent)
  BY <1>1, <1>2 DEF validateCategoryParent
<1> QED
  BY <1>1, <1>3 DEF ChildCategories, ProductsByCategory

\* What a request on a category has checked stays so while the tree does.
LEMMA CategoryHeld ==
  ASSUME UNCHANGED <<category, product>>, NEW r, CategoryHolds(r)
  PROVE  CategoryHolds(r)'
BY TreeStays DEF CategoryHolds

\* A stock is no part of it.
LEMMA StockAside ==
  ASSUME UNCHANGED <<category, product>>,
         sku \in [SKUs -> SKURows], sku' \in [SKUs -> SKURows],
         \A s \in SKUs : sku'[s].row = sku[s].row /\ sku'[s].enabled = sku[s].enabled
  PROVE  /\ CatalogueSound => CatalogueSound'
         /\ \A w : staff'[w] = staff[w] /\ Waiting(w) => Waiting(w)'
<1>1. Live(sku)' = Live(sku) /\ Live(sku) \subseteq SKUs
  BY DEF Live
<1>2. \A p : EnabledSKUs(p)' = EnabledSKUs(p)
  BY <1>1 DEF EnabledSKUs
<1>3. ASSUME CatalogueSound PROVE CatalogueSound'
  <2>1. RowsSound'
    BY <1>1, <1>2, <1>3, SoundInParts DEF RowsSound
  <2> QED
    BY <1>3, <2>1, SoundInParts
<1>4. \A s \in SKUs : MayStopSelling(s)' <=> MayStopSelling(s)
  BY <1>2 DEF MayStopSelling
<1>5. ASSUME NEW w, staff'[w] = staff[w], Waiting(w) PROVE Waiting(w)'
  <2>1. PICK r : r = staff[w]
    OBVIOUS
  <2>2. CategoryHolds(r) => CategoryHolds(r)'
    BY CategoryHeld
  <2>3. ProductHolds(r) => ProductHolds(r)'
    BY <1>2 DEF ProductHolds, ensureCategory, Live
  <2>4. SKUHolds(r) => SKUHolds(r)'
    BY <1>4 DEF SKUHolds, Live
  <2>5. staff'[w] = r
    BY <1>5, <2>1
  <2>6. /\ CategoryHolds(r)' => CategoryHolds(staff[w])'
        /\ ProductHolds(r)' => ProductHolds(staff[w])'
        /\ SKUHolds(r)' => SKUHolds(staff[w])'
    <3>1. CategoryHolds(r)' => CategoryHolds(staff[w])'
      BY <2>5 DEF CategoryHolds
    <3>2. ProductHolds(r)' => ProductHolds(staff[w])'
      BY <2>5 DEF ProductHolds
    <3>3. SKUHolds(r)' => SKUHolds(staff[w])'
      BY <2>5 DEF SKUHolds
    <3> QED
      BY <3>1, <3>2, <3>3
  <2> QED
    BY <1>5, <2>1, <2>2, <2>3, <2>4, <2>5, <2>6 DEF Waiting
<1> QED
  BY <1>3, <1>5

\* Nothing is written.
LEMMA NothingWritten ==
  ASSUME CatalogueTypeOK, UNCHANGED tables
  PROVE  /\ CatalogueSound => CatalogueSound'
         /\ \A w : staff'[w] = staff[w] /\ Waiting(w) => Waiting(w)'
<1>1. UNCHANGED <<category, product, sku>>
  BY DEF tables
<1> QED
  BY <1>1, StockAside DEF CatalogueTypeOK

\* Staff who enter stock and orders that take or return units leave the
\* catalogue as sound as it was, and do not disturb a request.
LEMMA StockChangedAside ==
  ASSUME RequestsHold, CatalogueTypeOK, CatalogueTypeOK',
         NEW s \in SKUs, NEW quantity, ChangeStock(s, quantity),
         UNCHANGED <<category, product, staff, overtaken>>
  PROVE  RequestsHold' /\ (CatalogueSound => CatalogueSound')
<1>1. sku \in [SKUs -> SKURows] /\ sku' = [sku EXCEPT ![s].stock = @ + quantity]
  BY DEF CatalogueTypeOK, ChangeStock
<1>2. ASSUME NEW t \in SKUs
      PROVE  sku'[t].row = sku[t].row /\ sku'[t].enabled = sku[t].enabled
  BY <1>1 DEF SKURows
<1>3. /\ CatalogueSound => CatalogueSound'
      /\ \A w : staff'[w] = staff[w] /\ Waiting(w) => Waiting(w)'
  BY <1>2, StockAside DEF CatalogueTypeOK
<1> QED
  BY <1>3 DEF RequestsHold

\* A request is under way with checks that hold, and nothing else has changed.
HasRead(w) ==
  /\ UNCHANGED <<tables, overtaken>>
  /\ Waiting(w)'
  /\ \A v \in Staff \ {w} : staff'[v] = staff[v]

\* A request starts with what it has just read.
LEMMA StartedWaiting ==
  ASSUME CatalogueTypeOK, NEW w \in Staff, StartRequest(w)
  PROVE  HasRead(w)
<1>1. staff \in [Staff -> Writes \cup {NoRequest}]
  BY DEF CatalogueTypeOK
<1>2. ASSUME NEW r, staff' = [staff EXCEPT ![w] = r], UNCHANGED <<tables, overtaken>>,
             CategoryHolds(r) \/ ProductHolds(r) \/ SKUHolds(r)
      PROVE  HasRead(w)
  <2>1. UNCHANGED <<category, product, sku>> /\ staff'[w] = r
    BY <1>1, <1>2 DEF tables
  <2>2. \A v \in Staff \ {w} : staff'[v] = staff[v]
    BY <1>1, <1>2
  <2>3. CategoryHolds(r) => CategoryHolds(staff[w])'
    <3>1. CategoryHolds(r) => CategoryHolds(r)'
      BY <2>1, CategoryHeld
    <3> QED
      BY <2>1, <3>1 DEF CategoryHolds
  <2>4. ProductHolds(r) => ProductHolds(staff[w])'
    BY <2>1 DEF ProductHolds, ensureCategory, EnabledSKUs, Live
  <2>5. SKUHolds(r) => SKUHolds(staff[w])'
    BY <2>1 DEF SKUHolds, MayStopSelling, EnabledSKUs, Live
  <2>6. Waiting(w)'
    BY <1>2, <2>3, <2>4, <2>5 DEF Waiting
  <2> QED
    BY <1>2, <2>2, <2>6 DEF HasRead
<1>3. ASSUME NEW table, NEW id, NEW set, NEW log, NEW holds,
             Reads(w, table, id, set, log, holds),
             \A r : r.table = table /\ r.id = id /\ r.set = set =>
                     CategoryHolds(r) \/ ProductHolds(r) \/ SKUHolds(r)
      PROVE  HasRead(w)
  <2>1. PICK r : r = [table |-> table, id |-> id, set |-> set, log |-> log,
                      holds |-> holds]
    OBVIOUS
  <2>2. r.table = table /\ r.id = id /\ r.set = set
    BY <2>1
  <2>3. staff' = [staff EXCEPT ![w] = r] /\ UNCHANGED <<tables, overtaken>>
    BY <1>3, <2>1 DEF Reads
  <2> QED
    BY <1>2, <1>3, <2>2, <2>3
<1>4. ASSUME NEW c \in Categories, NEW parent \in Categories \cup {Root}, NEW on \in BOOLEAN,
             CreateCategory(w, c, parent, on)
      PROVE  HasRead(w)
  <2> DEFINE set == [row |-> "live", parent |-> parent, enabled |-> on]
  <2>1. /\ category[c].row = "absent" /\ validateCategoryParent(c, parent)
        /\ Reads(w, "category", c, set, 0, FALSE)
    BY <1>4 DEF CreateCategory, ReadsOnly
  <2>2. \A r : r.table = "category" /\ r.id = c /\ r.set = set => CategoryHolds(r)
    BY <2>1 DEF CategoryHolds
  <2> HIDE DEF set
  <2> QED
    BY <1>3, <2>1, <2>2
<1>5. ASSUME NEW c \in Categories, NEW parent \in Categories \cup {Root}, NEW on \in BOOLEAN,
             UpdateCategory(w, c, parent, on)
      PROVE  HasRead(w)
  <2> DEFINE set == [parent |-> parent, enabled |-> on]
  <2>1. /\ category[c].row = "live" /\ validateCategoryParent(c, parent)
        /\ on \/ ~category[c].enabled
             \/ \A p \in ProductsByCategory(c) : product[p].status # "onSale"
        /\ Reads(w, "category", c, set, 0, FALSE)
    BY <1>5 DEF UpdateCategory, ReadsOnly, Live
  <2>2. \A r : r.table = "category" /\ r.id = c /\ r.set = set => CategoryHolds(r)
    BY <2>1 DEF CategoryHolds
  <2> HIDE DEF set
  <2> QED
    BY <1>3, <2>1, <2>2
<1>6. ASSUME NEW c \in Categories, DeleteCategory(w, c)
      PROVE  HasRead(w)
  <2> DEFINE set == [row |-> "deleted"]
  <2>1. /\ category[c].row = "live" /\ ChildCategories(c) = {} /\ ProductsByCategory(c) = {}
        /\ Reads(w, "category", c, set, 0, FALSE)
    BY <1>6 DEF DeleteCategory, ReadsOnly, Live
  <2>2. \A r : r.table = "category" /\ r.id = c /\ r.set = set => CategoryHolds(r)
    BY <2>1 DEF CategoryHolds
  <2> HIDE DEF set
  <2> QED
    BY <1>3, <2>1, <2>2
<1>7. ASSUME NEW p \in Products, NEW c \in Categories, NEW status \in ProductStates,
             CreateProduct(w, p, c, status)
      PROVE  HasRead(w)
  <2> DEFINE set == [row |-> "live", category |-> c, status |-> status]
  <2>1. /\ product[p].row = "absent" /\ c \in Live(category) /\ status # "onSale"
        /\ Reads(w, "product", p, set, 0, FALSE)
    BY <1>7 DEF CreateProduct, ReadsOnly, ensureCategory
  <2>2. \A r : r.table = "product" /\ r.id = p /\ r.set = set => ProductHolds(r)
    BY <2>1 DEF ProductHolds
  <2> HIDE DEF set
  <2> QED
    BY <1>3, <2>1, <2>2
<1>8. ASSUME NEW p \in Products, NEW c \in Categories, NEW status \in ProductStates,
             UpdateProduct(w, p, c, status)
      PROVE  HasRead(w)
  <2> DEFINE set == [category |-> c, status |-> status]
  <2>1. /\ product[p].row = "live" /\ p \in Live(product) /\ ensureCategory(c)
        /\ status = product[p].status \/ (status = "onSale" => EnabledSKUs(p) # {})
        /\ Reads(w, "product", p, set, 0, FALSE)
    BY <1>8 DEF UpdateProduct, ReadsOnly, ensureProductCanBeOnSale, Live
  <2>2. \A r : r.table = "product" /\ r.id = p /\ r.set = set => ProductHolds(r)
    BY <2>1 DEF ProductHolds
  <2> HIDE DEF set
  <2> QED
    BY <1>3, <2>1, <2>2
<1>9. ASSUME NEW p \in Products, OnSaleProduct(w, p) \/ OffSaleProduct(w, p)
      PROVE  HasRead(w)
  <2>1. PICK status \in {"onSale", "offSale"} :
          /\ product[p].row = "live"
          /\ status = "onSale" => /\ ensureCategory(product[p].category)
                                  /\ EnabledSKUs(p) # {}
          /\ Reads(w, "product", p, [status |-> status], 0, FALSE)
    BY <1>9 DEF OnSaleProduct, OffSaleProduct, ReadsOnly, ensureProductCanBeOnSale, Live
  <2>2. \A r : r.table = "product" /\ r.id = p /\ r.set = [status |-> status] => ProductHolds(r)
    BY <2>1 DEF ProductHolds, ProductStates
  <2> QED
    BY <1>3, <2>1, <2>2
<1>10. ASSUME NEW p \in Products, DeleteProduct(w, p)
       PROVE  HasRead(w)
  <2> DEFINE set == [row |-> "deleted"]
  <2>1. product[p].row = "live" /\ Reads(w, "product", p, set, 0, FALSE)
    BY <1>10 DEF DeleteProduct, ReadsOnly, Live
  <2>2. \A r : r.table = "product" /\ r.id = p /\ r.set = set => ProductHolds(r)
    BY <2>1 DEF ProductHolds
  <2> HIDE DEF set
  <2> QED
    BY <1>3, <2>1, <2>2
<1>11. ASSUME NEW s \in SKUs, NEW on \in BOOLEAN, NEW stock \in Stocks,
              CreateSKU(w, s, on, stock)
       PROVE  HasRead(w)
  <2> DEFINE set == [row |-> "live", enabled |-> on, stock |-> stock]
  <2>1. /\ sku[s].row = "absent" /\ ProductOf[s] \in Live(product)
        /\ Reads(w, "sku", s, set, stock, FALSE)
    BY <1>11 DEF CreateSKU
  <2>2. \A r : r.table = "sku" /\ r.id = s /\ r.set = set => SKUHolds(r)
    BY <2>1 DEF SKUHolds
  <2> HIDE DEF set
  <2> QED
    BY <1>3, <2>1, <2>2
<1>12. ASSUME NEW s \in SKUs, NEW on \in BOOLEAN, NEW stock \in Stocks,
              UpdateSKU(w, s, on, stock)
       PROVE  HasRead(w)
  <2> DEFINE set == [enabled |-> on, stock |-> stock]
  <2>1. PICK log : log = stock - sku[s].stock
    OBVIOUS
  <2>2. /\ sku[s].row = "live" /\ ProductOf[s] \in Live(product)
        /\ on \/ MayStopSelling(s)
        /\ Reads(w, "sku", s, set, log, TRUE)
    BY <1>12, <2>1 DEF UpdateSKU, Live
  <2>3. \A r : r.table = "sku" /\ r.id = s /\ r.set = set => SKUHolds(r)
    BY <2>2 DEF SKUHolds
  <2> HIDE DEF set
  <2> QED
    BY <1>3, <2>2, <2>3
<1>13. ASSUME NEW s \in SKUs, DeleteSKU(w, s)
       PROVE  HasRead(w)
  <2> DEFINE set == [row |-> "deleted"]
  <2>1. /\ sku[s].row = "live" /\ ProductOf[s] \in Live(product) /\ MayStopSelling(s)
        /\ Reads(w, "sku", s, set, 0, FALSE)
    BY <1>13 DEF DeleteSKU, ReadsOnly, Live
  <2>2. \A r : r.table = "sku" /\ r.id = s /\ r.set = set => SKUHolds(r)
    BY <2>1 DEF SKUHolds
  <2> HIDE DEF set
  <2> QED
    BY <1>3, <2>1, <2>2
<1> QED
  BY <1>4, <1>5, <1>6, <1>7, <1>8, <1>9, <1>10, <1>11, <1>12, <1>13 DEF StartRequest

\* What a row is after each kind of write.
LEMMA CategoryAfter ==
  ASSUME NEW old \in CategoryRows, old.row # "deleted", NEW set, NEW new,
         new = Updated(old, set)
  PROVE  /\ \A parent, on : set = [row |-> "live", parent |-> parent, enabled |-> on] =>
              new.row = "live" /\ new.parent = parent /\ new.enabled = on
         /\ \A parent, on : set = [parent |-> parent, enabled |-> on] =>
              new.row = old.row /\ new.parent = parent /\ new.enabled = on
         /\ set = [row |-> "deleted"] => new.row = "deleted"
<1>1. DOMAIN old = {"row", "parent", "enabled"}
  BY DEF CategoryRows
<1>2. ASSUME NEW parent, NEW on, set = [row |-> "live", parent |-> parent, enabled |-> on]
      PROVE  new.row = "live" /\ new.parent = parent /\ new.enabled = on
  BY <1>1, <1>2 DEF Updated
<1>3. ASSUME NEW parent, NEW on, set = [parent |-> parent, enabled |-> on]
      PROVE  new.row = old.row /\ new.parent = parent /\ new.enabled = on
  BY <1>1, <1>3 DEF Updated
<1>4. ASSUME set = [row |-> "deleted"] PROVE new.row = "deleted"
  BY <1>1, <1>4 DEF Updated
<1> QED
  BY <1>2, <1>3, <1>4

\* A product after each of the writes there are.
LEMMA ProductAfter ==
  ASSUME NEW old \in ProductRows, old.row # "deleted", NEW set, NEW new,
         new = Updated(old, set)
  PROVE  /\ \A c, status : set = [row |-> "live", category |-> c, status |-> status] =>
              new.row = "live" /\ new.category = c /\ new.status = status
         /\ \A c, status : set = [category |-> c, status |-> status] =>
              new.row = old.row /\ new.category = c /\ new.status = status
         /\ \A status : set = [status |-> status] =>
              new.row = old.row /\ new.category = old.category /\ new.status = status
         /\ set = [row |-> "deleted"] => new.row = "deleted"
<1>1. DOMAIN old = {"row", "category", "status"}
  BY DEF ProductRows
<1>2. ASSUME NEW c, NEW status, set = [row |-> "live", category |-> c, status |-> status]
      PROVE  new.row = "live" /\ new.category = c /\ new.status = status
  BY <1>1, <1>2 DEF Updated
<1>3. ASSUME NEW c, NEW status, set = [category |-> c, status |-> status]
      PROVE  new.row = old.row /\ new.category = c /\ new.status = status
  BY <1>1, <1>3 DEF Updated
<1>4. ASSUME NEW status, set = [status |-> status]
      PROVE  new.row = old.row /\ new.category = old.category /\ new.status = status
  BY <1>1, <1>4 DEF Updated
<1>5. ASSUME set = [row |-> "deleted"] PROVE new.row = "deleted"
  BY <1>1, <1>5 DEF Updated
<1> QED
  BY <1>2, <1>3, <1>4, <1>5

\* A SKU after an update.
LEMMA SKUAfter ==
  ASSUME NEW old \in SKURows, old.row # "deleted", NEW on, NEW stock, NEW new,
         new = Updated(old, [enabled |-> on, stock |-> stock])
  PROVE  new.row = old.row /\ new.enabled = on
<1>1. DOMAIN old = {"row", "enabled", "stock"}
  BY DEF SKURows
<1> QED
  BY <1>1 DEF Updated

\* A request on a category that writes what it has checked.
LEMMA CategoryWrittenAsRead ==
  ASSUME CatalogueSound, CatalogueTypeOK, CatalogueTypeOK', NEW r, CategoryHolds(r),
         WriteCategory(r.id, r.set)
  PROVE  CatalogueSound'
<1> DEFINE c == r.id
<1>1. /\ c \in Categories /\ category \in Tables /\ category' \in Tables
      /\ category[c] \in CategoryRows
  BY DEF CategoryHolds, CatalogueTypeOK, Tables
<1>2. /\ category'[c] = Updated(category[c], r.set)
      /\ \A e \in Categories \ {c} : category'[e] = category[e]
      /\ UNCHANGED <<product, sku>>
  BY <1>1 DEF WriteCategory, Tables
<1>3. ASSUME NEW parent \in Categories \cup {Root}, NEW on \in BOOLEAN,
             r.set = [row |-> "live", parent |-> parent, enabled |-> on],
             category[c].row = "absent", validateCategoryParent(c, parent)
      PROVE  CatalogueSound'
  <2>1. category'[c].row = "live" /\ category'[c].parent = parent
    <3>1. category[c].row # "deleted"
      BY <1>3
    <3> HIDE DEF c
    <3> QED
      BY <1>1, <1>2, <1>3, <3>1, CategoryAfter
  <2>2. c \notin Live(category)
    BY <1>3 DEF Live
  <2> HIDE DEF c
  <2> QED
    BY <1>1, <1>2, <1>3, <2>1, <2>2, CategoryPut
<1>4. ASSUME NEW parent \in Categories \cup {Root}, NEW on \in BOOLEAN,
             r.set = [parent |-> parent, enabled |-> on],
             category[c].row = "live", validateCategoryParent(c, parent),
             on \/ ~category[c].enabled
               \/ \A p \in ProductsByCategory(c) : product[p].status # "onSale"
      PROVE  CatalogueSound'
  <2>1. /\ category'[c].row = "live" /\ category'[c].parent = parent
        /\ category'[c].enabled = on
    <3>1. category[c].row # "deleted"
      BY <1>4
    <3> HIDE DEF c
    <3> QED
      BY <1>1, <1>2, <1>4, <3>1, CategoryAfter
  <2> HIDE DEF c
  <2> QED
    BY <1>1, <1>2, <1>4, <2>1, CategoryPut
<1>5. ASSUME r.set = [row |-> "deleted"], category[c].row = "live",
             ChildCategories(c) = {}, ProductsByCategory(c) = {}
      PROVE  CatalogueSound'
  <2>1. category'[c].row = "deleted"
    <3>1. category[c].row # "deleted"
      BY <1>5
    <3> HIDE DEF c
    <3> QED
      BY <1>1, <1>2, <1>5, <3>1, CategoryAfter
  <2> HIDE DEF c
  <2> QED
    BY <1>1, <1>2, <1>5, <2>1, CategoryGone
<1> QED
  BY <1>3, <1>4, <1>5 DEF CategoryHolds

\* A request on a product that writes what it has checked.
LEMMA ProductWrittenAsRead ==
  ASSUME CatalogueSound, CatalogueTypeOK, CatalogueTypeOK', NEW r, ProductHolds(r),
         WriteProduct(r.id, r.set)
  PROVE  CatalogueSound'
<1> DEFINE p == r.id
<1>1. /\ p \in Products /\ product \in [Products -> ProductRows]
      /\ product' \in [Products -> ProductRows] /\ product[p] \in ProductRows
      /\ sku \in [SKUs -> SKURows] /\ sku' \in [SKUs -> SKURows]
  BY DEF ProductHolds, CatalogueTypeOK
<1>2. /\ product'[p] = Updated(product[p], r.set)
      /\ \A q \in Products \ {p} : product'[q] = product[q]
      /\ UNCHANGED category
      /\ sku' = Cascade(p, r.set) \/ UNCHANGED sku
      /\ product[p].row = "live" => sku' = Cascade(p, r.set)
  BY <1>1 DEF WriteProduct
<1>3. ~Deletes(r.set) => UNCHANGED sku
  BY <1>1, <1>2 DEF Cascade
<1>4. ASSUME NEW c \in Categories, NEW status \in ProductStates \ {"onSale"},
             r.set = [row |-> "live", category |-> c, status |-> status],
             product[p].row = "absent", c \in Live(category)
      PROVE  CatalogueSound'
  <2>1. /\ product'[p].row = "live" /\ product'[p].category = c
        /\ product'[p].status = status
    <3>1. product[p].row # "deleted"
      BY <1>4
    <3> HIDE DEF p
    <3> QED
      BY <1>1, <1>2, <1>4, <3>1, ProductAfter
  <2>2. ~Deletes(r.set)
    BY <1>4 DEF Deletes
  <2> HIDE DEF p
  <2> QED
    BY <1>1, <1>2, <1>3, <1>4, <2>1, <2>2, ProductPut
<1>5. ASSUME NEW c \in Categories, NEW status \in ProductStates,
             r.set = [category |-> c, status |-> status],
             product[p].row = "live", ensureCategory(c),
             status = product[p].status \/ (status = "onSale" => EnabledSKUs(p) # {})
      PROVE  CatalogueSound'
  <2>1. /\ product'[p].row = "live" /\ product'[p].category = c
        /\ product'[p].status = status
    <3>1. product[p].row # "deleted"
      BY <1>5
    <3> HIDE DEF p
    <3> QED
      BY <1>1, <1>2, <1>5, <3>1, ProductAfter
  <2>2. ~Deletes(r.set)
    BY <1>5 DEF Deletes
  <2>3. c \in Live(category) /\ category[c].enabled
    BY <1>5 DEF ensureCategory
  <2>4. status = "onSale" => EnabledSKUs(p) # {}
    BY <1>1, <1>5 DEF CatalogueSound, LastSKUStays, Live
  <2> HIDE DEF p
  <2> QED
    BY <1>1, <1>2, <1>3, <1>5, <2>1, <2>2, <2>3, <2>4, ProductPut
<1>6. ASSUME NEW status \in ProductStates, r.set = [status |-> status],
             product[p].row = "live",
             status = "onSale" => /\ ensureCategory(product[p].category)
                                  /\ EnabledSKUs(p) # {}
      PROVE  CatalogueSound'
  <2>1. /\ product'[p].row = "live" /\ product'[p].category = product[p].category
        /\ product'[p].status = status
    <3>1. product[p].row # "deleted"
      BY <1>6
    <3> HIDE DEF p
    <3> QED
      BY <1>1, <1>2, <1>6, <3>1, ProductAfter
  <2>2. ~Deletes(r.set)
    BY <1>6 DEF Deletes
  <2>3. /\ product[p].category \in Live(category)
        /\ status = "onSale" => category[product[p].category].enabled
    BY <1>1, <1>6 DEF ensureCategory, CatalogueSound, Live
  <2> HIDE DEF p
  <2> QED
    BY <1>1, <1>2, <1>3, <1>6, <2>1, <2>2, <2>3, ProductPut
<1>7. ASSUME r.set = [row |-> "deleted"], product[p].row = "live"
      PROVE  CatalogueSound'
  <2>1. product'[p].row = "deleted"
    <3>1. product[p].row # "deleted"
      BY <1>7
    <3> HIDE DEF p
    <3> QED
      BY <1>1, <1>2, <1>7, <3>1, ProductAfter
  <2>2. Deletes(r.set) /\ sku' = Cascade(p, r.set)
    BY <1>2, <1>7 DEF Deletes
  <2>3. \A s \in SKUs : [sku[s] EXCEPT !.row = "deleted"].row = "deleted"
    BY <1>1 DEF SKURows
  <2> HIDE DEF p
  <2>4. \A s \in SKUs : IF ProductOf[s] = p THEN sku'[s].row # "live"
                        ELSE sku'[s] = sku[s]
    BY <2>2, <2>3 DEF Cascade
  <2> QED
    BY <1>1, <1>2, <2>1, <2>4, ProductGone
<1> QED
  BY <1>4, <1>5, <1>6, <1>7 DEF ProductHolds

\* A request on a SKU that writes what it has checked.
LEMMA SKUWrittenAsRead ==
  ASSUME CatalogueSound, CatalogueTypeOK, CatalogueTypeOK', NEW r, SKUHolds(r),
         NEW w, WriteSKU(w, r.id, r.set)
  PROVE  CatalogueSound'
<1> DEFINE s == r.id
<1>1. /\ s \in SKUs /\ sku \in [SKUs -> SKURows] /\ sku' \in [SKUs -> SKURows]
      /\ sku[s] \in SKURows /\ ProductOf[s] \in Live(product)
  BY DEF SKUHolds, CatalogueTypeOK
<1>2. /\ sku'[s] = Updated(sku[s], r.set)
      /\ \A t \in SKUs \ {s} : sku'[t] = sku[t]
      /\ UNCHANGED <<category, product>>
  BY <1>1 DEF WriteSKU
<1>3. ASSUME NEW on \in BOOLEAN, NEW stock \in Stocks,
             r.set = [row |-> "live", enabled |-> on, stock |-> stock],
             sku[s].row = "absent"
      PROVE  CatalogueSound'
  <2> HIDE DEF s
  <2> QED
    BY <1>1, <1>2, <1>3, SKUPut
<1>4. ASSUME NEW on \in BOOLEAN, NEW stock \in Stocks,
             r.set = [enabled |-> on, stock |-> stock],
             sku[s].row = "live", on \/ MayStopSelling(s)
      PROVE  CatalogueSound'
  <2>1. sku'[s].row = "live" /\ sku'[s].enabled = on
    <3>1. sku[s].row # "deleted"
      BY <1>4
    <3> HIDE DEF s
    <3> QED
      BY <1>1, <1>2, <1>4, <3>1, SKUAfter
  <2> HIDE DEF s
  <2> QED
    BY <1>1, <1>2, <1>4, <2>1, SKUPut DEF MayStopSelling
<1>5. ASSUME r.set = [row |-> "deleted"], sku[s].row = "live", MayStopSelling(s)
      PROVE  CatalogueSound'
  <2> HIDE DEF s
  <2> QED
    BY <1>1, <1>2, <1>5, SKUPut DEF MayStopSelling
<1> QED
  BY <1>3, <1>4, <1>5 DEF SKUHolds

\* A request that no write has overtaken writes what it has checked.
LEMMA WrittenAsRead ==
  ASSUME CatalogueSound, CatalogueTypeOK, CatalogueTypeOK',
         NEW w \in Staff, Write(w), Waiting(w)
  PROVE  CatalogueSound'
<1>1. PICK r : r = staff[w]
  OBVIOUS
<1>2. CategoryHolds(r) \/ ProductHolds(r) \/ SKUHolds(r)
  BY <1>1 DEF Write, Waiting
<1>3. /\ CategoryHolds(r) => r.table = "category"
      /\ ProductHolds(r) => r.table = "product"
      /\ SKUHolds(r) => r.table = "sku"
  BY DEF CategoryHolds, ProductHolds, SKUHolds
<1>4. CASE r.table = "category" /\ WriteCategory(r.id, r.set)
  <2>1. CategoryHolds(r)
    BY <1>2, <1>3, <1>4
  <2> QED
    BY <1>4, <2>1, CategoryWrittenAsRead
<1>5. CASE r.table = "product" /\ WriteProduct(r.id, r.set)
  <2>1. ProductHolds(r)
    BY <1>2, <1>3, <1>5
  <2> QED
    BY <1>5, <2>1, ProductWrittenAsRead
<1>6. CASE r.table = "sku" /\ WriteSKU(w, r.id, r.set)
  <2>1. SKUHolds(r)
    BY <1>2, <1>3, <1>6
  <2> QED
    BY <1>6, <2>1, SKUWrittenAsRead
<1> QED
  BY <1>1, <1>4, <1>5, <1>6 DEF Write

\* A product that leaves the sale or goes, if it is still there, and a SKU that
\* is to be enabled need not have been read: the row is all that matters.
LEMMA HarmlessWritten ==
  ASSUME CatalogueSound, UnitsSound, CatalogueTypeOK',
         NEW w \in Staff, Write(w), Harmless(staff[w])
  PROVE  CatalogueSound'
<1>1. PICK r : r = staff[w]
  OBVIOUS
<1>2. CatalogueTypeOK /\ staff[w] # NoRequest /\ r \in Writes
  BY <1>1 DEF UnitsSound, CatalogueTypeOK, Write
<1>3. CASE r.table = "product" /\ r.set \in {[status |-> "offSale"], [row |-> "deleted"]}
  <2>1. r.id \in Products /\ WriteProduct(r.id, r.set)
    BY <1>1, <1>2, <1>3
    DEF Write, Writes, CategoryWrites, ProductWrites, SKUInserts, SKUUpdates, SKUDeletions
  <2>2. CASE product[r.id].row = "live"
    <3>1. ProductHolds(r)
      BY <1>3, <2>1, <2>2 DEF ProductHolds, ProductStates
    <3> QED
      BY <1>2, <2>1, <3>1, ProductWrittenAsRead
  <2>3. CASE product[r.id].row # "live"
    <3>1. UNCHANGED <<category, sku>>
      BY <2>1, <2>3 DEF WriteProduct
    <3>2. /\ product \in [Products -> ProductRows]
          /\ product' = [product EXCEPT ![r.id] = Updated(product[r.id], r.set)]
      BY <1>2, <2>1 DEF CatalogueTypeOK, WriteProduct
    <3>3. Updated(product[r.id], r.set).row # "live"
      BY <1>3, <2>1, <2>3, <3>2 DEF Updated, ProductRows
    <3>4. \A p \in Products \ {r.id} : product'[p] = product[p]
      BY <3>2
    <3>5. product'[r.id].row # "live"
      BY <2>1, <3>2, <3>3
    <3>6. Live(product') = Live(product) /\ Live(product) \subseteq Products \ {r.id}
      BY <2>1, <2>3, <3>2, <3>4, <3>5 DEF Live
    <3>7. \A p : EnabledSKUs(p)' = EnabledSKUs(p)
      BY <3>1 DEF EnabledSKUs, Live
    <3>8. RowsSound'
      BY <3>1, <3>4, <3>6, <3>7, SoundInParts DEF RowsSound, Live
    <3> QED
      BY <3>1, <3>8, SoundInParts
  <2> QED
    BY <2>2, <2>3
<1>4. CASE r \in SKUUpdates /\ r.set.enabled
  <2>1. /\ r.table = "sku" /\ r.id \in SKUs /\ r.set \in [enabled : BOOLEAN, stock : Stocks]
        /\ WriteSKU(w, r.id, r.set)
    BY <1>1, <1>4 DEF Write, SKUUpdates
  <2>2. sku[r.id].row = "live"
    BY <1>1, <1>2, <1>4 DEF UnitsSound, WriteFits
  <2>3. ProductOf[r.id] \in Live(product)
    <3>1. r.id \in Live(sku)
      BY <1>2, <2>1, <2>2 DEF Live, CatalogueTypeOK
    <3> QED
      BY <3>1 DEF CatalogueSound
  <2>4. PICK on \in BOOLEAN, stock \in Stocks :
          r.set = [enabled |-> on, stock |-> stock] /\ on
    BY <1>4, <2>1
  <2>5. SKUHolds(r)
    BY <2>1, <2>2, <2>3, <2>4 DEF SKUHolds
  <2> QED
    BY <1>2, <2>1, <2>5, SKUWrittenAsRead
<1> QED
  BY <1>1, <1>3, <1>4 DEF Harmless

-----------------------------------------------------------------------------
(***************************************************************************)
(* What spoils the catalogue.                                              *)
(***************************************************************************)

\* The write of a request whose checks another request's write has overtaken.
Overtaken == \E w \in overtaken : Write(w) /\ ~Harmless(staff[w])

\* A step of the staff's requests keeps the checks of those that it does not
\* overtake, and spoils nothing unless it was overtaken itself.
LEMMA RequestSteps ==
  ASSUME RequestsHold, UnitsSound, CatalogueTypeOK',
         NEW w \in Staff, StartRequest(w) \/ Write(w) \/ Abandon(w)
  PROVE  RequestsHold' /\ (CatalogueSound /\ ~CatalogueSound' => Overtaken)
<1>1. CatalogueTypeOK
  BY DEF UnitsSound
<1>2. CASE StartRequest(w)
  <2>1. HasRead(w)
    BY <1>1, <1>2, StartedWaiting
  <2>2. /\ CatalogueSound => CatalogueSound'
        /\ \A v : staff'[v] = staff[v] /\ Waiting(v) => Waiting(v)'
    BY <1>1, <2>1, NothingWritten DEF HasRead
  <2> QED
    BY <2>1, <2>2 DEF HasRead, RequestsHold
<1>3. CASE Abandon(w)
  <2>1. /\ UNCHANGED tables /\ overtaken' = overtaken \ {w}
        /\ staff'[w] = NoRequest /\ \A v \in Staff \ {w} : staff'[v] = staff[v]
    BY <1>1, <1>3 DEF Abandon, Done, CatalogueTypeOK
  <2>2. /\ CatalogueSound => CatalogueSound'
        /\ \A v : staff'[v] = staff[v] /\ Waiting(v) => Waiting(v)'
    BY <1>1, <2>1, NothingWritten
  <2>3. Waiting(w)'
    BY <2>1 DEF Waiting
  <2> QED
    BY <2>1, <2>2, <2>3 DEF RequestsHold
<1>4. CASE Write(w)
  <2>1. /\ overtaken' = {v \in Staff \ {w} : staff[v] # NoRequest}
        /\ staff'[w] = NoRequest /\ \A v \in Staff \ {w} : staff'[v] = staff[v]
    BY <1>1, <1>4 DEF Write, Done, CatalogueTypeOK
  <2>2. \A v \in Staff \ overtaken' : staff'[v] = NoRequest
    BY <2>1
  <2>3. \A v \in Staff \ overtaken' : Waiting(v)'
    BY <2>2 DEF Waiting
  <2>4. ASSUME CatalogueSound, ~CatalogueSound' PROVE Overtaken
    <3>1. w \in overtaken
      BY <1>1, <1>4, <2>4, WrittenAsRead DEF RequestsHold
    <3>2. ~Harmless(staff[w])
      BY <1>4, <2>4, HarmlessWritten
    <3> QED
      BY <1>4, <3>1, <3>2 DEF Overtaken
  <2> QED
    BY <2>3, <2>4 DEF RequestsHold
<1> QED
  BY <1>2, <1>3, <1>4

\* Every step keeps the checks of the requests that it does not overtake, and
\* spoils nothing but by the write of one that was.
LEMMA CatalogueGoesOn ==
  RequestsHold /\ ShelfSound /\ ShelfSound' /\ [ShelfNext]_shelf
    => RequestsHold' /\ (CatalogueSound /\ ~CatalogueSound' => Overtaken)
<1> DEFINE Goal == RequestsHold' /\ (CatalogueSound /\ ~CatalogueSound' => Overtaken)
<1> SUFFICES ASSUME RequestsHold, ShelfSound, ShelfSound', [ShelfNext]_shelf PROVE Goal
  OBVIOUS
<1>1. UnitsSound /\ CatalogueTypeOK /\ CatalogueTypeOK'
  BY DEF ShelfSound, UnitsSound
<1>2. CASE UNCHANGED catalogue
  <2>1. UNCHANGED tables /\ UNCHANGED <<staff, overtaken>>
    BY <1>2 DEF catalogue
  <2> QED
    BY <1>1, <2>1, NothingWritten DEF RequestsHold
<1>3. ASSUME NEW w \in Staff, StartRequest(w) \/ Write(w) \/ Abandon(w) PROVE Goal
  BY <1>1, <1>3, RequestSteps
<1>4. ASSUME NEW s \in SKUs, NEW stock \in Stocks, AdjustStock(s, stock) PROVE Goal
  <2>1. PICK quantity : quantity = stock - sku[s].stock
    OBVIOUS
  <2>2. ChangeStock(s, quantity) /\ UNCHANGED <<category, product, staff, overtaken>>
    BY <1>4, <2>1 DEF AdjustStock, UpdateSKUStock
  <2> QED
    BY <1>1, <2>2, StockChangedAside
<1>5. ASSUME NEW o \in Orders, NEW user \in Users, NEW s \in SKUs,
             NEW quantity \in 1..MaxQuantity, NEW u \in UserCoupons \cup {NoCoupon},
             Place(o, user, s, quantity, u)
      PROVE  Goal
  <2>1. ChangeStock(s, -quantity) /\ UNCHANGED <<category, product, staff, overtaken>>
    BY <1>5 DEF Place, DecreaseSKUStock
  <2> QED
    BY <1>1, <2>1, StockChangedAside
<1>6. ASSUME NEW o \in Orders, Cancel(o) PROVE Goal
  <2>1. PICK row : row = order[o]
    OBVIOUS
  <2>2. /\ row.sku \in SKUs /\ ChangeStock(row.sku, row.quantity)
        /\ UNCHANGED <<category, product, staff, overtaken>>
    BY <1>6, <2>1 DEF Cancel, IncreaseSKUStock, ShelfSound, UnitsSound, OrderRows
  <2> QED
    BY <1>1, <2>2, StockChangedAside
<1>7. CASE ShelfNext
  <2> HIDE DEF Goal
  <2> QED
    BY <1>2, <1>3, <1>4, <1>5, <1>6, <1>7
    DEF ShelfNext, StaffEdit, StaffFinish
<1> QED
  BY <1>2, <1>7 DEF shelf

\* Whatever the shop and however many of the staff work on it at once: a
\* product on sale loses its last SKU or its category, a row comes to hang from
\* a deleted one, or the categories run into a cycle only by the write of a
\* request whose checks another write has overtaken; never by one that works
\* alone, by stock or orders, or by what puts a SKU up or a product away.
THEOREM OnlyRacesSpoilCatalogue == ShelfSpec => OnlyRacesSpoil
<1>1. ShelfInit => RequestsHold
  BY DEF ShelfInit, RequestsHold, Waiting
<1>2. /\ RequestsHold /\ ShelfSound /\ ShelfSound' /\ [ShelfNext]_shelf => RequestsHold'
      /\ RequestsHold /\ ShelfSound /\ ShelfSound' /\ [ShelfNext]_shelf
           => [CatalogueSound /\ ~CatalogueSound' => Overtaken]_shelf
  BY CatalogueGoesOn
<1>3. ShelfSpec => [][CatalogueSound /\ ~CatalogueSound' => Overtaken]_shelf
  BY <1>1, <1>2, ShelfInvariance, PTL DEF ShelfSpec
<1> QED
  BY <1>3 DEF OnlyRacesSpoil, Overtaken
=============================================================================
