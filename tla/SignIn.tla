------------------------------- MODULE SignIn -------------------------------
(***************************************************************************)
(* How buyers get into their accounts: registration, sign-in by password   *)
(* or by WeChat, the exchange of refresh tokens and signing out, with what *)
(* holds guesses back: a limit on the requests of an address, and a count  *)
(* of wrong passwords per name, both Redis keys that expire.  Requests run *)
(* at once, calls of Redis fail and requests are cut off.  The staff's     *)
(* wrong passwords are counted in the same calls, under keys of their own. *)
(***************************************************************************)
EXTENDS Integers, FiniteSets

CONSTANTS
  Names,        \* provider and provider uid of a buyer
  WechatNames,  \* those of the provider wechat_mini_program
  Users,        \* ids of user rows
  Tokens,       \* refresh tokens that may be in Redis at once
  Requests,     \* requests that may run at once
  Limit,        \* wrong passwords after which a name is blocked
  RateLimit,    \* requests of an address per window
  MaxFaults,    \* bound on failed calls and requests cut off
  NoUser, NoToken

\* With as many failures as Limit a counter could stay without expiry.
ASSUME SignInAssumption ==
  /\ WechatNames \subseteq Names
  /\ IsFiniteSet(Requests)
  /\ Limit \in Nat \ {0}
  /\ RateLimit \in Nat \ {0}
  /\ MaxFaults \in 0..(Limit - 1)
  /\ NoUser \notin Users
  /\ NoToken \notin Tokens

-----------------------------------------------------------------------------

VARIABLES
  users,     \* user rows
  identity,  \* user_auths: the user of each name
  fails,     \* Redis: the count of wrong passwords of each name
  window,    \* Redis: the count of one address at one endpoint
  admitted,  \* how many of its requests were let in in this window
  key,       \* Redis: the user of each refresh token
  request,   \* the requests in progress
  signedIn,  \* users with a session that nobody and nothing has ended
  faults

database == <<users, identity>>
limits == <<fails, window, admitted>>
sessions == <<key, signedIn>>
vars == <<database, limits, sessions, request, faults>>

Steps == {"idle", "verify", "incr", "expire", "clear", "insert", "delete",
          "issue"}

\* exchanged: the session of user goes on with the token about to be issued.
Locals ==
  [pc : Steps, name : Names \cup {""}, user : Users \cup {NoUser},
   token : Tokens \cup {NoToken}, exchanged : BOOLEAN]

Idle == [pc |-> "idle", name |-> "", user |-> NoUser, token |-> NoToken,
         exchanged |-> FALSE]

\* A missing counter counts zero.
NoCount == [n |-> 0, ttl |-> FALSE]

Init ==
  /\ users = {}
  /\ identity = [n \in Names |-> NoUser]
  /\ fails = [n \in Names |-> NoCount]
  /\ window = NoCount
  /\ admitted = 0
  /\ key = [t \in Tokens |-> NoUser]
  /\ request = [r \in Requests |-> Idle]
  /\ signedIn = {}
  /\ faults = 0

-----------------------------------------------------------------------------

At(r, pc) == request[r].pc = pc

Goto(r, locals) == request' = [request EXCEPT ![r] = locals]

Step(r, pc) == Goto(r, [request[r] EXCEPT !.pc = pc])

Answer(r) == Goto(r, Idle)

FindAuthByProvider(n) == identity[n] # NoUser

\* Mutant: the expiry is left to a call of its own that is never made.
CountOnly(c) == [c EXCEPT !.n = @ + 1]

\* The script counts and, on the first request, sets the expiry in one step.
Counted(c) == [n |-> c.n + 1, ttl |-> c.ttl \/ c.n + 1 = 1]

\* Requests of other addresses, or of this one at other endpoints, have
\* counters of their own.
LetIn ==
  \/ UNCHANGED <<window, admitted>>
  \/ /\ Counted(window).n <= RateLimit
     /\ window' = Counted(window)
     /\ admitted' = admitted + 1

\* A request with a blocked name, a taken name or a token that is gone.
Refused ==
  /\ LetIn
  /\ UNCHANGED <<database, fails, sessions, request, faults>>

\* One request over the limit stands for all of them.
TurnedAway ==
  /\ window.n = RateLimit
  /\ window' = Counted(window)
  /\ UNCHANGED <<database, fails, admitted, sessions, request, faults>>

-----------------------------------------------------------------------------
(***************************************************************************)
(* Signing in with a password.                                             *)
(***************************************************************************)

\* Mutant: the last guess is one too many.
BlockedAbove(n) == fails[n].n > Limit

Blocked(n) == fails[n].n >= Limit

PasswordLogin(r, n) ==
  /\ At(r, "idle")
  /\ n \notin WechatNames
  /\ ~Blocked(n)
  /\ LetIn
  /\ Goto(r, [Idle EXCEPT !.pc = "verify", !.name = n])
  /\ UNCHANGED <<database, fails, sessions, faults>>

WrongPassword(r) ==
  /\ At(r, "verify")
  /\ Step(r, "incr")
  /\ UNCHANGED <<database, limits, sessions, faults>>

CountFailure(r) ==
  /\ At(r, "incr")
  /\ LET n == request[r].name IN fails' = [fails EXCEPT ![n].n = @ + 1]
  /\ Step(r, "expire")
  /\ UNCHANGED <<database, window, admitted, sessions, faults>>

\* Mutant: the expiry is set with the first wrong password only.
ArmedOnce(c) == [c EXCEPT !.ttl = @ \/ c.n = 1]

\* EXPIRE of a key that is gone does nothing.
Armed(c) == [c EXCEPT !.ttl = c.n > 0]

ArmExpiry(r) ==
  /\ At(r, "expire")
  /\ LET n == request[r].name IN fails' = [fails EXCEPT ![n] = Armed(@)]
  /\ Answer(r)
  /\ UNCHANGED <<database, window, admitted, sessions, faults>>

RightPassword(r) ==
  /\ At(r, "verify")
  /\ FindAuthByProvider(request[r].name)
  /\ Step(r, "clear")
  /\ UNCHANGED <<database, limits, sessions, faults>>

Issue(r, user, exchanged) ==
  Goto(r, [Idle EXCEPT !.pc = "issue", !.user = user, !.exchanged = exchanged])

\* Mutant: one wrong password is taken back.
OneLess(c) == [c EXCEPT !.n = @ - 1]

Cleared(c) == NoCount

ClearFailures(r) ==
  /\ At(r, "clear")
  /\ LET n == request[r].name IN fails' = [fails EXCEPT ![n] = Cleared(@)]
  /\ Issue(r, identity[request[r].name], FALSE)
  /\ UNCHANGED <<database, window, admitted, sessions, faults>>

-----------------------------------------------------------------------------
(***************************************************************************)
(* New buyers.                                                             *)
(***************************************************************************)

\* A name that is taken is refused.
Register(r, n) ==
  /\ At(r, "idle")
  /\ n \notin WechatNames
  /\ ~FindAuthByProvider(n)
  /\ LetIn
  /\ Goto(r, [Idle EXCEPT !.pc = "insert", !.name = n])
  /\ UNCHANGED <<database, fails, sessions, faults>>

WechatMiniProgramLogin(r, n) ==
  /\ At(r, "idle")
  /\ n \in WechatNames
  /\ LetIn
  /\ IF FindAuthByProvider(n)
       THEN Issue(r, identity[n], FALSE)
       ELSE Goto(r, [Idle EXCEPT !.pc = "insert", !.name = n])
  /\ UNCHANGED <<database, fails, sessions, faults>>

\* Mutant: the user row stays when its name turns out to be taken.
KeepUser(u) == users' = users \cup {u}

RollBackUser(u) == UNCHANGED users

\* User and name are inserted in one transaction, the name is unique.
CreateUserWithAuth(r, u) ==
  /\ At(r, "insert")
  /\ u \notin users
  /\ LET n == request[r].name IN
     \/ /\ identity[n] = NoUser
        /\ users' = users \cup {u}
        /\ identity' = [identity EXCEPT ![n] = u]
        /\ Issue(r, u, FALSE)
     \/ /\ identity[n] # NoUser
        /\ RollBackUser(u)
        /\ Answer(r)
        /\ UNCHANGED identity
  /\ UNCHANGED <<limits, sessions, faults>>

-----------------------------------------------------------------------------
(***************************************************************************)
(* Sessions.                                                               *)
(***************************************************************************)

\* buildAuthResponse: the token is new, and no other request knows it.
StoreToken(r, t) ==
  /\ At(r, "issue")
  /\ key[t] = NoUser
  /\ \A q \in Requests : request[q].token # t
  /\ key' = [key EXCEPT ![t] = request[r].user]
  /\ signedIn' = signedIn \cup {request[r].user}
  /\ Answer(r)
  /\ UNCHANGED <<database, limits, faults>>

\* Refresh reads the key ...
Refresh(r, t) ==
  /\ At(r, "idle")
  /\ key[t] # NoUser
  /\ LetIn
  /\ Goto(r, [Idle EXCEPT !.pc = "delete", !.user = key[t], !.token = t])
  /\ UNCHANGED <<database, fails, sessions, faults>>

\* Mutant: who comes second with a token ends all sessions of the user.
ReuseEndsAll(r) ==
  IF key[request[r].token] = NoUser
    THEN /\ key' = [t \in Tokens |->
                      IF key[t] = request[r].user THEN NoUser ELSE key[t]]
         /\ Answer(r)
    ELSE /\ key' = [key EXCEPT ![request[r].token] = NoUser]
         /\ Issue(r, request[r].user, TRUE)

\* ... and deletes it, whether another request has done so or not.
Exchange(r) ==
  /\ key' = [key EXCEPT ![request[r].token] = NoUser]
  /\ Issue(r, request[r].user, TRUE)

DeleteExchanged(r) ==
  /\ At(r, "delete")
  /\ Exchange(r)
  /\ UNCHANGED <<database, limits, signedIn, faults>>

\* The key is deleted, by the buyer or because its time is over.
End(t) ==
  /\ key[t] # NoUser
  /\ key' = [key EXCEPT ![t] = NoUser]
  /\ signedIn' = signedIn \ {key[t]}
  /\ UNCHANGED <<database, limits, request, faults>>

Logout(t) == End(t)

ExpireToken(t) == End(t)

-----------------------------------------------------------------------------
(***************************************************************************)
(* Expiry and failures.                                                    *)
(***************************************************************************)

ExpireFailures(n) ==
  /\ fails[n].ttl
  /\ fails' = [fails EXCEPT ![n] = NoCount]
  /\ UNCHANGED <<database, window, admitted, sessions, request, faults>>

ExpireWindow ==
  /\ window.ttl
  /\ window' = NoCount
  /\ admitted' = 0
  /\ UNCHANGED <<database, fails, sessions, request, faults>>

Fault ==
  /\ faults < MaxFaults
  /\ faults' = faults + 1
  /\ UNCHANGED database

\* The counter cannot be read: it counts as zero.
CounterUnread(r, n) ==
  /\ Fault
  /\ At(r, "idle")
  /\ n \notin WechatNames
  /\ LetIn
  /\ Goto(r, [Idle EXCEPT !.pc = "verify", !.name = n])
  /\ UNCHANGED <<fails, sessions>>

\* The errors of the other calls on the counter, and of deleting the token that
\* is exchanged, are ignored.
ErrorIgnored(r) ==
  /\ Fault
  /\ \/ At(r, "incr") /\ Step(r, "expire")
     \/ At(r, "expire") /\ Answer(r)
     \/ At(r, "clear") /\ Issue(r, identity[request[r].name], FALSE)
     \/ At(r, "delete") /\ Issue(r, request[r].user, TRUE)
  /\ UNCHANGED <<limits, sessions>>

\* The process dies, or Redis or MySQL does not answer; a user whose token was
\* to be exchanged has to sign in again.
CutOff(r) ==
  /\ Fault
  /\ ~At(r, "idle")
  /\ Answer(r)
  /\ signedIn' = IF request[r].exchanged THEN signedIn \ {request[r].user}
                                         ELSE signedIn
  /\ UNCHANGED <<limits, key>>

-----------------------------------------------------------------------------

Next ==
  \/ Refused
  \/ TurnedAway
  \/ ExpireWindow
  \/ \E n \in Names : ExpireFailures(n)
  \/ \E t \in Tokens : Logout(t) \/ ExpireToken(t)
  \/ \E r \in Requests :
       \/ WrongPassword(r)
       \/ RightPassword(r)
       \/ CountFailure(r)
       \/ ArmExpiry(r)
       \/ ClearFailures(r)
       \/ DeleteExchanged(r)
       \/ ErrorIgnored(r)
       \/ CutOff(r)
       \/ \E n \in Names :
            \/ PasswordLogin(r, n)
            \/ Register(r, n)
            \/ WechatMiniProgramLogin(r, n)
            \/ CounterUnread(r, n)
       \/ \E u \in Users : CreateUserWithAuth(r, u)
       \/ \E t \in Tokens : StoreToken(r, t) \/ Refresh(r, t)

\* A request goes on to the call after the one it has made, and Redis deletes
\* keys whose time is over.
Fairness ==
  /\ \A r \in Requests : WF_vars(ArmExpiry(r))
  /\ \A n \in Names : WF_vars(ExpireFailures(n))
  /\ WF_vars(ExpireWindow)

Spec == Init /\ [][Next]_vars /\ Fairness

-----------------------------------------------------------------------------
(***************************************************************************)
(* Properties.                                                             *)
(***************************************************************************)

Counts == [n : Nat, ttl : BOOLEAN]

\* Rows, keys and requests in progress have the shape the code gives them.
TypeOK ==
  /\ users \subseteq Users
  /\ identity \in [Names -> Users \cup {NoUser}]
  /\ fails \in [Names -> Counts]
  /\ window \in Counts
  /\ window.n <= RateLimit + 1
  /\ key \in [Tokens -> Users \cup {NoUser}]
  /\ request \in [Requests -> Locals]
  /\ signedIn \subseteq Users
  /\ faults \in 0..MaxFaults

\* However many requests guess at once, each past the check before the others
\* have been counted, the wrong passwords of a name exceed its limit by those
\* requests at most, and by the times the counter could not be read.
GuessesBounded ==
  \A n \in Names : fails[n].n <= Limit - 1 + Cardinality(Requests) + faults

\* An address gets in as often per window as it may, and the window ends.
WindowKept == admitted <= RateLimit /\ (window.n > 0 => window.ttl)

\* Both limits hold for requests that run at once.
LimitsHold == GuessesBounded /\ WindowKept

\* A name that is blocked and an address that is turned away get in again in
\* the end, although requests die between counting and setting the expiry.
BlocksEnd ==
  /\ \A n \in Names : Blocked(n) ~> ~Blocked(n)
  /\ window.n > RateLimit ~> window.n <= RateLimit

\* A buyer who comes twice at once is still one user, and no user is left
\* behind that no name leads to.
OneUserPerName ==
  /\ \A n, m \in Names : identity[n] = identity[m] => n = m \/ identity[n] = NoUser
  /\ users = {identity[n] : n \in Names} \ {NoUser}

\* However requests with the same refresh token race, the buyer has a token
\* or is about to get one, until a session is ended or cut off.
SessionsGoOn ==
  \A u \in signedIn :
    \/ \E t \in Tokens : key[t] = u
    \/ \E r \in Requests : request[r].exchanged /\ request[r].user = u

\* Buyers neither lose their account nor, while they refresh, their session.
BuyersKept == OneUserPerName /\ SessionsGoOn

=============================================================================
