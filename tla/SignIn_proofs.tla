--------------------------- MODULE SignIn_proofs ---------------------------
(***************************************************************************)
(* Proofs about SignIn, for any number of buyers, requests and tokens.     *)
(*                                                                         *)
(* What a request goes on with is still true when it does: the token it    *)
(* exchanges is its user's or gone, and the name it knows keeps its user.  *)
(* Guesses are bounded because those that have passed the check and are    *)
(* not yet counted are added to the count.                                 *)
(***************************************************************************)
EXTENDS SignIn, FiniteSetTheorems, TLAPS

\* What a request knows.
Fits(l) ==
  /\ l.pc \in {"verify", "incr", "expire", "clear", "insert"} => l.name \in Names
  /\ l.pc = "clear" => identity[l.name] # NoUser
  /\ l.pc \in {"delete", "issue"} => l.user \in Users
  /\ l.pc = "delete" => l.token \in Tokens /\ key[l.token] \in {NoUser, l.user}
  /\ l.pc # "delete" => l.token = NoToken
  /\ l.exchanged => l.pc = "issue"

Sane == TypeOK /\ \A r \in Requests : Fits(request[r])

\* No more are let in than counted.
WindowSound ==
  admitted \in Nat /\ admitted <= window.n /\ WindowKept

\* Requests that have passed the check and have not been counted.
Guessing(n) ==
  {r \in Requests : request[r].pc \in {"verify", "incr"} /\ request[r].name = n}

GuessesCounted ==
  \A n \in Names :
    fails[n].n + Cardinality(Guessing(n)) <= Limit - 1 + Cardinality(Requests) + faults

SignInSound ==
  Sane /\ WindowSound /\ GuessesCounted /\ OneUserPerName /\ SessionsGoOn

-----------------------------------------------------------------------------
(***************************************************************************)
(* What requests know.                                                     *)
(***************************************************************************)

\* What the type says of each variable.
LEMMA Kept ==
  ASSUME Sane
  PROVE  /\ users \subseteq Users /\ identity \in [Names -> Users \cup {NoUser}]
         /\ fails \in [Names -> Counts] /\ window \in Counts /\ window.n <= RateLimit + 1
         /\ key \in [Tokens -> Users \cup {NoUser}] /\ request \in [Requests -> Locals]
         /\ signedIn \subseteq Users /\ faults \in 0..MaxFaults
         /\ \A r \in Requests : request[r] \in Locals /\ Fits(request[r])
BY DEF Sane, TypeOK

\* A name keeps its user, and a token is its user's or gone.
RowsStay ==
  /\ \A n \in Names : identity[n] # NoUser => identity'[n] # NoUser
  /\ \A t \in Tokens : \/ key'[t] \in {key[t], NoUser}
                       \/ \A r \in Requests : request[r].token # t

\* One request goes on.
LEMMA GoesOn ==
  ASSUME Sane, NEW r \in Requests, NEW l \in Locals, Goto(r, l), Fits(l)', RowsStay
  PROVE  /\ request' \in [Requests -> Locals]
         /\ \A q \in Requests : Fits(request[q])'
<1>1. /\ request' \in [Requests -> Locals] /\ request'[r] = l
      /\ \A q \in Requests : q # r => request'[q] = request[q]
  BY Kept DEF Goto
<1>2. ASSUME NEW q \in Requests, q # r PROVE Fits(request[q])'
  <2>1. request'[q] = request[q] /\ request[q] \in Locals /\ Fits(request[q])
    BY <1>1, <1>2, Kept
  <2> QED
    BY <2>1 DEF Fits, RowsStay
<1>3. Fits(request[r])'
  BY <1>1 DEF Fits
<1> QED
  BY <1>1, <1>2, <1>3

\* None does.
LEMMA AllWait ==
  ASSUME Sane, UNCHANGED request, RowsStay
  PROVE  /\ request' \in [Requests -> Locals]
         /\ \A q \in Requests : Fits(request[q])'
BY Kept DEF Fits, RowsStay

\* Where neither names nor tokens change, nobody's knowledge does.
LEMMA RowsUnchanged ==
  ASSUME UNCHANGED <<identity, key>>
  PROVE  RowsStay
BY DEF RowsStay

\* Where requests go.
LEMMA ToIdle ==
  ASSUME NEW l, l = Idle
  PROVE  l \in Locals /\ Fits(l)' /\ l.pc = "idle" /\ l.exchanged = FALSE
BY DEF Idle, Locals, Steps, Fits

\* What a request is that goes on about a name.
About(pc, n) == [Idle EXCEPT !.pc = pc, !.name = n]

\* It goes on to check the name's password or to insert the name,
LEMMA ToName ==
  ASSUME NEW r, NEW pc \in {"verify", "insert"}, NEW n \in Names,
         Goto(r, About(pc, n))
  PROVE  \E l \in Locals :
           Goto(r, l) /\ Fits(l)' /\ l.pc = pc /\ l.name = n
<1>1. PICK l : l = About(pc, n)
  OBVIOUS
<1>2. l \in Locals
  BY <1>1 DEF About, Idle, Locals, Steps
<1>3. l.pc = pc /\ l.name = n /\ l.token = NoToken /\ l.exchanged = FALSE
  BY <1>1 DEF About, Idle
<1>4. Fits(l)'
  BY <1>3 DEF Fits
<1>5. Goto(r, l)
  BY <1>1
<1> QED
  BY <1>2, <1>3, <1>4, <1>5

\* ... to be answered with a new token,
LEMMA ToIssue ==
  ASSUME NEW r, NEW u \in Users, NEW b \in BOOLEAN, Issue(r, u, b)
  PROVE  \E l \in Locals :
           /\ Goto(r, l) /\ Fits(l)' /\ l.pc = "issue" /\ l.user = u
           /\ l.exchanged = b
<1>1. PICK l : l = [Idle EXCEPT !.pc = "issue", !.user = u, !.exchanged = b]
  OBVIOUS
<1>2. l \in Locals
  BY <1>1 DEF Idle, Locals, Steps
<1>3. l.pc = "issue" /\ l.user = u /\ l.token = NoToken /\ l.exchanged = b
  BY <1>1 DEF Idle
<1>4. Fits(l)'
  BY <1>3 DEF Fits
<1>5. Goto(r, l)
  BY <1>1 DEF Issue
<1> QED
  BY <1>2, <1>3, <1>4, <1>5

\* ... to delete the token it exchanges, which is its user's or gone,
LEMMA ToDelete ==
  ASSUME NEW r, NEW u \in Users, NEW t \in Tokens, key'[t] \in {NoUser, u},
         Goto(r, [Idle EXCEPT !.pc = "delete", !.user = u, !.token = t])
  PROVE  \E l \in Locals :
           Goto(r, l) /\ Fits(l)' /\ l.pc = "delete"
<1>1. PICK l : l = [Idle EXCEPT !.pc = "delete", !.user = u, !.token = t]
  OBVIOUS
<1>2. l \in Locals
  BY <1>1 DEF Idle, Locals, Steps
<1>3. l.pc = "delete" /\ l.user = u /\ l.token = t /\ l.exchanged = FALSE
  BY <1>1 DEF Idle
<1>4. Fits(l)'
  BY <1>3 DEF Fits
<1>5. Goto(r, l)
  BY <1>1
<1> QED
  BY <1>2, <1>3, <1>4, <1>5

\* ... or to the next call about the same name.
LEMMA ToNext ==
  ASSUME Sane, NEW r \in Requests, UNCHANGED identity,
         NEW pc \in {"incr", "expire", "clear"},
         request[r].pc \in {"verify", "incr"},
         pc = "clear" => identity[request[r].name] # NoUser,
         NEW l, l = [request[r] EXCEPT !.pc = pc]
  PROVE  /\ l \in Locals /\ Fits(l)' /\ l.pc = pc /\ l.name = request[r].name
         /\ l.exchanged = request[r].exchanged /\ l.token = NoToken
<1>1. request[r] \in Locals /\ Fits(request[r])
  BY Kept
<1>2. /\ l \in Locals /\ l.pc = pc /\ l.name = request[r].name
      /\ l.user = request[r].user /\ l.token = request[r].token
      /\ l.exchanged = request[r].exchanged
  BY <1>1 DEF Locals, Steps
<1>3. /\ l.name \in Names /\ l.token = NoToken /\ ~l.exchanged
  BY <1>1, <1>2 DEF Fits
<1>4. pc = "clear" => identity'[l.name] # NoUser
  BY <1>2
<1> QED
  BY <1>2, <1>3, <1>4 DEF Fits

-----------------------------------------------------------------------------
(***************************************************************************)
(* Each step.                                                              *)
(***************************************************************************)

\* Counters stay counters.
LEMMA CountersTyped ==
  ASSUME NEW c \in Counts
  PROVE  /\ Counted(c) \in Counts /\ Counted(c).n = c.n + 1
         /\ Counted(c).ttl = (c.ttl \/ c.n + 1 = 1)
         /\ Armed(c) \in Counts /\ Armed(c).n = c.n
         /\ Cleared(c) \in Counts /\ Cleared(c).n = 0
         /\ NoCount \in Counts /\ NoCount.n = 0 /\ ~NoCount.ttl
         /\ [c EXCEPT !.n = @ + 1] \in Counts /\ [c EXCEPT !.n = @ + 1].n = c.n + 1
<1>1. c.n \in Nat /\ c.ttl \in BOOLEAN
  BY DEF Counts
<1>2. (c.ttl \/ c.n + 1 = 1) \in BOOLEAN /\ (c.n > 0) \in BOOLEAN
  OBVIOUS
<1>3. /\ Counted(c) \in Counts /\ Counted(c).n = c.n + 1
      /\ Counted(c).ttl = (c.ttl \/ c.n + 1 = 1)
  BY <1>1, <1>2 DEF Counted, Counts
<1>4. Armed(c) \in Counts /\ Armed(c).n = c.n
  BY <1>1, <1>2 DEF Armed, Counts
<1>5. /\ NoCount \in Counts /\ NoCount.n = 0 /\ ~NoCount.ttl
      /\ Cleared(c) \in Counts /\ Cleared(c).n = 0
  BY DEF NoCount, Cleared, Counts
<1>6. [c EXCEPT !.n = @ + 1] \in Counts /\ [c EXCEPT !.n = @ + 1].n = c.n + 1
  BY <1>1 DEF Counts
<1> QED
  BY <1>3, <1>4, <1>5, <1>6

\* The limit of an address.
LEMMA WindowGoesOn ==
  ASSUME Sane, WindowSound, LetIn \/ UNCHANGED <<window, admitted>> \/ TurnedAway \/ ExpireWindow
  PROVE  WindowSound' /\ window' \in Counts /\ window'.n <= RateLimit + 1
<1>1. /\ window \in Counts /\ window.n \in Nat /\ RateLimit \in Nat \ {0}
      /\ window.n <= RateLimit + 1
  BY Kept, SignInAssumption DEF Counts, SignInAssumption
<1>2. CASE UNCHANGED <<window, admitted>>
  BY <1>1, <1>2 DEF WindowSound, WindowKept
<1>3. CASE /\ Counted(window).n <= RateLimit
           /\ window' = Counted(window) /\ admitted' = admitted + 1
  <2>1. /\ window' \in Counts /\ window'.n = window.n + 1 /\ window'.n <= RateLimit
        /\ window'.ttl = (window.ttl \/ window.n + 1 = 1)
    BY <1>1, <1>3, CountersTyped
  <2>2. window'.n > 0 => window'.ttl
    <3>1. window.n > 0 => window.ttl
      BY DEF WindowSound, WindowKept
    <3>2. window.n + 1 = 1 \/ window.n > 0
      BY <1>1
    <3>3. window.ttl \/ window.n + 1 = 1
      BY <3>1, <3>2
    <3> QED
      BY <2>1, <3>3
  <2> QED
    BY <1>1, <1>3, <2>1, <2>2 DEF WindowSound, WindowKept
<1>4. CASE TurnedAway
  <2>1. /\ window.n = RateLimit /\ UNCHANGED admitted
        /\ window' \in Counts /\ window'.n = window.n + 1
        /\ window'.ttl = (window.ttl \/ window.n + 1 = 1)
    BY <1>1, <1>4, CountersTyped DEF TurnedAway
  <2>2. window'.n > 0 => window'.ttl
    <3>1. window.n > 0 => window.ttl
      BY DEF WindowSound, WindowKept
    <3>2. window.n + 1 = 1 \/ window.n > 0
      BY <1>1
    <3>3. window.ttl \/ window.n + 1 = 1
      BY <3>1, <3>2
    <3> QED
      BY <2>1, <3>3
  <2> QED
    BY <1>1, <2>1, <2>2 DEF WindowSound, WindowKept
<1>5. CASE ExpireWindow
  <2>1. window' \in Counts /\ window'.n = 0 /\ admitted' = 0
    BY <1>1, <1>5, CountersTyped DEF ExpireWindow
  <2> QED
    BY <1>1, <2>1 DEF WindowSound, WindowKept
<1> QED
  BY <1>2, <1>3, <1>4, <1>5 DEF LetIn

\* Requests can be counted.
LEMMA GuessesFinite ==
  ASSUME NEW n
  PROVE  /\ IsFiniteSet(Guessing(n)) /\ Cardinality(Guessing(n)) \in Nat
         /\ Cardinality(Requests) \in Nat
         /\ Cardinality(Guessing(n)) <= Cardinality(Requests)
         /\ IsFiniteSet(Guessing(n)') /\ Cardinality(Guessing(n)') \in Nat
         /\ Cardinality(Guessing(n)') <= Cardinality(Requests)
<1>1. IsFiniteSet(Requests) /\ Guessing(n) \subseteq Requests /\ Guessing(n)' \subseteq Requests
  BY SignInAssumption DEF SignInAssumption, Guessing
<1>2. /\ IsFiniteSet(Guessing(n)) /\ IsFiniteSet(Guessing(n)')
      /\ Cardinality(Guessing(n)) <= Cardinality(Requests)
      /\ Cardinality(Guessing(n)') <= Cardinality(Requests)
  BY <1>1, FS_Subset
<1> QED
  BY <1>1, <1>2, FS_CardinalityType

\* The count of a name and those who are guessing at it: a step that neither
\* counts nor lets in a guess, one that counts a guess, one that lets in a guess
\* after the check, and one that does so unchecked.
LEMMA GuessStep ==
  ASSUME Sane, NEW n \in Names, NEW r \in Requests,
         fails' \in [Names -> Counts], faults' \in Nat, faults' >= faults,
         fails[n].n + Cardinality(Guessing(n)) <= Limit - 1 + Cardinality(Requests) + faults,
         \/ Guessing(n)' \subseteq Guessing(n) /\ fails'[n].n <= fails[n].n
         \/ /\ Guessing(n)' = Guessing(n) \ {r} /\ r \in Guessing(n)
            /\ fails'[n].n = fails[n].n + 1
         \/ fails'[n].n < Limit
         \/ /\ Guessing(n)' \subseteq Guessing(n) \cup {r}
            /\ fails'[n].n = fails[n].n /\ faults' = faults + 1
  PROVE  fails'[n].n + Cardinality(Guessing(n)')
           <= Limit - 1 + Cardinality(Requests) + faults'
<1>1. /\ fails[n].n \in Nat /\ fails'[n].n \in Nat /\ faults \in Nat /\ Limit \in Nat
      /\ Cardinality(Guessing(n)) \in Nat /\ Cardinality(Guessing(n)') \in Nat
      /\ Cardinality(Requests) \in Nat
      /\ Cardinality(Guessing(n)') <= Cardinality(Requests)
  BY Kept, GuessesFinite, SignInAssumption DEF Counts, SignInAssumption
<1>2. CASE Guessing(n)' \subseteq Guessing(n) /\ fails'[n].n <= fails[n].n
  <2>1. Cardinality(Guessing(n)') <= Cardinality(Guessing(n))
    BY <1>2, GuessesFinite, FS_Subset
  <2> QED
    BY <1>1, <1>2, <2>1
<1>3. CASE /\ Guessing(n)' = Guessing(n) \ {r} /\ r \in Guessing(n)
           /\ fails'[n].n = fails[n].n + 1
  <2>1. Cardinality(Guessing(n)') = Cardinality(Guessing(n)) - 1
    BY <1>3, GuessesFinite, FS_RemoveElement
  <2> QED
    BY <1>1, <1>3, <2>1
<1>4. CASE fails'[n].n < Limit
  BY <1>1, <1>4
<1>5. CASE /\ Guessing(n)' \subseteq Guessing(n) \cup {r}
           /\ fails'[n].n = fails[n].n /\ faults' = faults + 1
  <2>1. IsFiniteSet(Guessing(n) \cup {r})
        /\ Cardinality(Guessing(n) \cup {r}) <= Cardinality(Guessing(n)) + 1
        /\ Cardinality(Guessing(n) \cup {r}) \in Nat
    <3>1. CASE r \in Guessing(n)
      <4>1. Guessing(n) \cup {r} = Guessing(n)
        BY <3>1
      <4>2. IsFiniteSet(Guessing(n) \cup {r})
        BY <4>1, GuessesFinite
      <4>3. Cardinality(Guessing(n) \cup {r}) = Cardinality(Guessing(n))
        BY <4>1
      <4> QED
        BY <1>1, <4>2, <4>3
    <3>2. CASE r \notin Guessing(n)
      <4>1. /\ IsFiniteSet(Guessing(n) \cup {r})
            /\ Cardinality(Guessing(n) \cup {r}) = Cardinality(Guessing(n)) + 1
        BY <3>2, GuessesFinite, FS_AddElement
      <4> QED
        BY <1>1, <4>1
    <3> QED
      BY <3>1, <3>2
  <2>2. Cardinality(Guessing(n)') <= Cardinality(Guessing(n) \cup {r})
    BY <1>5, <2>1, FS_Subset
  <2> QED
    BY <1>1, <1>5, <2>1, <2>2
<1> QED
  BY <1>2, <1>3, <1>4, <1>5

\* The accounts stay while no row is written.
LEMMA AccountsStay ==
  ASSUME OneUserPerName, UNCHANGED database
  PROVE  OneUserPerName'
BY DEF OneUserPerName, database

\* Sessions stay while no token is touched and no exchange ends.
LEMMA SessionsStay ==
  ASSUME SessionsGoOn, UNCHANGED sessions,
         \A q \in Requests : request[q].exchanged =>
           request'[q].exchanged /\ request'[q].user = request[q].user
  PROVE  SessionsGoOn'
BY DEF SessionsGoOn, sessions

\* A request goes on and neither writes a row nor touches a token.
LEMMA QuietStep ==
  ASSUME SignInSound, NEW r \in Requests, NEW l \in Locals, Goto(r, l), Fits(l)',
         request[r].pc # "issue",
         UNCHANGED <<database, sessions>>, LetIn \/ UNCHANGED <<window, admitted>>,
         fails' \in [Names -> Counts], faults' \in 0..MaxFaults, faults' >= faults,
         \A n \in Names :
           \/ /\ l.pc \in {"verify", "incr"} /\ l.name = n => r \in Guessing(n)
              /\ fails'[n].n <= fails[n].n
           \/ /\ l.pc \notin {"verify", "incr"} /\ r \in Guessing(n)
              /\ fails'[n].n = fails[n].n + 1
           \/ fails'[n].n < Limit
           \/ fails'[n].n = fails[n].n /\ faults' = faults + 1
  PROVE  SignInSound'
<1>1. Sane /\ WindowSound /\ GuessesCounted /\ OneUserPerName /\ SessionsGoOn
  BY DEF SignInSound
<1>2. UNCHANGED <<users, identity, key, signedIn>> /\ RowsStay
  BY DEF database, sessions, RowsStay
<1>3. /\ request' \in [Requests -> Locals] /\ \A q \in Requests : Fits(request[q])'
      /\ request'[r] = l /\ \A q \in Requests : q # r => request'[q] = request[q]
  <2>1. request' \in [Requests -> Locals] /\ \A q \in Requests : Fits(request[q])'
    BY <1>1, <1>2, GoesOn
  <2>2. request'[r] = l /\ \A q \in Requests : q # r => request'[q] = request[q]
    BY <1>1, Kept DEF Goto
  <2> QED
    BY <2>1, <2>2
<1>4. WindowSound' /\ window' \in Counts /\ window'.n <= RateLimit + 1
  BY <1>1, WindowGoesOn
<1>5. Sane'
  BY <1>1, <1>2, <1>3, <1>4, Kept DEF Sane, TypeOK
<1>6. GuessesCounted'
  <2>1. faults' \in Nat
    OBVIOUS
  <2>2. ASSUME NEW n \in Names
        PROVE  fails'[n].n + Cardinality(Guessing(n)')
                 <= Limit - 1 + Cardinality(Requests) + faults'
    <3>1. fails[n].n + Cardinality(Guessing(n)) <= Limit - 1 + Cardinality(Requests) + faults
      BY <1>1 DEF GuessesCounted
    <3>2. Guessing(n)' \subseteq Guessing(n) \cup {r}
      BY <1>3 DEF Guessing
    <3>3. CASE /\ l.pc \in {"verify", "incr"} /\ l.name = n => r \in Guessing(n)
               /\ fails'[n].n <= fails[n].n
      <4>1. Guessing(n)' \subseteq Guessing(n)
        BY <1>3, <3>3 DEF Guessing
      <4> QED
        BY <1>1, <2>1, <3>1, <3>3, <4>1, GuessStep
    <3>4. CASE /\ l.pc \notin {"verify", "incr"} /\ r \in Guessing(n)
               /\ fails'[n].n = fails[n].n + 1
      <4>1. Guessing(n)' = Guessing(n) \ {r}
        BY <1>3, <3>4 DEF Guessing
      <4> QED
        BY <1>1, <2>1, <3>1, <3>4, <4>1, GuessStep
    <3>5. CASE fails'[n].n < Limit
      BY <1>1, <2>1, <3>1, <3>5, GuessStep
    <3>6. CASE fails'[n].n = fails[n].n /\ faults' = faults + 1
      BY <1>1, <2>1, <3>1, <3>2, <3>6, GuessStep
    <3> QED
      BY <3>3, <3>4, <3>5, <3>6
  <2> QED
    BY <2>2 DEF GuessesCounted
<1>7. SessionsGoOn'
  <2>1. request[r].exchanged => request[r].pc = "issue"
    BY <1>1, Kept DEF Fits
  <2> QED
    BY <1>1, <1>3, <2>1, SessionsStay
<1> QED
  BY <1>1, <1>4, <1>5, <1>6, <1>7, AccountsStay DEF SignInSound

\* No request goes on: one is refused, or a counter's time is over.
LEMMA NoRequestStep ==
  ASSUME SignInSound,
         Refused \/ TurnedAway \/ ExpireWindow \/ \E n \in Names : ExpireFailures(n)
  PROVE  SignInSound'
<1>1. Sane /\ WindowSound /\ GuessesCounted /\ OneUserPerName /\ SessionsGoOn
  BY DEF SignInSound
<1>2. /\ UNCHANGED <<users, identity, key, signedIn, request, faults>>
      /\ UNCHANGED <<database, sessions>>
  BY DEF Refused, TurnedAway, ExpireWindow, ExpireFailures, database, sessions
<1>3. RowsStay
  BY <1>2, RowsUnchanged
<1>4. WindowSound' /\ window' \in Counts /\ window'.n <= RateLimit + 1
  BY <1>1, WindowGoesOn DEF Refused, ExpireFailures
<1>5. fails' \in [Names -> Counts] /\ \A n \in Names : fails'[n].n <= fails[n].n
  <2>1. fails \in [Names -> Counts] /\ \A n \in Names : fails[n] \in Counts /\ fails[n].n \in Nat
    BY <1>1, Kept DEF Counts
  <2>2. NoCount \in Counts /\ NoCount.n = 0
    BY DEF NoCount, Counts
  <2>3. CASE UNCHANGED fails
    BY <2>1, <2>3
  <2>4. ASSUME NEW n \in Names, ExpireFailures(n)
        PROVE  fails' \in [Names -> Counts] /\ \A m \in Names : fails'[m].n <= fails[m].n
    BY <2>1, <2>2, <2>4 DEF ExpireFailures
  <2> QED
    BY <2>3, <2>4 DEF Refused, TurnedAway, ExpireWindow
<1>6. Sane'
  BY <1>1, <1>2, <1>3, <1>4, <1>5, Kept, AllWait DEF Sane, TypeOK
<1>7. GuessesCounted'
  <2>1. ASSUME NEW n \in Names
        PROVE  fails'[n].n + Cardinality(Guessing(n)')
                 <= Limit - 1 + Cardinality(Requests) + faults'
    <3>1. fails[n].n + Cardinality(Guessing(n)) <= Limit - 1 + Cardinality(Requests) + faults
      BY <1>1 DEF GuessesCounted
    <3>2. Guessing(n)' = Guessing(n)
      BY <1>2 DEF Guessing
    <3>3. /\ fails'[n].n \in Nat /\ fails[n].n \in Nat /\ faults \in Nat /\ Limit \in Nat
          /\ Cardinality(Guessing(n)) \in Nat /\ Cardinality(Requests) \in Nat
      BY <1>1, <1>5, Kept, GuessesFinite, SignInAssumption DEF Counts, SignInAssumption
    <3> QED
      BY <1>2, <1>5, <3>1, <3>2, <3>3
  <2> QED
    BY <2>1 DEF GuessesCounted
<1> QED
  BY <1>1, <1>2, <1>4, <1>6, <1>7, AccountsStay, SessionsStay DEF SignInSound

\* Signing in with a password, up to the answer.
LEMMA PasswordStep ==
  ASSUME SignInSound, NEW r \in Requests, NEW n \in Names,
         PasswordLogin(r, n) \/ CounterUnread(r, n)
  PROVE  SignInSound'
<1>1. Sane /\ fails \in [Names -> Counts] /\ faults \in 0..MaxFaults
  BY Kept DEF SignInSound
<1>2. PICK pc \in {"verify", "insert"} :
        pc = "verify" /\ Goto(r, About(pc, n))
  BY DEF PasswordLogin, CounterUnread, About
<1>3. PICK l \in Locals :
        /\ Goto(r, l) /\ Fits(l)' /\ l.pc = pc /\ l.name = n
  BY <1>2, ToName
<1>4. /\ request[r].pc = "idle" /\ LetIn /\ l.pc = "verify" /\ l.name = n
      /\ UNCHANGED <<database, sessions, fails>>
      /\ \/ faults' = faults /\ ~Blocked(n)
         \/ faults' = faults + 1 /\ faults < MaxFaults
  BY <1>2, <1>3 DEF PasswordLogin, CounterUnread, At, Fault
<1>5. faults' \in 0..MaxFaults /\ faults' >= faults
  BY <1>1, <1>4, SignInAssumption DEF SignInAssumption
<1>6. ASSUME NEW m \in Names
      PROVE  \/ /\ l.pc \in {"verify", "incr"} /\ l.name = m => r \in Guessing(m)
                /\ fails'[m].n <= fails[m].n
             \/ fails'[m].n < Limit
             \/ fails'[m].n = fails[m].n /\ faults' = faults + 1
  <2>1. fails[m].n \in Nat /\ Limit \in Nat /\ fails'[m] = fails[m]
    BY <1>1, <1>4, SignInAssumption DEF Counts, SignInAssumption
  <2>2. CASE m # n
    BY <1>3, <2>1, <2>2
  <2>3. CASE m = n
    BY <1>4, <2>1, <2>3 DEF Blocked
  <2> QED
    BY <2>2, <2>3
<1> QED
  BY <1>1, <1>3, <1>4, <1>5, <1>6, QuietStep

\* A password is wrong, or it is right and its name has a user.
LEMMA VerifyStep ==
  ASSUME SignInSound, NEW r \in Requests, WrongPassword(r) \/ RightPassword(r)
  PROVE  SignInSound'
<1>1. Sane /\ fails \in [Names -> Counts] /\ faults \in 0..MaxFaults
  BY Kept DEF SignInSound
<1>2. PICK pc \in {"incr", "clear"} :
        /\ Step(r, pc) /\ request[r].pc = "verify"
        /\ pc = "clear" => identity[request[r].name] # NoUser
        /\ UNCHANGED <<database, limits, sessions, faults>>
  BY DEF WrongPassword, RightPassword, At, FindAuthByProvider
<1>3. PICK l : l = [request[r] EXCEPT !.pc = pc]
  OBVIOUS
<1>4. UNCHANGED <<identity, fails, window, admitted>>
  BY <1>2 DEF database, limits
<1>5. l \in Locals /\ Fits(l)' /\ l.pc = pc /\ l.name = request[r].name
  BY <1>1, <1>2, <1>3, <1>4, ToNext
<1>6. Goto(r, l)
  BY <1>2, <1>3 DEF Step
<1>7. ASSUME NEW m \in Names
      PROVE  /\ l.pc \in {"verify", "incr"} /\ l.name = m => r \in Guessing(m)
             /\ fails'[m].n <= fails[m].n
  BY <1>1, <1>2, <1>4, <1>5 DEF Guessing, Counts
<1> QED
  BY <1>1, <1>2, <1>4, <1>5, <1>6, <1>7, QuietStep

\* A wrong password is counted: the guess moves into the count.
LEMMA CountStep ==
  ASSUME SignInSound, NEW r \in Requests, CountFailure(r)
  PROVE  SignInSound'
<1>1. Sane /\ fails \in [Names -> Counts] /\ faults \in 0..MaxFaults
  BY Kept DEF SignInSound
<1>2. PICK n : n = request[r].name
  OBVIOUS
<1>3. /\ request[r].pc = "incr" /\ fails' = [fails EXCEPT ![n].n = @ + 1]
      /\ Step(r, "expire") /\ UNCHANGED <<database, window, admitted, sessions, faults>>
  BY <1>2 DEF CountFailure, At
<1>4. n \in Names
  BY <1>1, <1>2, <1>3, Kept DEF Fits
<1>5. PICK l : l = [request[r] EXCEPT !.pc = "expire"]
  OBVIOUS
<1>6. l \in Locals /\ Fits(l)' /\ l.pc = "expire"
  BY <1>1, <1>3, <1>5, ToNext DEF database
<1>7. Goto(r, l)
  BY <1>3, <1>5 DEF Step
<1>8. /\ fails' \in [Names -> Counts] /\ fails'[n].n = fails[n].n + 1
      /\ \A m \in Names : m # n => fails'[m] = fails[m]
  <2>1. fails' = [fails EXCEPT ![n] = [fails[n] EXCEPT !.n = @ + 1]]
    BY <1>1, <1>3, <1>4
  <2> QED
    BY <1>1, <1>4, <2>1, CountersTyped
<1>9. r \in Guessing(n)
  BY <1>2, <1>3 DEF Guessing
<1>10. \A m \in Names : fails[m].n \in Nat
  BY <1>1 DEF Counts
<1> QED
  BY <1>1, <1>3, <1>6, <1>7, <1>8, <1>9, <1>10, QuietStep

\* Setting the expiry, clearing the count, answering, and the calls that fail
\* without anybody noticing.
LEMMA AfterCountStep ==
  ASSUME SignInSound, NEW r \in Requests,
         ArmExpiry(r) \/ ClearFailures(r) \/ ErrorIgnored(r)
  PROVE  SignInSound'
<1>1. Sane /\ fails \in [Names -> Counts] /\ faults \in 0..MaxFaults
  BY Kept DEF SignInSound
<1>2. Fits(request[r]) /\ identity \in [Names -> Users \cup {NoUser}]
  BY <1>1, Kept
<1>3. ASSUME NEW l \in Locals, Goto(r, l), Fits(l)',
             l.pc \in {"idle", "issue", "expire"},
             request[r].pc # "issue",
             UNCHANGED <<database, sessions>>, UNCHANGED <<window, admitted>>,
             fails' \in [Names -> Counts], faults' \in 0..MaxFaults, faults' >= faults,
             \A n \in Names : fails'[n].n <= fails[n].n
      PROVE  SignInSound'
  BY <1>1, <1>3, QuietStep
<1>4. ASSUME NEW n \in Names, NEW c \in Counts, c.n <= fails[n].n,
             fails' = [fails EXCEPT ![n] = c]
      PROVE  fails' \in [Names -> Counts] /\ \A m \in Names : fails'[m].n <= fails[m].n
  BY <1>1, <1>4 DEF Counts
<1>5. CASE ArmExpiry(r)
  <2>1. PICK n : n = request[r].name
    OBVIOUS
  <2>2. n \in Names
    BY <1>2, <1>5, <2>1 DEF ArmExpiry, At, Fits
  <2>3. fails' = [fails EXCEPT ![n] = Armed(fails[n])] /\ fails[n] \in Counts
    BY <1>1, <1>5, <2>1, <2>2 DEF ArmExpiry
  <2>4. PICK c \in Counts : c = Armed(fails[n]) /\ c.n = fails[n].n
    BY <2>3, CountersTyped
  <2>5. fails' \in [Names -> Counts] /\ \A m \in Names : fails'[m].n <= fails[m].n
    <3>1. c.n <= fails[n].n
      BY <2>3, <2>4 DEF Counts
    <3>2. fails' = [fails EXCEPT ![n] = c]
      BY <2>3, <2>4
    <3> QED
      BY <1>4, <2>2, <2>4, <3>1, <3>2
  <2>6. PICK l : l = Idle
    OBVIOUS
  <2>7. l \in Locals /\ Fits(l)' /\ l.pc = "idle" /\ Goto(r, l)
    BY <1>5, <2>6, ToIdle DEF ArmExpiry, Answer
  <2> QED
    BY <1>1, <1>3, <1>5, <2>5, <2>7 DEF ArmExpiry, At
<1>6. CASE ClearFailures(r)
  <2>1. PICK n : n = request[r].name
    OBVIOUS
  <2>2. n \in Names /\ identity[n] \in Users
    BY <1>2, <1>6, <2>1 DEF ClearFailures, At, Fits
  <2>3. fails' = [fails EXCEPT ![n] = Cleared(fails[n])] /\ fails[n] \in Counts
    BY <1>1, <1>6, <2>1, <2>2 DEF ClearFailures
  <2>4. PICK c \in Counts : c = Cleared(fails[n]) /\ c.n = 0
    BY <2>3, CountersTyped
  <2>5. fails' \in [Names -> Counts] /\ \A m \in Names : fails'[m].n <= fails[m].n
    <3>1. c.n <= fails[n].n
      BY <2>3, <2>4 DEF Counts
    <3>2. fails' = [fails EXCEPT ![n] = c]
      BY <2>3, <2>4
    <3> QED
      BY <1>4, <2>2, <2>4, <3>1, <3>2
  <2>6. PICK u \in Users : u = identity[n]
    BY <2>2
  <2>7. Issue(r, u, FALSE)
    BY <1>6, <2>1, <2>6 DEF ClearFailures
  <2>8. PICK l \in Locals : Goto(r, l) /\ Fits(l)' /\ l.pc = "issue"
    BY <2>7, ToIssue
  <2> QED
    BY <1>1, <1>3, <1>6, <2>5, <2>8 DEF ClearFailures, At
<1>7. CASE ErrorIgnored(r)
  <2>1. /\ UNCHANGED <<database, sessions, fails, window, admitted>>
        /\ faults' = faults + 1 /\ faults < MaxFaults
    BY <1>7 DEF ErrorIgnored, Fault, limits
  <2>2. /\ faults' \in 0..MaxFaults /\ faults' >= faults /\ fails' \in [Names -> Counts]
        /\ \A m \in Names : fails'[m].n <= fails[m].n
    BY <1>1, <2>1, SignInAssumption DEF Counts, SignInAssumption
  <2>3. CASE At(r, "incr") /\ Step(r, "expire")
    <3>1. PICK l : l = [request[r] EXCEPT !.pc = "expire"]
      OBVIOUS
    <3>2. l \in Locals /\ Fits(l)' /\ l.pc = "expire" /\ Goto(r, l)
      BY <1>1, <2>1, <2>3, <3>1, ToNext DEF database, At, Step
    <3> QED
      BY <1>3, <2>1, <2>2, <2>3, <3>2 DEF At
  <2>4. CASE At(r, "expire") /\ Answer(r)
    <3>1. PICK l : l = Idle
      OBVIOUS
    <3>2. l \in Locals /\ Fits(l)' /\ l.pc = "idle" /\ Goto(r, l)
      BY <2>4, <3>1, ToIdle DEF Answer
    <3> QED
      BY <1>3, <2>1, <2>2, <2>4, <3>2 DEF At
  <2>5. ASSUME NEW u \in Users, NEW b \in BOOLEAN, Issue(r, u, b), request[r].pc # "issue"
        PROVE  SignInSound'
    <3>1. PICK l \in Locals : Goto(r, l) /\ Fits(l)' /\ l.pc = "issue"
      BY <2>5, ToIssue
    <3> QED
      BY <1>3, <2>1, <2>2, <2>5, <3>1
  <2>6. CASE At(r, "clear") /\ Issue(r, identity[request[r].name], FALSE)
    <3>1. PICK u \in Users : u = identity[request[r].name]
      BY <1>2, <2>6 DEF At, Fits
    <3> QED
      BY <2>5, <2>6, <3>1 DEF At
  <2>7. CASE At(r, "delete") /\ Issue(r, request[r].user, TRUE)
    <3>1. PICK u \in Users : u = request[r].user
      BY <1>2, <2>7 DEF At, Fits
    <3> QED
      BY <2>5, <2>7, <3>1 DEF At
  <2> QED
    BY <1>7, <2>3, <2>4, <2>6, <2>7 DEF ErrorIgnored
<1> QED
  BY <1>5, <1>6, <1>7

\* A WeChat sign-in of a name that is known, and requests that go on to insert a
\* row or to exchange a token.
LEMMA OtherStarts ==
  ASSUME SignInSound, NEW r \in Requests,
         \/ \E n \in Names : Register(r, n) \/ WechatMiniProgramLogin(r, n)
         \/ \E t \in Tokens : Refresh(r, t)
  PROVE  SignInSound'
<1>1. /\ Sane /\ fails \in [Names -> Counts] /\ faults \in 0..MaxFaults
      /\ identity \in [Names -> Users \cup {NoUser}] /\ key \in [Tokens -> Users \cup {NoUser}]
  BY Kept DEF SignInSound
<1>2. /\ request[r].pc = "idle" /\ LetIn
      /\ UNCHANGED <<database, sessions, fails, faults>>
  BY DEF Register, WechatMiniProgramLogin, Refresh, At
<1>3. PICK l \in Locals : Goto(r, l) /\ Fits(l)' /\ l.pc \in {"insert", "issue", "delete"}
  <2>1. ASSUME NEW n \in Names, Goto(r, [Idle EXCEPT !.pc = "insert", !.name = n])
        PROVE  \E l \in Locals :
                 Goto(r, l) /\ Fits(l)' /\ l.pc \in {"insert", "issue", "delete"}
    <3>1. PICK pc \in {"verify", "insert"} :
            pc = "insert" /\ Goto(r, About(pc, n))
      BY <2>1 DEF About
    <3>2. PICK l \in Locals :
            /\ Goto(r, l) /\ Fits(l)' /\ l.pc = pc /\ l.name = n
      BY <3>1, ToName
    <3> QED
      BY <3>1, <3>2
  <2>2. ASSUME NEW n \in Names, WechatMiniProgramLogin(r, n), FindAuthByProvider(n)
        PROVE  \E l \in Locals :
                 Goto(r, l) /\ Fits(l)' /\ l.pc \in {"insert", "issue", "delete"}
    <3>1. PICK u \in Users : u = identity[n]
      BY <1>1, <2>2 DEF FindAuthByProvider
    <3>2. Issue(r, u, FALSE)
      BY <2>2, <3>1 DEF WechatMiniProgramLogin
    <3>3. PICK l \in Locals : Goto(r, l) /\ Fits(l)' /\ l.pc = "issue"
      BY <3>2, ToIssue
    <3> QED
      BY <3>3
  <2>3. ASSUME NEW t \in Tokens, Refresh(r, t)
        PROVE  \E l \in Locals :
                 Goto(r, l) /\ Fits(l)' /\ l.pc \in {"insert", "issue", "delete"}
    <3>1. PICK u \in Users : u = key[t]
      BY <1>1, <2>3 DEF Refresh
    <3>2. key'[t] \in {NoUser, u}
      BY <1>2, <3>1 DEF sessions
    <3>3. Goto(r, [Idle EXCEPT !.pc = "delete", !.user = u, !.token = t])
      BY <2>3, <3>1 DEF Refresh
    <3> QED
      BY <3>2, <3>3, ToDelete
  <2> QED
    BY <2>1, <2>2, <2>3 DEF Register, WechatMiniProgramLogin
<1>4. \A m \in Names : fails[m].n \in Nat
  BY <1>1 DEF Counts
<1>5. ASSUME NEW m \in Names
      PROVE  /\ l.pc \in {"verify", "incr"} /\ l.name = m => r \in Guessing(m)
             /\ fails'[m].n <= fails[m].n
  BY <1>2, <1>3, <1>4
<1> QED
  BY <1>1, <1>2, <1>3, <1>5, QuietStep

\* What requests and counters are after a step that only takes a request on
\* and lets it guess no more.
LEMMA RestGoesOn ==
  ASSUME SignInSound, RowsStay, UNCHANGED limits, NEW r \in Requests,
         NEW l \in Locals, Goto(r, l), Fits(l)', l.pc \notin {"verify", "incr"},
         users' \subseteq Users, identity' \in [Names -> Users \cup {NoUser}],
         key' \in [Tokens -> Users \cup {NoUser}], signedIn' \subseteq Users,
         faults' \in 0..MaxFaults, faults' >= faults
  PROVE  /\ Sane' /\ WindowSound' /\ GuessesCounted'
         /\ request'[r] = l /\ \A q \in Requests : q # r => request'[q] = request[q]
<1>1. Sane /\ WindowSound /\ GuessesCounted
  BY DEF SignInSound
<1>2. /\ request' \in [Requests -> Locals] /\ \A q \in Requests : Fits(request[q])'
      /\ request'[r] = l /\ \A q \in Requests : q # r => request'[q] = request[q]
  <2>1. request' \in [Requests -> Locals] /\ \A q \in Requests : Fits(request[q])'
    BY <1>1, GoesOn
  <2>2. request'[r] = l /\ \A q \in Requests : q # r => request'[q] = request[q]
    BY <1>1, Kept DEF Goto
  <2> QED
    BY <2>1, <2>2
<1>3. UNCHANGED <<fails, window, admitted>>
  BY DEF limits
<1>4. WindowSound' /\ window' \in Counts /\ window'.n <= RateLimit + 1
  BY <1>1, <1>3, WindowGoesOn
<1>5. Sane'
  BY <1>1, <1>2, <1>3, <1>4, Kept DEF Sane, TypeOK
<1>6. GuessesCounted'
  <2>1. ASSUME NEW n \in Names
        PROVE  fails'[n].n + Cardinality(Guessing(n)')
                 <= Limit - 1 + Cardinality(Requests) + faults'
    <3>1. fails[n].n + Cardinality(Guessing(n)) <= Limit - 1 + Cardinality(Requests) + faults
      BY <1>1 DEF GuessesCounted
    <3>2. Guessing(n)' \subseteq Guessing(n)
      BY <1>2 DEF Guessing
    <3>3. fails \in [Names -> Counts] /\ fails[n].n \in Nat /\ faults' \in Nat
      BY <1>1, Kept DEF Counts
    <3> QED
      BY <1>1, <1>3, <3>1, <3>2, <3>3, GuessStep
  <2> QED
    BY <2>1 DEF GuessesCounted
<1> QED
  BY <1>2, <1>4, <1>5, <1>6

\* A buyer who comes twice at once is one user: the name is unique.
LEMMA InsertStep ==
  ASSUME SignInSound, NEW r \in Requests, NEW u \in Users, CreateUserWithAuth(r, u)
  PROVE  SignInSound'
<1>1. /\ Sane /\ OneUserPerName /\ SessionsGoOn /\ faults \in 0..MaxFaults
      /\ users \subseteq Users /\ identity \in [Names -> Users \cup {NoUser}]
      /\ key \in [Tokens -> Users \cup {NoUser}] /\ signedIn \subseteq Users
      /\ Fits(request[r])
  BY Kept DEF SignInSound
<1>2. PICK n \in Names : n = request[r].name
  BY <1>1 DEF CreateUserWithAuth, At, Fits
<1>3. /\ request[r].pc = "insert" /\ u \notin users
      /\ UNCHANGED limits /\ UNCHANGED <<key, signedIn, faults>>
  BY DEF CreateUserWithAuth, At, sessions
<1>4. \/ /\ identity[n] = NoUser /\ users' = users \cup {u}
         /\ identity' = [identity EXCEPT ![n] = u] /\ Issue(r, u, FALSE)
      \/ UNCHANGED <<users, identity>> /\ Answer(r)
  BY <1>2 DEF CreateUserWithAuth, RollBackUser
<1>5. u # NoUser
  BY SignInAssumption DEF SignInAssumption
<1>6. /\ users' \subseteq Users /\ identity' \in [Names -> Users \cup {NoUser}]
      /\ RowsStay /\ OneUserPerName'
  <2>1. CASE UNCHANGED <<users, identity>>
    BY <1>1, <1>3, <2>1 DEF OneUserPerName, RowsStay
  <2>2. CASE /\ identity[n] = NoUser /\ users' = users \cup {u}
             /\ identity' = [identity EXCEPT ![n] = u]
    <3>1. identity'[n] = u /\ \A m \in Names : m # n => identity'[m] = identity[m]
      BY <1>1, <2>2
    <3>2. \A m \in Names : identity[m] # NoUser => identity[m] \in users /\ identity[m] # u
      BY <1>1, <1>3 DEF OneUserPerName
    <3>3. \A m, k \in Names : identity'[m] = identity'[k] => m = k \/ identity'[m] = NoUser
      BY <1>1, <1>5, <3>1, <3>2 DEF OneUserPerName
    <3>4. users = {identity[m] : m \in Names} \ {NoUser}
      BY <1>1 DEF OneUserPerName
    <3>5. users' = {identity'[m] : m \in Names} \ {NoUser}
      BY <1>5, <2>2, <3>1, <3>4
    <3>6. RowsStay
      BY <1>3, <1>5, <2>2, <3>1 DEF RowsStay
    <3> QED
      BY <1>1, <2>2, <3>3, <3>5, <3>6 DEF OneUserPerName
  <2> QED
    BY <1>4, <2>1, <2>2
<1>7. PICK l \in Locals : Goto(r, l) /\ Fits(l)' /\ l.pc \in {"idle", "issue"}
  <2>1. CASE Issue(r, u, FALSE)
    BY <2>1, ToIssue
  <2>2. CASE Answer(r)
    BY <2>2, ToIdle DEF Answer
  <2> QED
    BY <1>4, <2>1, <2>2
<1>8. /\ Sane' /\ WindowSound' /\ GuessesCounted'
      /\ \A q \in Requests : q # r => request'[q] = request[q]
  BY <1>1, <1>3, <1>6, <1>7, RestGoesOn
<1>9. SessionsGoOn'
  <2>1. ~request[r].exchanged
    BY <1>1, <1>3 DEF Fits
  <2> QED
    BY <1>1, <1>3, <1>8, <2>1 DEF SessionsGoOn
<1> QED
  BY <1>6, <1>8, <1>9 DEF SignInSound

\* A token is stored, and the session goes on with it.
LEMMA StoreStep ==
  ASSUME SignInSound, NEW r \in Requests, NEW t \in Tokens, StoreToken(r, t)
  PROVE  SignInSound'
<1>1. /\ Sane /\ OneUserPerName /\ SessionsGoOn /\ faults \in 0..MaxFaults
      /\ users \subseteq Users /\ identity \in [Names -> Users \cup {NoUser}]
      /\ key \in [Tokens -> Users \cup {NoUser}] /\ signedIn \subseteq Users
      /\ Fits(request[r])
  BY Kept DEF SignInSound
<1>2. PICK u \in Users : u = request[r].user
  BY <1>1 DEF StoreToken, At, Fits
<1>3. /\ key[t] = NoUser /\ \A q \in Requests : request[q].token # t
      /\ key' = [key EXCEPT ![t] = u] /\ signedIn' = signedIn \cup {u}
      /\ Answer(r) /\ UNCHANGED limits /\ UNCHANGED database
      /\ UNCHANGED <<users, identity, faults>>
  BY <1>2 DEF StoreToken, database
<1>4. key'[t] = u /\ \A s \in Tokens : s # t => key'[s] = key[s]
  BY <1>1, <1>3
<1>5. RowsStay
  BY <1>3, <1>4 DEF RowsStay
<1>6. PICK l \in Locals : Goto(r, l) /\ Fits(l)' /\ l.pc = "idle"
  BY <1>3, ToIdle DEF Answer
<1>7. key' \in [Tokens -> Users \cup {NoUser}] /\ signedIn' \subseteq Users
  BY <1>1, <1>3
<1>8. /\ Sane' /\ WindowSound' /\ GuessesCounted'
      /\ \A q \in Requests : q # r => request'[q] = request[q]
  BY <1>1, <1>3, <1>5, <1>6, <1>7, RestGoesOn
<1>9. SessionsGoOn'
  <2>1. ASSUME NEW v \in signedIn', v # u
        PROVE  \/ \E s \in Tokens : key'[s] = v
               \/ \E q \in Requests : request'[q].exchanged /\ request'[q].user = v
    <3>1. v \in signedIn /\ v # NoUser
      BY <1>1, <1>3, <2>1, SignInAssumption DEF SignInAssumption
    <3>2. CASE \E s \in Tokens : key[s] = v
      BY <1>3, <1>4, <3>1, <3>2
    <3>3. CASE \E q \in Requests : request[q].exchanged /\ request[q].user = v
      BY <1>2, <1>8, <2>1, <3>3
    <3> QED
      BY <1>1, <3>1, <3>2, <3>3 DEF SessionsGoOn
  <2> QED
    BY <1>4, <2>1 DEF SessionsGoOn
<1> QED
  BY <1>1, <1>3, <1>8, <1>9, AccountsStay DEF SignInSound

\* Whether a token was deleted before or not, its user goes on with the next.
LEMMA ExchangeStep ==
  ASSUME SignInSound, NEW r \in Requests, DeleteExchanged(r)
  PROVE  SignInSound'
<1>1. /\ Sane /\ OneUserPerName /\ SessionsGoOn /\ faults \in 0..MaxFaults
      /\ users \subseteq Users /\ identity \in [Names -> Users \cup {NoUser}]
      /\ key \in [Tokens -> Users \cup {NoUser}] /\ signedIn \subseteq Users
      /\ Fits(request[r])
  BY Kept DEF SignInSound
<1>2. PICK u \in Users, t \in Tokens :
        u = request[r].user /\ t = request[r].token /\ key[t] \in {NoUser, u}
  BY <1>1 DEF DeleteExchanged, At, Fits
<1>3. /\ key' = [key EXCEPT ![t] = NoUser] /\ Issue(r, u, TRUE)
      /\ UNCHANGED limits /\ UNCHANGED database
      /\ UNCHANGED <<users, identity, signedIn, faults>> /\ request[r].pc = "delete"
  BY <1>2 DEF DeleteExchanged, Exchange, At, database
<1>4. key'[t] = NoUser /\ \A s \in Tokens : s # t => key'[s] = key[s]
  BY <1>1, <1>3
<1>5. RowsStay
  BY <1>3, <1>4 DEF RowsStay
<1>6. PICK l \in Locals :
        Goto(r, l) /\ Fits(l)' /\ l.pc = "issue" /\ l.user = u /\ l.exchanged = TRUE
  BY <1>3, ToIssue
<1>7. key' \in [Tokens -> Users \cup {NoUser}]
  BY <1>1, <1>3
<1>8. /\ Sane' /\ WindowSound' /\ GuessesCounted' /\ request'[r] = l
      /\ \A q \in Requests : q # r => request'[q] = request[q]
  BY <1>1, <1>3, <1>5, <1>6, <1>7, RestGoesOn
<1>9. SessionsGoOn'
  <2>1. ASSUME NEW v \in signedIn', v # u
        PROVE  \/ \E s \in Tokens : key'[s] = v
               \/ \E q \in Requests : request'[q].exchanged /\ request'[q].user = v
    <3>1. v \in signedIn /\ v # NoUser
      BY <1>1, <1>3, <2>1, SignInAssumption DEF SignInAssumption
    <3>2. CASE \E s \in Tokens : key[s] = v
      BY <1>2, <1>4, <2>1, <3>1, <3>2
    <3>3. CASE \E q \in Requests : request[q].exchanged /\ request[q].user = v
      BY <1>2, <1>8, <2>1, <3>3
    <3> QED
      BY <1>1, <3>1, <3>2, <3>3 DEF SessionsGoOn
  <2> QED
    BY <1>6, <1>8, <2>1 DEF SessionsGoOn
<1> QED
  BY <1>1, <1>3, <1>8, <1>9, AccountsStay DEF SignInSound

\* A request is cut off, and with it the session whose token it was exchanging.
LEMMA CutOffStep ==
  ASSUME SignInSound, NEW r \in Requests, CutOff(r)
  PROVE  SignInSound'
<1>1. /\ Sane /\ OneUserPerName /\ SessionsGoOn /\ faults \in 0..MaxFaults
      /\ users \subseteq Users /\ identity \in [Names -> Users \cup {NoUser}]
      /\ key \in [Tokens -> Users \cup {NoUser}] /\ signedIn \subseteq Users
  BY Kept DEF SignInSound
<1>2. /\ faults < MaxFaults /\ faults' = faults + 1 /\ Answer(r)
      /\ UNCHANGED database /\ UNCHANGED limits /\ UNCHANGED <<users, identity, key>>
      /\ signedIn' \subseteq signedIn
      /\ request[r].exchanged => signedIn' = signedIn \ {request[r].user}
  BY DEF CutOff, Fault, database
<1>3. faults' \in 0..MaxFaults /\ faults' >= faults
  BY <1>1, <1>2, SignInAssumption DEF SignInAssumption
<1>4. RowsStay
  BY <1>2, RowsUnchanged
<1>5. PICK l \in Locals : Goto(r, l) /\ Fits(l)' /\ l.pc = "idle"
  BY <1>2, ToIdle DEF Answer
<1>6. signedIn' \subseteq Users
  BY <1>1, <1>2
<1>7. /\ Sane' /\ WindowSound' /\ GuessesCounted'
      /\ \A q \in Requests : q # r => request'[q] = request[q]
  BY <1>1, <1>2, <1>3, <1>4, <1>5, <1>6, RestGoesOn
<1>8. SessionsGoOn'
  <2>1. ASSUME NEW v \in signedIn'
        PROVE  \/ \E s \in Tokens : key'[s] = v
               \/ \E q \in Requests : request'[q].exchanged /\ request'[q].user = v
    <3>1. v \in signedIn
      BY <1>2, <2>1
    <3>2. CASE \E s \in Tokens : key[s] = v
      BY <1>2, <3>2
    <3>3. CASE \E q \in Requests : request[q].exchanged /\ request[q].user = v
      BY <1>2, <1>7, <2>1, <3>3
    <3> QED
      BY <1>1, <3>1, <3>2, <3>3 DEF SessionsGoOn
  <2> QED
    BY <2>1 DEF SessionsGoOn
<1> QED
  BY <1>1, <1>2, <1>7, <1>8, AccountsStay DEF SignInSound

\* A session ends, and no other one with it.
LEMMA EndStep ==
  ASSUME SignInSound, NEW t \in Tokens, End(t)
  PROVE  SignInSound'
<1>1. /\ Sane /\ WindowSound /\ GuessesCounted /\ OneUserPerName /\ SessionsGoOn
      /\ key \in [Tokens -> Users \cup {NoUser}] /\ signedIn \subseteq Users
  BY Kept DEF SignInSound
<1>2. /\ key' = [key EXCEPT ![t] = NoUser] /\ signedIn' = signedIn \ {key[t]}
      /\ UNCHANGED database /\ UNCHANGED <<window, admitted>>
      /\ UNCHANGED <<users, identity, fails, window, admitted, request, faults>>
  BY DEF End, database, limits
<1>3. key'[t] = NoUser /\ \A s \in Tokens : s # t => key'[s] = key[s]
  BY <1>1, <1>2
<1>4. RowsStay
  BY <1>2, <1>3 DEF RowsStay
<1>5. request' \in [Requests -> Locals] /\ \A q \in Requests : Fits(request[q])'
  BY <1>1, <1>2, <1>4, AllWait
<1>6. key' \in [Tokens -> Users \cup {NoUser}] /\ signedIn' \subseteq Users
  BY <1>1, <1>2
<1>7. WindowSound'
  BY <1>1, <1>2, WindowGoesOn
<1>8. Sane'
  BY <1>1, <1>2, <1>5, <1>6, Kept DEF Sane, TypeOK
<1>9. GuessesCounted'
  BY <1>1, <1>2 DEF GuessesCounted, Guessing
<1>10. SessionsGoOn'
  BY <1>1, <1>2, <1>3 DEF SessionsGoOn
<1> QED
  BY <1>1, <1>2, <1>7, <1>8, <1>9, <1>10, AccountsStay DEF SignInSound

-----------------------------------------------------------------------------
(***************************************************************************)
(* The theorems.                                                           *)
(***************************************************************************)

\* The invariant holds at the start.
LEMMA Starts == Init => SignInSound
<1> SUFFICES ASSUME Init PROVE SignInSound
  OBVIOUS
<1>1. NoCount \in Counts /\ NoCount.n = 0 /\ ~NoCount.ttl
  BY DEF NoCount, Counts
<1>2. /\ RateLimit \in Nat \ {0} /\ Limit \in Nat \ {0} /\ MaxFaults \in Nat
      /\ Cardinality(Requests) \in Nat
  BY SignInAssumption, FS_CardinalityType DEF SignInAssumption
<1>3. Idle \in Locals /\ Idle.pc = "idle" /\ Idle.token = NoToken /\ ~Idle.exchanged
  BY DEF Idle, Locals, Steps
<1>4. Sane
  BY <1>1, <1>2, <1>3 DEF Init, Sane, TypeOK, Fits
<1>5. WindowSound
  BY <1>1, <1>2 DEF Init, WindowSound, WindowKept
<1>6. GuessesCounted
  <2>1. \A n \in Names : Guessing(n) = {}
    BY <1>3 DEF Init, Guessing
  <2>2. Cardinality({}) = 0
    BY FS_EmptySet
  <2>3. ASSUME NEW n \in Names
        PROVE  fails[n].n = 0 /\ Cardinality(Guessing(n)) = 0 /\ faults = 0
    BY <1>1, <2>1, <2>2 DEF Init
  <2>4. 0 + 0 <= Limit - 1 + Cardinality(Requests) + 0
    BY <1>2
  <2> QED
    BY <2>3, <2>4 DEF GuessesCounted
<1>7. OneUserPerName /\ SessionsGoOn
  BY DEF Init, OneUserPerName, SessionsGoOn
<1> QED
  BY <1>4, <1>5, <1>6, <1>7 DEF SignInSound

\* It depends on nothing but the variables.
LEMMA Stays ==
  ASSUME SignInSound, UNCHANGED vars
  PROVE  SignInSound'
BY DEF vars, database, limits, sessions, SignInSound, Sane, TypeOK, Fits,
     WindowSound, WindowKept, GuessesCounted, Guessing, OneUserPerName, SessionsGoOn

\* Every step keeps it.
LEMMA EveryStep == SignInSound /\ [Next]_vars => SignInSound'
<1> SUFFICES ASSUME SignInSound, [Next]_vars PROVE SignInSound'
  OBVIOUS
<1>1. CASE UNCHANGED vars
  BY <1>1, Stays
<1>2. CASE Refused \/ TurnedAway \/ ExpireWindow \/ \E n \in Names : ExpireFailures(n)
  BY <1>2, NoRequestStep
<1>3. CASE \E t \in Tokens : Logout(t) \/ ExpireToken(t)
  BY <1>3, EndStep DEF Logout, ExpireToken
<1>4. ASSUME NEW r \in Requests,
             \/ WrongPassword(r) \/ RightPassword(r) \/ CountFailure(r)
             \/ ArmExpiry(r) \/ ClearFailures(r) \/ ErrorIgnored(r)
      PROVE  SignInSound'
  BY <1>4, VerifyStep, CountStep, AfterCountStep
<1>5. ASSUME NEW r \in Requests, DeleteExchanged(r) \/ CutOff(r)
      PROVE  SignInSound'
  BY <1>5, ExchangeStep, CutOffStep
<1>6. ASSUME NEW r \in Requests,
             \E n \in Names : \/ PasswordLogin(r, n) \/ Register(r, n)
                              \/ WechatMiniProgramLogin(r, n) \/ CounterUnread(r, n)
      PROVE  SignInSound'
  BY <1>6, PasswordStep, OtherStarts
<1>7. ASSUME NEW r \in Requests,
             \/ \E u \in Users : CreateUserWithAuth(r, u)
             \/ \E t \in Tokens : StoreToken(r, t) \/ Refresh(r, t)
      PROVE  SignInSound'
  BY <1>7, InsertStep, StoreStep, OtherStarts
<1> QED
  BY <1>1, <1>2, <1>3, <1>4, <1>5, <1>6, <1>7 DEF Next

\* What requests know stays true until they use it, and guesses that are not
\* counted yet are added to the count.
THEOREM SignInInvariance == Spec => []SignInSound
BY Starts, EveryStep, PTL DEF Spec

\* Rows, keys and requests have the shape the code gives them.
THEOREM TypeCorrect == Spec => []TypeOK
<1>1. SignInSound => TypeOK
  BY DEF SignInSound, Sane
<1> QED
  BY <1>1, SignInInvariance, PTL

\* However many requests guess at once and whichever calls fail, a name is
\* guessed at no more often than its limit and one time more for each request
\* that guesses at once and each failed call; and an address gets in no more
\* often than it may, in a window that ends.
THEOREM LimitsAlwaysHold == Spec => []LimitsHold
<1>1. SignInSound => LimitsHold
  <2> SUFFICES ASSUME SignInSound PROVE LimitsHold
    OBVIOUS
  <2>1. Sane /\ WindowSound /\ GuessesCounted
    BY DEF SignInSound
  <2>2. ASSUME NEW n \in Names
        PROVE  fails[n].n <= Limit - 1 + Cardinality(Requests) + faults
    <3>1. fails[n].n + Cardinality(Guessing(n)) <= Limit - 1 + Cardinality(Requests) + faults
      BY <2>1 DEF GuessesCounted
    <3>2. /\ fails[n].n \in Nat /\ faults \in Nat /\ Limit \in Nat
          /\ Cardinality(Guessing(n)) \in Nat /\ Cardinality(Requests) \in Nat
      BY <2>1, Kept, GuessesFinite, SignInAssumption DEF Counts, SignInAssumption
    <3> QED
      BY <3>1, <3>2
  <2> QED
    BY <2>1, <2>2 DEF LimitsHold, GuessesBounded, WindowSound
<1> QED
  BY <1>1, SignInInvariance, PTL

\* A buyer who comes twice at once is one user, no user is left behind, and a
\* session goes on however requests with the same token race.
THEOREM BuyersAlwaysKept == Spec => []BuyersKept
<1>1. SignInSound => BuyersKept
  BY DEF SignInSound, BuyersKept
<1> QED
  BY <1>1, SignInInvariance, PTL
=============================================================================
