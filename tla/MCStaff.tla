------------------------------ MODULE MCStaff ------------------------------
(***************************************************************************)
(* Staff on a small instance: two accounts, which may be absent or have    *)
(* any role at the start, and two requests at once.  Accounts and requests *)
(* are interchangeable.                                                    *)
(***************************************************************************)
EXTENDS Staff, TLC

Symmetry == Permutations(Accounts) \cup Permutations(Requests)

=============================================================================
