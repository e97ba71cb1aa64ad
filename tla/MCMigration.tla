---------------------------- MODULE MCMigration ----------------------------
(***************************************************************************)
(* Migration with the files of three releases, of a branch that lacks the  *)
(* second version, and of a build that has lost a down file.               *)
(***************************************************************************)
EXTENDS Migration

Pair(v, text) ==
  {[version |-> v, name |-> "m", direction |-> d, text |-> text] :
     d \in {"up", "down"}}

MCFiles ==
  [c \in Commands |->
     CASE c = "release" -> Pair(1, "a") \cup Pair(2, "b") \cup Pair(3, "many")
       [] c = "edited"  -> Pair(1, "a") \cup Pair(2, "B")
       [] c = "branch"  -> Pair(1, "a") \cup Pair(3, "many")
       [] c = "halved"  -> Pair(1, "a") \cup
                           {f \in Pair(2, "b") : f.direction = "up"}]

=============================================================================
