---------------------------- MODULE MCPlayerItems ----------------------------
(* Small instances of PlayerItems: two sessions of one account and one of    *)
(* another, which may all play at once.                                      *)
EXTENDS PlayerItems, TLC

CONSTANTS s1, s2, s3, a, b

MCAccountOf == (s1 :> a) @@ (s2 :> a) @@ (s3 :> b)
Symmetry == Permutations(Items) \cup Permutations({s1, s2})

\* The inventory of a player that left is read by nothing but its own pickups,
\* whose items are lost whatever it holds; that a raced item is lost besides is
\* read by nothing.
View == <<[s \in Sessions |-> IF Active(s) THEN inv[s] ELSE <<>>],
          status, ground, picking, file, made, lost \ raced, raced>>

\* When every item was raced for, the properties say nothing more of any.
SomeItemLeft == ~(Items \subseteq raced)
=============================================================================
