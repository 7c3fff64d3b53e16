----------------------------- MODULE MCRakNetSplit -----------------------------
(* Small instances of RakNetSplit.                                         *)
EXTENDS RakNetSplit

CONSTANTS p1, p2, p3

\* Messages of three, two and one fragments.
MCSize == [p \in Packets |-> CASE p = p1 -> 3 [] p = p2 -> 2 [] p = p3 -> 1]

=============================================================================
