----------------------------- MODULE BlockStore -----------------------------
(***************************************************************************)
(* What a world promises of the blocks in it, without chunks, files and    *)
(* saves: a block changes only by an edit, also when the server stops and  *)
(* starts again, and a crash may take a position back to a block it had.   *)
(* `exposed' holds the positions the promise is not made for, because      *)
(* overlapping calls may undo an edit there; those too only go back to a   *)
(* block they had.                                                         *)
(***************************************************************************)
EXTENDS Naturals

CONSTANTS Pos, Block

VARIABLES
    block,      \* the block a reader finds at each position
    past,       \* the blocks each position ever had
    exposed,    \* positions whose edits may be undone
    crashes     \* number of crashes so far

vars == <<block, past, exposed, crashes>>

Init ==
    /\ block \in [Pos -> Block]
    /\ past = [p \in Pos |-> {block[p]}]
    /\ exposed = {}
    /\ crashes = 0

\* One step of the server: at most one position is edited, and positions that
\* are exposed may go back to an earlier block.
Serve ==
    /\ UNCHANGED crashes
    /\ exposed' \subseteq Pos
    /\ block' \in [Pos -> Block]
    /\ \E edited \in Pos : \A p \in Pos \ {edited} :
          \/ block'[p] = block[p]
          \/ p \in exposed \cup exposed' /\ block'[p] \in past[p]
    /\ past' = [p \in Pos |-> past[p] \cup {block'[p]}]

\* A crash: every position has some block it had before.
Crash ==
    /\ crashes' = crashes + 1
    /\ exposed' = {}
    /\ block' \in [Pos -> Block]
    /\ \A p \in Pos : block'[p] \in past[p]
    /\ UNCHANGED past

Next == Serve \/ Crash

Spec == Init /\ [][Next]_vars
=============================================================================
