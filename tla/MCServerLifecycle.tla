-------------------------- MODULE MCServerLifecycle --------------------------
(* A small instance of ServerLifecycle.                                      *)
EXTENDS ServerLifecycle

\* Two reloads overlap in behaviours in which nobody changes a list, and the
\* lists change in those with one reload: the lists do not distinguish a second
\* clearing from the first, and nothing else reads the lists.
ReloadsOrChanges ==
    /\ changes > 0 => step[2] = "idle"
    /\ starts > 1 => changes + Cardinality({r \in Runs : step[r] # "idle"}) <= 2
=============================================================================
