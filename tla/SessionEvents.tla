------------------------------ MODULE SessionEvents ------------------------------
(***************************************************************************)
(* What a RakNet listener promises to the program above it: the events     *)
(* openConnection, encapsulated and closeConnection of an address come in  *)
(* the order of a session.  A close may come for an address that is not    *)
(* open; an open never comes twice, and data never comes without one.      *)
(***************************************************************************)
EXTENDS Naturals

CONSTANT Tokens

VARIABLES open,  (* the addresses with an open session                      *)
          event  (* the event of the last step                              *)

NoEvent == [type |-> "none"]
Event(type, t) == [type |-> type, token |-> t]

Init == open = {} /\ event = NoEvent

OpenSession(t) ==
    /\ t \notin open
    /\ open' = open \cup {t}
    /\ event' = Event("open", t)

CloseSession(t) ==
    /\ open' = open \ {t}
    /\ event' = Event("close", t)

Deliver(t) ==
    /\ t \in open
    /\ open' = open
    /\ event' = Event("encapsulated", t)

Silence == open' = open /\ event' = NoEvent

Next ==
    \/ \E t \in Tokens : OpenSession(t) \/ CloseSession(t) \/ Deliver(t)
    \/ Silence

Spec == Init /\ [][Next]_<<open, event>>

=============================================================================
