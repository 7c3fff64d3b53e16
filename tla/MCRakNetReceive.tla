---------------------------- MODULE MCRakNetReceive ----------------------------
(* Small instances of RakNetReceive.                                       *)
EXTENDS RakNetReceive

\* Two reliable messages, of which the first can come again in another
\* datagram, and an unreliable one.
MCPayloads == {<<0, Unreliable>>, <<1>>}

\* Message 0 is a ConnectionRequest or not, the unreliable one a ConnectedPing
\* or not.
MCReplying == {0, Unreliable}

=============================================================================
