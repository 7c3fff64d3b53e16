---------------------------- MODULE MCRakNetListener ----------------------------
(* Small instances of RakNetListener.                                      *)
EXTENDS RakNetListener

=============================================================================
