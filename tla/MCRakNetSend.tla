------------------------------ MODULE MCRakNetSend ------------------------------
(* Small instances of RakNetSend.                                          *)
EXTENDS RakNetSend

=============================================================================
