---------------------------- MODULE MCServerSessions ----------------------------
(* Small instances of ServerSessions.                                      *)
EXTENDS ServerSessions

=============================================================================
