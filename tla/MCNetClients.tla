---------------------------- MODULE MCNetClients ----------------------------
(* NetClients for TLC.                                                     *)
EXTENDS NetClients
=============================================================================
