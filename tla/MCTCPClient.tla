----------------------------- MODULE MCTCPClient -----------------------------
(* Model-checking instance of TCPClient: the .cfg gives the values. *)
EXTENDS TCPClient
=============================================================================
