------------------------------- MODULE MCLoop -------------------------------
(* An instance of ServerLoop; the cfgs give the clients and the times.     *)
EXTENDS ServerLoop
=============================================================================
