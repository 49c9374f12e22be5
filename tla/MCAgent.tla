------------------------------- MODULE MCAgent -------------------------------
(* The agent with two jobs, the second of which is a system.reset.         *)
EXTENDS Agent
=============================================================================
