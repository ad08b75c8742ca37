-------------------------------- MODULE MCAgents --------------------------------
(* The instance of Agents. *)
EXTENDS Agents
=============================================================================
