------------------------------ MODULE MCMcpServer ------------------------------
(* The instance of McpServer. *)
EXTENDS McpServer
=============================================================================
