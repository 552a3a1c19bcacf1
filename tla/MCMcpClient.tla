---------------------------- MODULE MCMcpClient -----------------------------
(* The client instance for TLC. *)
EXTENDS McpClient
=============================================================================
