---------------------------- MODULE MCProcTable ----------------------------
(* Instances of ProcTable for TLC; each .cfg chooses the programs (Calls). *)
EXTENDS ProcTable

=============================================================================
