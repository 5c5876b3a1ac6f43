----------------------- MODULE MCP2PoolProcessManager -----------------------
(* Small instances of the supervisor for TLC.                              *)
EXTENDS P2PoolProcessManager

MCPids == 1..3

=============================================================================
