------------------------ MODULE MCP2PoolManualRestart ------------------------
(* Small instances of the supervisor with host Restart() calls, for TLC.   *)
EXTENDS P2PoolManualRestart

MCPids == 1..3

=============================================================================
