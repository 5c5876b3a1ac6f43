CONSTANTS
    Pids <- MCPids
    MaxRestartAttempts = 2
    MaxHttpFailures = 2
    GracePolls = 2
    MaxStarts = 2
    Platform = "win32"
SPECIFICATION Spec
INVARIANT RunningHasRestartBudget
CHECK_DEADLOCK FALSE
