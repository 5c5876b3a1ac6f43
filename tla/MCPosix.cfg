CONSTANTS
    Pids <- MCPids
    Platform = "posix"
    MaxRestartAttempts = 2
    MaxHttpFailures = 2
    GracePolls = 2
    MaxStarts = 2
SPECIFICATION FairSpec
INVARIANT TypeOK
INVARIANT PidNamesOwnChild
INVARIANT MonitorOwned
PROPERTY StopLeavesNoWorker
PROPERTY SupervisorRefined
PROPERTY StopTerminates
CHECK_DEADLOCK FALSE
