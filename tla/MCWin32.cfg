CONSTANTS
    Pids <- MCPids
    MaxRestartAttempts = 2
    MaxHttpFailures = 2
    GracePolls = 2
    MaxStarts = 2
    Platform = "win32"
SPECIFICATION FairSpec
PROPERTY CrashRecovered
PROPERTY StopLeavesNoWorker
PROPERTY SupervisorRefined
CHECK_DEADLOCK FALSE
