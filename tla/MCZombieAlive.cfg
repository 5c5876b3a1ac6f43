CONSTANTS
    Pids <- MCPids
    MaxRestartAttempts = 2
    MaxHttpFailures = 2
    GracePolls = 2
    MaxStarts = 2
    Platform = "posix"
SPECIFICATION Spec
PROPERTY DeathDetectedAtNextTick
CHECK_DEADLOCK FALSE
