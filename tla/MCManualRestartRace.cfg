\* One Start(), host Restart() calls racing the monitor, on POSIX.
CONSTANTS
    Pids <- MCPids
    Platform = "posix"
    MaxRestartAttempts = 2
    MaxHttpFailures = 2
    GracePolls = 2
    MaxStarts = 1
    MaxManualRestarts = 1
SPECIFICATION MSpec
INVARIANT AtMostOneWorker
CHECK_DEADLOCK FALSE
