\* Start() after the monitor gave up, on POSIX.
CONSTANTS
    Pids <- MCPids
    Platform = "posix"
    MaxRestartAttempts = 2
    MaxHttpFailures = 2
    GracePolls = 2
    MaxStarts = 2
SPECIFICATION Spec
PROPERTY MonitorThreadNotLeaked
CHECK_DEADLOCK FALSE
