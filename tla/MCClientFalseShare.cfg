\* A boolean false submit_share result.
SPECIFICATION Spec
INVARIANT FalseNeverAccepted
CHECK_DEADLOCK FALSE
