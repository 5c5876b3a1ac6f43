\* Every reply shape of both control calls, decoded by the client.
SPECIFICATION Spec
INVARIANTS
    RefusalReported
    FailedCallNeverAccepted
    TemplateOnlyFromUsable
CHECK_DEADLOCK FALSE
