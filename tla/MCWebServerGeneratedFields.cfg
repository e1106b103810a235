\* A WebFormSource whose fields a callable generates, two possible forms.
CONSTANTS
    r1 = r1
    r2 = r2
    v1 = v1
    v2 = v2
    Requests <- MCRequests
    Variants <- MCVariants2
    Routes = {"form"}
    Faults = FALSE
    HandlerCancellation = TRUE
    GenerateFields = TRUE
SPECIFICATION WsSpec
INVARIANT PipelineSeesOnlyValidRequests
\* Once every request is answered the server only waits for more.
CHECK_DEADLOCK FALSE
