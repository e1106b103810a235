\* A plain and a protected route, a protected and a JWT form on one server; stages and sinks may fail, clients may leave.
CONSTANTS
    r1 = r1
    r2 = r2
    v1 = v1
    v2 = v2
    Requests <- MCRequests
    Variants <- MCVariants1
    Routes = {"route", "protected_route", "protected_form", "jwt_form"}
    Faults = TRUE
    HandlerCancellation = TRUE
    GenerateFields = FALSE
SPECIFICATION WsSpec
INVARIANT PipelineSeesOnlyValidRequests
PROPERTY AnsweredUnlessLost
\* Once every request is answered the server only waits for more.
CHECK_DEADLOCK FALSE
