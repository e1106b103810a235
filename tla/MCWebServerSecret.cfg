\* The two sources that re-check the secret: a ProtectedWebRouteSource and a JWTWebFormSource.
CONSTANTS
    r1 = r1
    r2 = r2
    v1 = v1
    v2 = v2
    Requests <- MCRequests
    Variants <- MCVariants1
    Routes = {"protected_route", "jwt_form"}
    Faults = FALSE
    HandlerCancellation = TRUE
    GenerateFields = FALSE
SPECIFICATION WsSpec
INVARIANT ValidSecretServed
\* Once every request is answered the server only waits for more.
CHECK_DEADLOCK FALSE
