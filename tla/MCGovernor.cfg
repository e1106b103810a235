\* The application terminates: once run() has returned (phase "closed")
\* no step is possible, which is the process exiting, not a deadlock.
CONSTANTS
    n1 = n1
    o1 = o1
    o2 = o2
    m1 = m1
    NoService = NoService
    MaxTicks = 3
    MaxModules = 2
    ServiceNames <- MCServiceNames
    ServiceObjects <- MCServiceObjects
    ModuleClasses <- MCModuleClasses
SPECIFICATION GovSpec
INVARIANT GovTypeOK
INVARIANT Lifecycle
INVARIANT ExitOnlyOnStop
PROPERTY StopTerminates
CHECK_DEADLOCK FALSE
