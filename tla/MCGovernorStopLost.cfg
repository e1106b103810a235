CONSTANTS
    n1 = n1
    o1 = o1
    o2 = o2
    m1 = m1
    NoService = NoService
    MaxTicks = 3
    MaxModules = 2
    ServiceNames <- MCServiceNames
    ServiceObjects <- MCServiceObjects
    ModuleClasses <- MCModuleClasses
SPECIFICATION GovSpec
PROPERTY StopIsPermanent
CHECK_DEADLOCK FALSE
