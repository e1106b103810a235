\* Two sources, one file there at start and one arriving later, every
\* failure path enabled; one source has an unknown 'post' value (falls back
\* to 'move'), the other post = stop (renames back and calls stop()).
CONSTANTS
    s1 = s1
    s2 = s2
    f1 = f1
    f2 = f2
    f3 = f3
    n1 = n1
    o1 = o1
    NoService = NoService
    NoFile = NoFile
    MaxTicks = 1
    MaxModules = 0
    ModuleClasses = {}
    Sources <- MCSources
    Files <- MCFiles
    ServiceNames <- MCServiceNames
    ServiceObjects <- MCServiceObjects
    InitialFiles = {f1}
    PostConfig <- MCPostArchiveStop
    Faults = TRUE
SPECIFICATION FsSpec
INVARIANT FsTypeOK
INVARIANT ExclusiveRead
PROPERTY ImplementsFileClaims
\* The application stops only when stop() is called; after "closed" no step
\* is possible (the process has exited).
CHECK_DEADLOCK FALSE
