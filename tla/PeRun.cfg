SPECIFICATION Spec
CONSTANTS
    Data = {"x", "y"}
    Paths = {"a", "b"}
    VfsFiles <- MCVfsFiles
    Script <- MCScript
    MaxHandles = 2
    MaxContents = 2
    Dlls = {"k", "n", "b", "p", "absent"}
    Image <- MCImage
    Main = "main"
    Thunk = "thunk"
    MaxLoads = 3
    Cases <- MCCases
    Failures = {"unimplemented", "unsupported", "fault", "timeout"}
    MaxExports = 2
    None = None
INVARIANTS TypeOK DataIsKept RunsSound
PROPERTIES NoCodeAfterExit
