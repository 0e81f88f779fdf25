SPECIFICATION ShellSpec
CONSTANTS
    Data = {x, y}
    MaxCalls = 4
    MaxEvents = 2
    MaxListed = 1
    MaxFile = 2
    Codes = {0}
    None = None
    Failures = {"unimplemented", "unsupported", "engine", "fault"}
    Harnesses = {"elf", "linux", "win"}
    Reasons = {"int3"}
    Size = 3
    Unpacked = {{}, {1, 2}, {1, 3}}
    MaxRanges = 1
SYMMETRY Symmetry
INVARIANTS ShellTypeOK ReportsExplained BytesAreKept
