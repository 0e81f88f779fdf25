SPECIFICATION EnginesSpec
CONSTANTS
    Regs <- MCRegs
    ArgRegs <- MCRegs
    Width = 3
    Sizes = {1, 3}
    FullFrom = 3
    BoundedTo = 1
    Cells <- MCCells
    BufLen = 2
    InputRuns = 2
    MaxHooks = 4
    NoTaint = NoTaint
    ByteBits = 1
    RegWidth = 2
    OperandSizes = {1, 2}
    Registers = {rax}
    Memory <- MCMemory
    InputLen = 2
    Operations = {"add", "sbb", "cmp", "and"}
    Codes = {"a", "s", "ge", "le"}
    Immediates = {1}
    MaxCalls = 4
    MaxRuns = 2
    Nil = Nil
INVARIANTS TaintIsSound ConstraintsHold
CHECK_DEADLOCK FALSE
