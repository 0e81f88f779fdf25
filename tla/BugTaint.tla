------------------------------- MODULE BugTaint -------------------------------
(***************************************************************************)
(* The engine behind findBugsCampaign: BugFindingInterpreter               *)
(* (ntsim-analyzer/src/bug/instrument.mjs) with the taint map of           *)
(* bug/taint.mjs and the catalogue of bug/sinks.mjs.  It is a processor    *)
(* whose hooks carry the taint of the input from memory to registers and   *)
(* back and raise bugs where tainted data reaches a sink.  runWithBugs of  *)
(* bug/engine.mjs starts the tracking when the input's buffer is allocated *)
(* and resets it after each input; one engine serves the whole campaign.   *)
(*                                                                         *)
(* The processor itself (JsInterpreter) is not in this repository: it may  *)
(* call the hooks in any order.  Registers are Width bytes, values are     *)
(* left out but for the addresses that registers hold; so is the place of  *)
(* an instruction.  BugCampaign has what becomes of the bugs.              *)
(***************************************************************************)
EXTENDS Integers, FiniteSets, SequencesExt

CONSTANTS Regs,        \* the registers, in the order in which they are searched
          ArgRegs,     \* those of the first arguments of a call
          Width,       \* the bytes of a register: 8
          Sizes,       \* the sizes of operands
          FullFrom,    \* this many tainted bytes and more are full control: 6
          BoundedTo,   \* up to this many are bounded control: 4
          Cells,       \* the addresses: an interval from 0
          BufLen,      \* the buffer is the first so many of them
          InputRuns,   \* inputs run
          MaxHooks,    \* bound: hooks called for an input
          NoTaint      \* no byte of an operand is tainted; a register's value is no address

ASSUME TaintAssumption ==
    /\ Regs \in Seq(STRING) /\ ArgRegs \in Seq(ToSet(Regs)) /\ Len(ArgRegs) >= 3
    /\ Sizes \subseteq 1..Width /\ {Width, BufLen} \subseteq Nat \ {0}
    /\ {FullFrom, BoundedTo, InputRuns, MaxHooks} \subseteq Nat
    /\ 0..(BufLen - 1) \subseteq Cells /\ Cells \subseteq Nat /\ \A c \in Cells : 0..c \subseteq Cells

VARIABLES running,    \* an input is being run
          runs,       \* inputs started
          hooks,      \* hooks called for this one
          mem,        \* taint.pages: the id of each byte, 0 where there is none
          reg,        \* taint.regs: the ids of each register's bytes, or NoTaint
          holds,      \* the address a register's value is, or NoTaint
          reads,      \* taint.reads: address -> loads of tainted bytes from it
          load,       \* _lastLoadTaint
          pending,    \* _pendingTaint
          flags,      \* taint.flags
          nextId,
          lengths,    \* _inputLenTainted
          bugs,       \* the bugs raised by this input
          stored,     \* history: cells stored to during this input
          carried     \* history: an operand's taint was left when this input began

taintVars == <<running, runs, hooks, mem, reg, holds, reads, load, pending, flags, nextId, lengths,
               bugs, stored, carried>>

RegNames == ToSet(Regs)
Addresses == {a \in Cells : a + Width - 1 \in Cells}

-----------------------------------------------------------------------------
(* Taint: the ids of an operand's bytes, NoTaint when no byte has one.     *)

Tainted(ids) == \E i \in DOMAIN ids : ids[i] # 0

\* What is kept of an operand's taint.
Known(ids) == IF Tainted(ids) THEN ids ELSE NoTaint

\* getRangeTaint
RangeTaint(addr, size) == [i \in 1..size |-> mem[addr + i - 1]]

\* getRegTaint
RegTaint(r, size) == IF reg[r] = NoTaint THEN <<>> ELSE SubSeq(reg[r], 1, size)

\* What setRegTaint keeps of an operand: size bytes, the others are clean.
Padded(ids, size) == [i \in 1..Width |-> IF i <= size /\ i <= Len(ids) THEN ids[i] ELSE 0]

\* A register write takes the taint that is pending, and clears the register if none is.
RegAfter(r, size) == [reg EXCEPT ![r] = IF pending = NoTaint THEN NoTaint ELSE Padded(pending, size)]

\* A store spreads the taint that is pending over the bytes; others become clean.
MemAfter(addr, size) ==
    [c \in Cells |-> IF c \notin addr..(addr + size - 1) THEN mem[c]
                     ELSE IF pending # NoTaint /\ c - addr < Len(pending) THEN pending[c - addr + 1]
                     ELSE 0]

\* _addrTaintForLoadStore: the first tainted register whose value is the address.
AddrTaint(addr) ==
    LET hits == {i \in DOMAIN Regs : /\ Tainted(RegTaint(Regs[i], Width))
                                     /\ holds[Regs[i]] = addr}
    IN  IF hits = {} THEN NoTaint ELSE RegTaint(Regs[Min(hits)], Width)

\* _controlDegree
ControlDegree(ids) ==
    LET n == Len(SelectSeq(ids, LAMBDA id : id # 0))
    IN  IF n >= FullFrom THEN "full" ELSE IF n \in 1..BoundedTo THEN "bounded" ELSE "influenced"

-----------------------------------------------------------------------------
(* Sinks.                                                                  *)

Sink(id, apis, params) == [id |-> id, apis |-> apis, params |-> params]
Param(idx, role) == [idx |-> idx, role |-> role]

\* SINK_CATALOG: the sinks that are calls, with the arguments that count.  Of the
\* others the engine raises those of RaisedElsewhere and no more.
Catalog ==
    { Sink("RTLCOPYMEM_TAINTED_DST_OR_LEN", {"RtlCopyMemory", "memcpy", "memmove"},
           {Param(0, "dstAddr"), Param(2, "length")}),
      Sink("MM_MAP_IOSPACE_TAINTED", {"MmMapIoSpace", "ZwMapViewOfSection"}, {Param(0, "physAddr")}),
      Sink("OBJ_OPEN_TAINTED_PID", {"ObOpenObjectByPointer", "PsLookupProcessByProcessId"},
           {Param(0, "pid")}),
      Sink("ZW_FILE_TAINTED_PATH", {"ZwOpenFile", "ZwCreateFile", "ZwDeleteFile"}, {Param(2, "path")}),
      Sink("POOL_OVERFLOW_TAINTED_SIZE", {"ExAllocatePoolWithTag", "ExAllocatePool"},
           {Param(1, "size")}) }

RaisedElsewhere == {"ARBITRARY_WRITE_DEREF", "ARBITRARY_READ_DEREF", "DOUBLE_FETCH",
                    "WRMSR_TAINTED", "MOV_CR_TAINTED", "PORT_IO_TAINTED", "NULL_DEREF"}

SinksForApi(api) == {s \in Catalog : api \in s.apis}

\* A function of each sink, and one that is none.
Apis == {CHOOSE api \in s.apis : TRUE : s \in Catalog} \cup {"ProbeForRead"}

Bug(sink, degree, ids) == [sink |-> sink, degree |-> degree, ids |-> ids]

RoleDegree(role) ==
    CASE role \in {"dstAddr", "physAddr"} -> "full"
      [] role \in {"length", "size"} -> "bounded"
      [] OTHER -> "influenced"

\* What a call of the function raises: an argument register is tainted, or the argument
\* is a length, which always counts as the input's once an input was run.
ApiBugs(api) ==
    UNION {{Bug(s.id, RoleDegree(p.role), RegTaint(ArgRegs[p.idx + 1], Width)) :
              p \in {q \in s.params : \/ Tainted(RegTaint(ArgRegs[q.idx + 1], Width))
                                      \/ q.role = "length" /\ lengths}} : s \in SinksForApi(api)}

-----------------------------------------------------------------------------
(* Inputs: runWithBugs.                                                    *)

TaintInit ==
    /\ running = FALSE /\ runs = 0 /\ hooks = 0
    /\ mem = [c \in Cells |-> 0]
    /\ reg = [r \in RegNames |-> NoTaint]
    /\ holds = [r \in RegNames |-> NoTaint]
    /\ reads = [a \in Addresses |-> 0]
    /\ load = NoTaint /\ pending = NoTaint
    /\ flags = FALSE
    /\ nextId = 1
    /\ lengths = FALSE
    /\ bugs = <<>>
    /\ stored = {}
    /\ carried = FALSE

\* TaintState.reset, then the taint memory is given.
Reset(taint) ==
    /\ mem' = taint
    /\ reads' = [a \in Addresses |-> 0]
    /\ flags' = FALSE
    /\ reg' = [r \in RegNames |-> NoTaint]

\* taintRange: an id for each byte of the buffer.
Labelled == [c \in Cells |-> IF c < BufLen THEN nextId + c ELSE 0]

\* The first pool block of the request is the buffer: enableTaintForIrp.  The ids go on
\* from the inputs before, and the counter runs ahead of them.
EnableTaint ==
    /\ ~running /\ runs < InputRuns
    /\ running' = TRUE
    /\ runs' = runs + 1
    /\ hooks' = 0
    /\ Reset(Labelled)
    /\ nextId' = nextId + BufLen + (BufLen - 1)
    /\ lengths' = TRUE
    /\ bugs' = <<>>
    /\ stored' = {}
    /\ carried' = (load # NoTaint \/ pending # NoTaint)
    /\ UNCHANGED <<holds, load, pending>>

\* The request is over: the taint is reset, the bugs are taken, and the snapshot is restored.
EndInput ==
    /\ running
    /\ running' = FALSE
    /\ Reset([c \in Cells |-> 0])
    /\ bugs' = <<>>
    /\ holds' = [r \in RegNames |-> NoTaint]
    /\ UNCHANGED <<runs, hooks, load, pending, nextId, lengths, stored, carried>>

-----------------------------------------------------------------------------
(* Hooks of the processor.                                                 *)

HookCalled == running /\ hooks < MaxHooks /\ hooks' = hooks + 1
Tracking == UNCHANGED <<running, runs, nextId, lengths, carried>>

\* Mutant of Fetched: the bug is raised at every load after the first.
FetchedAgain(addr) == reads[addr] >= 1

\* The second load of tainted bytes from an address is a double fetch.
Fetched(addr) == reads[addr] = 1

\* loadMem; and loadOp, for which what was loaded is pending.
LoadMem(addr, size, operand) ==
    LET at == AddrTaint(addr)
        ids == RangeTaint(addr, size)
    IN  /\ HookCalled
        /\ bugs' = bugs
             \o (IF at = NoTaint THEN <<>> ELSE <<Bug("ARBITRARY_READ_DEREF", "full", at)>>)
             \o (IF Tainted(ids) /\ Fetched(addr) THEN <<Bug("DOUBLE_FETCH", "full", <<addr>>)>>
                 ELSE <<>>)
        /\ reads' = IF Tainted(ids) THEN [reads EXCEPT ![addr] = @ + 1] ELSE reads
        /\ load' = Known(ids)
        /\ pending' = IF operand THEN load' ELSE pending
        /\ UNCHANGED <<mem, reg, holds, flags, stored>>
        /\ Tracking

\* loadOp of a register
LoadReg(r, size) ==
    /\ HookCalled
    /\ load' = Known(RegTaint(r, size))
    /\ pending' = load'
    /\ UNCHANGED <<mem, reg, holds, reads, flags, bugs, stored>>
    /\ Tracking

\* storeMem, and storeOp to memory
StoreMem(addr, size) ==
    LET at == AddrTaint(addr) IN
    /\ HookCalled
    /\ bugs' = IF at = NoTaint THEN bugs
               ELSE Append(bugs, Bug("ARBITRARY_WRITE_DEREF", ControlDegree(at), at))
    /\ mem' = MemAfter(addr, size)
    /\ stored' = stored \cup addr..(addr + size - 1)
    /\ load' = NoTaint
    /\ pending' = NoTaint
    /\ UNCHANGED <<reg, holds, reads, flags>>
    /\ Tracking

\* writeReg, and storeOp to a register; its value may be an address.
WriteReg(r, size) ==
    /\ HookCalled
    /\ reg' = RegAfter(r, size)
    /\ \E v \in Addresses \cup {NoTaint} : holds' = [holds EXCEPT ![r] = v]
    /\ pending' = NoTaint
    /\ UNCHANGED <<mem, reads, load, flags, bugs, stored>>
    /\ Tracking

\* alu: the result has the taint of the operand loaded last; the other one's,
\* _pendingBTaint, is never set.  A comparison leaves it pending as well.
Alu(size) ==
    LET ids == IF load = NoTaint THEN <<>> ELSE Padded(load, size) IN
    /\ HookCalled
    /\ pending' = Known(ids)
    /\ flags' = Tainted(ids)
    /\ load' = NoTaint
    /\ UNCHANGED <<mem, reg, holds, reads, bugs, stored>>
    /\ Tracking

\* checkApiSink, called by the wrapper of a kernel function
CallApi(api) ==
    /\ HookCalled
    /\ bugs' = bugs \o SetToSeq(ApiBugs(api))
    /\ UNCHANGED <<mem, reg, holds, reads, load, pending, flags, stored>>
    /\ Tracking

\* onPortWrite and checkMsr look at one register, checkCrWrite at all.
PortOrControl(sink) ==
    LET from == CASE sink = "PORT_IO_TAINTED" -> {ArgRegs[2]}
                  [] sink = "WRMSR_TAINTED" -> {ArgRegs[1]}
                  [] sink = "MOV_CR_TAINTED" -> RegNames
    IN  /\ HookCalled
        /\ \E r \in from : Tainted(RegTaint(r, Width))
        /\ bugs' = Append(bugs, Bug(sink, "full", <<>>))
        /\ UNCHANGED <<mem, reg, holds, reads, load, pending, flags, stored>>
        /\ Tracking

\* The request faults: a bug of its own, and the input is over.
Fault ==
    /\ running /\ hooks < MaxHooks
    /\ hooks' = MaxHooks
    /\ bugs' = Append(bugs, Bug("NULL_DEREF", "influenced", <<>>))
    /\ UNCHANGED <<mem, reg, holds, reads, load, pending, flags, stored>>
    /\ Tracking

Hook ==
    \/ \E a \in Addresses, n \in Sizes : (\E op \in BOOLEAN : LoadMem(a, n, op)) \/ StoreMem(a, n)
    \/ \E r \in RegNames, n \in Sizes : LoadReg(r, n) \/ WriteReg(r, n)
    \/ \E n \in Sizes : Alu(n)
    \/ \E api \in Apis : CallApi(api)
    \/ \E sink \in {"PORT_IO_TAINTED", "WRMSR_TAINTED", "MOV_CR_TAINTED"} : PortOrControl(sink)
    \/ Fault

TaintNext == EnableTaint \/ EndInput \/ Hook

TaintSpec == TaintInit /\ [][TaintNext]_taintVars

-----------------------------------------------------------------------------
(* Properties.                                                             *)

OperandOK(ids) == ids = NoTaint \/ (ids \in Seq(0..(nextId - 1)) /\ Len(ids) <= Width /\ Tainted(ids))

\* The shape of the state: ids were handed out before they are found anywhere, and what
\* is kept for an operand or a register has a tainted byte or is not kept.
TaintTypeOK ==
    /\ running \in BOOLEAN /\ flags \in BOOLEAN /\ lengths \in BOOLEAN /\ carried \in BOOLEAN
    /\ runs \in 0..InputRuns /\ hooks \in 0..MaxHooks
    /\ mem \in [Cells -> 0..(nextId - 1)]
    /\ \A r \in RegNames : reg[r] = NoTaint \/ Len(reg[r]) = Width
    /\ holds \in [RegNames -> Addresses \cup {NoTaint}]
    /\ OperandOK(load) /\ OperandOK(pending)
    /\ \A i \in DOMAIN bugs : bugs[i].sink \in {s.id : s \in Catalog} \cup RaisedElsewhere

\* The ids of the input being run: nextId has gone past them, and past a gap.
FirstId == nextId - 2 * BufLen + 1
OfThisInput == FirstId..(FirstId + BufLen - 1)

Ids(ids) == IF ids = NoTaint THEN {} ELSE ToSet(ids) \ {0}

\* taint.mjs, "One taint ID per byte": a byte of the buffer that nothing stored to has
\* its own id, any other such byte none; and what an input taints is gone when it ends:
\* unless an operand's taint was left over from the input before, all ids in memory, in
\* registers and in the bugs are those of this input.
TaintIsOfTheInput ==
    running =>
      /\ \A c \in Cells \ stored : mem[c] = IF c < BufLen THEN FirstId + c ELSE 0
      /\ ~carried =>
           /\ \A c \in Cells : mem[c] \in OfThisInput \cup {0}
           /\ \A r \in RegNames : Ids(reg[r]) \subseteq OfThisInput
           /\ \A i \in DOMAIN bugs :
                bugs[i].sink # "DOUBLE_FETCH" => Ids(bugs[i].ids) \subseteq OfThisInput

\* A double fetch is raised once for every address that tainted bytes were loaded from
\* twice while this input ran, and for no other.
DoubleFetchOnce ==
    \A a \in Addresses :
      Cardinality({i \in DOMAIN bugs : bugs[i] = Bug("DOUBLE_FETCH", "full", <<a>>)})
        = IF reads[a] >= 2 THEN 1 ELSE 0

\* What the taint says is of the input that runs now.
TaintIsSound == TaintTypeOK /\ TaintIsOfTheInput /\ DoubleFetchOnce

\* instrument.mjs:28, "per-op taint": none is left when the next input begins.
TaintIsPerOp == ~carried
=============================================================================
