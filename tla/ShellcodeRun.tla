---------------------------- MODULE ShellcodeRun ----------------------------
(***************************************************************************)
(* The Linux harnesses together: the ELF runner of ElfRun, and the         *)
(* shellcode runner, shellcode-runner/src/index.mjs, which puts the same   *)
(* syscall model (or, for Windows, the Win32 model, of which only what is  *)
(* recorded and what ends the run is kept here) behind a trap hook of its  *)
(* own, stops at traps with a reason, reports what changed in its buffer,  *)
(* and tries again on the hybrid backend as the ELF runner does.           *)
(***************************************************************************)
EXTENDS ElfRun

CONSTANTS Harnesses,   \* the harnesses that run: "elf", "linux" or "win" shellcode
          Reasons,     \* why a trap stops the run; "execve" is why an execve does
          Size,        \* bytes of the code buffer
          Unpacked,    \* the sets of bytes a run may leave other than they were
          MaxRanges    \* ranges a diff lists, 256

ASSUME ShellAssumption ==
    /\ Harnesses \subseteq {"elf", "linux", "win"}
    /\ "execve" \notin Reasons /\ None \notin Reasons \cup {"execve", "fastfail"}
    /\ Size \in Nat /\ MaxRanges \in Nat /\ Unpacked \subseteq SUBSET (1..Size)

VARIABLES harness,
          stopReason,
          changed,     \* the bytes of the buffer that are not what they were before the run
          execs        \* the calls that were an execve

shellVars == <<harness, stopReason, changed, execs>>
allVars == <<vars, shellVars>>

ShellInit ==
    /\ Init
    /\ harness \in Harnesses
    /\ stopReason = None /\ changed = {} /\ execs = {}

IsShell == harness # "elf"
OnLinux == harness = "linux" /\ UNCHANGED runVars
OnWindows == harness = "win" /\ UNCHANGED runVars

-----------------------------------------------------------------------------
(* Traps.                                                                  *)

\* linuxNativeSyscall, of every call but execve: dispatched and annotated like the ELF
\* runner's.
ShellSyscall ==
    /\ OnLinux /\ MayCall /\ Syscall
    /\ UNCHANGED shellVars

\* What the run ends on is the name of the last event, the call's own unless the list was
\* full.
Terminal(es, xs) == Last(es).call \in xs

\* execve, execveat: "terminal (it replaces the image)".
ShellExecve ==
    /\ OnLinux /\ MayCall
    /\ execs' = execs \cup {calls + 1}
    /\ lists' = Listed({"other"})
    /\ Dispatch(None)
    /\ IF Terminal(events', execs')
       THEN exited' = TRUE /\ halted' = TRUE /\ stopReason' = "execve"
       ELSE UNCHANGED <<exited, halted, stopReason>>
    /\ UNCHANGED <<tables, exitCode, buf, harness, changed>>

\* cleanStop, at int3, ud2, int 2d, and on Linux sysenter and int 2e: an event past the cap.
CleanStop(reason) ==
    /\ IsShell /\ MayCall
    /\ exited' = TRUE /\ halted' = TRUE /\ stopReason' = reason
    /\ calls' = calls + 1
    /\ events' = Append(events, [call |-> calls + 1, site |-> calls + 1, data |-> None])
    /\ UNCHANGED <<tables, lists, exitCode, buf, runVars, harness, changed, execs>>

\* A thunk of the synthetic DLLs: the Win32 model records it, with its site.
WinApi(exits) ==
    /\ OnWindows /\ MayCall
    /\ calls' = calls + 1
    /\ events' = IF Len(events) < MaxEvents
                 THEN Append(events, [call |-> calls + 1, site |-> calls + 1, data |-> None])
                 ELSE events
    /\ exited' = (exited \/ exits) /\ halted' = exits
    /\ exitCode' \in IF exits THEN Codes ELSE {exitCode}
    /\ UNCHANGED <<tables, lists, buf, shellVars>>

\* winNativeSyscall, of syscall, sysenter and int 2e: the model records the call without a
\* site (past its cap, if the number is unknown), and the hook adds an event of its own.
WinNative(known) ==
    /\ OnWindows /\ MayCall
    /\ calls' = calls + 1
    /\ LET mine(site) == [call |-> calls + 1, site |-> site, data |-> None] IN
       events' = Append(IF known THEN Recorded(events, calls + 1, None)
                                 ELSE Append(events, mine(None)),
                        mine(calls + 1))
    /\ UNCHANGED <<tables, lists, ending, buf, shellVars>>

\* __fastfail, on Windows: a stop with a reason, and the CPU goes on as it will.
ShellFastfail ==
    /\ OnWindows /\ MayCall
    /\ exited' = TRUE /\ exitCode' \in Codes
    /\ stopReason' = "fastfail"
    /\ calls' = calls + 1
    /\ events' = Append(events, [call |-> calls + 1, site |-> None, data |-> None])
    /\ UNCHANGED <<tables, lists, halted, buf, harness, changed, execs>>

-----------------------------------------------------------------------------
(* The report.                                                             *)

\* diffBuffers: a scan that lists the first ranges of changed bytes, from start up to end,
\* and counts them all.
Closed(d, end) ==
    [start |-> 0,
     ranges |-> IF Len(d.ranges) < MaxRanges THEN Append(d.ranges, <<d.start, end>>)
                ELSE d.ranges,
     bytes |-> d.bytes + end - d.start]

Looked(d, b) ==
    IF b \in changed THEN IF d.start = 0 THEN [d EXCEPT !.start = b] ELSE d
    ELSE IF d.start # 0 THEN Closed(d, b) ELSE d

\* The scan after each byte.
Scan[b \in 0..Size] ==
    IF b = 0 THEN [start |-> 0, ranges |-> <<>>, bytes |-> 0] ELSE Looked(Scan[b - 1], b)

DiffBuffers == IF Scan[Size].start # 0 THEN Closed(Scan[Size], Size + 1) ELSE Scan[Size]

ShellStatus ==
    IF result # "halted" THEN result
    ELSE IF stopReason # None \/ ~exited THEN "stopped" ELSE "ok"

ShellReport == [status |-> ShellStatus, code |-> exitCode, refused |-> result \in Refusals,
                hidden |-> refused, backend |-> backend]

\* The run is over, and the buffer is compared with its copy from before the run: the bytes
\* of written are not what they were.  Only this looks at what the guest did to its code.
ShellEnds(res, written) ==
    /\ IsShell /\ EntryEnds(res)
    /\ changed' = written
    /\ UNCHANGED <<harness, stopReason, execs>>

ShellDeliver ==
    /\ IsShell /\ at = "report" /\ backend = "js"
    /\ delivered' = ShellReport
    /\ at' = "over"
    /\ UNCHANGED <<linuxVars, backend, mainCall, refused, result, first, shellVars>>

\* What runShellcode tests the two reports' errors for: x87 is not asked about.
ShellRetryErrors == {"unimplemented", "unsupported"}
ShellDiscardErrors == {"unimplemented"}

ShellRetry ==
    /\ IsShell /\ Retry(ShellRetryErrors, ShellReport)
    /\ stopReason' = None /\ changed' = {} /\ execs' = {}
    /\ UNCHANGED harness

ShellDeliverRetried ==
    /\ IsShell /\ at = "report" /\ backend = "hybrid"
    /\ delivered' = IF result \notin ShellDiscardErrors THEN ShellReport ELSE first
    /\ at' = "over"
    /\ UNCHANGED <<linuxVars, backend, mainCall, refused, result, first, shellVars>>

ShellNext ==
    \/ harness = "elf" /\ Next /\ UNCHANGED shellVars
    \/ ShellSyscall \/ ShellExecve
    \/ \E r \in Reasons : CleanStop(r)
    \/ ShellFastfail
    \/ IsShell /\ Hlt /\ UNCHANGED shellVars
    \/ \E b \in BOOLEAN : WinApi(b) \/ WinNative(b)
    \/ \E res \in Failures \cup {"ok", "halted"}, written \in Unpacked :
          ShellEnds(res, written)
    \/ ShellDeliver \/ ShellRetry \/ ShellDeliverRetried
    \/ IsShell /\ at = "over" /\ UNCHANGED allVars

ShellSpec == ShellInit /\ [][ShellNext]_allVars

-----------------------------------------------------------------------------
(* Properties.                                                             *)

ShellTypeOK ==
    /\ TypeOK
    /\ harness \in Harnesses /\ stopReason \in Reasons \cup {None, "execve", "fastfail"}
    /\ changed \subseteq 1..Size
    /\ execs \subseteq 1..calls

\* CallSites of the Linux model under either harness; on Windows an event may have no site,
\* and none has another call's.
EventSites ==
    /\ harness # "win" => CallSites
    /\ \A k \in DOMAIN events : events[k].site \in {None, events[k].call}

\* A halted shellcode that is delivered as well exited by itself, and one that a trap, an
\* execve or hlt ended is delivered as stopped; an execve that was recorded is the last thing
\* the guest did.  Of these stops hlt is the one without a reason.
StopsExplained ==
    /\ IsShell /\ delivered # None /\ delivered.backend = backend /\ result = "halted" =>
          (delivered.status = "ok") = (stopReason = None /\ exited)
    /\ \A x \in execs : (\E k \in DOMAIN events : events[k].call = x) => x = calls /\ halted

\* index.mjs:264-265, "clean stops with a reason (int3 / ud2 / int 2d / hlt)": what is
\* delivered as stopped says why.
StopsHaveReason ==
    IsShell /\ delivered # None /\ delivered.backend = backend /\ delivered.status = "stopped" =>
        stopReason # None

\* "diff the RWX code + heap before/after to surface unpacked buffers": the diff counts each
\* changed byte once, and lists all of them unless there are too many ranges, and never a
\* byte that is what it was.
DiffFindsChanges ==
    LET d == DiffBuffers
        listed == UNION {d.ranges[k][1]..(d.ranges[k][2] - 1) : k \in DOMAIN d.ranges}
    IN  /\ d.bytes = Cardinality(changed)
        /\ listed \subseteq changed
        /\ Len(d.ranges) < MaxRanges => listed = changed

\* "execve is terminal (it replaces the image)": after an execve the guest makes no call.
ExecveIsTerminal == \A x \in execs : x = calls

\* What a run leaves behind says what the guest did: each event has its own call's site, the
\* delivered status is that of the attempt the patterns of the harness choose, and a trap's
\* or an execve's stop is told from an exit.
ReportsExplained ==
    /\ EventSites
    /\ OutcomeExplained(IF IsShell THEN ShellRetryErrors ELSE RetryErrors,
                        IF IsShell THEN ShellDiscardErrors ELSE DiscardErrors)
    /\ StopsExplained

\* Every byte the guest wrote is accounted for, on its way through a descriptor (those the
\* code drops are counted, see StreamsAreFifo) and in the diff of its memory.
BytesAreKept == StreamsAreFifo /\ DiffFindsChanges
=============================================================================
