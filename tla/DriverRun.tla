------------------------------ MODULE DriverRun ------------------------------
(***************************************************************************)
(* One analysis of a driver: analyzeDriver of ntsim-analyzer/src/          *)
(* index.mjs, which runs analyzeDriverOnce from the image to the finished  *)
(* report and may run it again on another backend, with autoDriveIrps of   *)
(* autoirp.mjs and the watch on executable sections of selfmod.mjs in      *)
(* their places.  The harness calls driver code in stages,  *)
(* drains the kernel's log arrays and its deferred work between them, and  *)
(* decides from report.bugcheck and the call's status how to go on.        *)
(* The kernel model (NtKernel, sendIrp) is a library outside the           *)
(* repository: a driver call may return any status, stop the kernel, log,  *)
(* queue deferred work and write to its own code.                          *)
(***************************************************************************)
EXTENDS Integers, SequencesExt

CONSTANTS Options,     \* the option records analyzed with
          MaxRecords,  \* bound: records the kernel logs, and stages that write code, in a run
          None

Logs == {"dbgLog", "exceptionTrace", "irqlViolations"}
Stages == {"entry", "deferred", "callbacks", "auto", "fuzz", "ioctl", "unload"}
Statuses == {"ok", "fault", "timeout"}   \* timeout stands for debug-stop too

\* The interpreter refuses an instruction, in words of one or the other kind.
Refusals == {"unimplemented", "unsupported"}

\* fallback: autoHybridFallback, and the caller chose no backend; watch: detectSelfModifying; events: simulateEvents; autoIrp: off, the canned
\* inputs, or the fuzzer; codes: requests the canned loops make, or codes fuzzed; ioctls: scripted
\* requests; unload: runUnload.
ASSUME OptionsAssumption ==
    /\ Options \subseteq [fallback : BOOLEAN, watch : BOOLEAN, events : BOOLEAN,
                          autoIrp : {"off", "canned", "advanced"}, codes : Nat, ioctls : Nat, unload : BOOLEAN]
    /\ MaxRecords \in Nat
    /\ None \notin Stages \cup Statuses \cup Refusals
    /\ \A snapshot \in SUBSET {"load"} : None # snapshot

VARIABLES
    opts,      \* the caller's options
    backend,   \* the backend of this attempt
    first,     \* report.entry of the first attempt once there is a second, else None
    delivered, \* the attempt whose report the caller gets, 0 before
    pc,        \* the step the harness is at
    left,      \* requests the current loop still has
    dead,      \* kernel.bugcheck or kernel.crash is set
    code,      \* who has written to the executable sections
    watch,     \* what the snapshot of these sections holds, None without one
    queue,     \* who queued the deferred work that waits
    klog,      \* the kernel's log arrays: the stage that wrote each record
    results,   \* report.autoIrps
    report,    \* the other report fields the harness decides by
    late       \* history: the stages that called the driver on a dead kernel

attempt == <<backend, first, delivered>>
vars == <<opts, attempt, pc, left, dead, code, watch, queue, klog, results, report, late>>

NoReport == [entry |-> None, log |-> [l \in Logs |-> <<>>], bugcheck |-> FALSE, stall |-> None,
             ioctls |-> <<>>, unload |-> None, selfmod |-> None]

Init ==
    /\ opts \in Options
    /\ backend = "js" /\ first = None /\ delivered = 0
    /\ pc = "map"
    /\ left = 0
    /\ dead = FALSE
    /\ code = {}
    /\ watch = None
    /\ queue = {}
    /\ klog = [l \in Logs |-> <<>>]
    /\ results = <<>>
    /\ report = NoReport
    /\ late = {}

-----------------------------------------------------------------------------
(* What one call into the driver does to the kernel (external).            *)

Records(logs) == Len(logs["dbgLog"]) + Len(logs["exceptionTrace"]) + Len(logs["irqlViolations"])

\* What is left of the bound, once the step has its writes to the code.
Room == MaxRecords - Records(klog) - Records(report.log) - Cardinality(code' \ {"load"})

\* The arrays a call may write to, within the bound.
Writable == {W \in SUBSET Logs : Cardinality(W) <= Room}

\* The kernel's arrays after the driver code of a stage wrote to those of W.
Written(stage, W) ==
    [l \in Logs |-> IF l \in W THEN Append(klog[l], stage) ELSE klog[l]]

\* The call may stop the kernel, never revive it; it may queue deferred work and write
\* to the driver's code, or put back what was there.
Called(stage, q) ==
    /\ code' \in {code, code \cup {stage}, code \ Stages} /\ Room >= 0
    /\ dead' \in {TRUE, dead}
    /\ queue' \in {q, q \cup {stage}}
    /\ late' = IF dead THEN late \cup {stage} ELSE late

\* A step without driver code that leaves the report alone.
Skip == UNCHANGED <<dead, code, queue, late, klog, report>>

-----------------------------------------------------------------------------
(* What the harness does with the report after a stage.                    *)

\* Mutant of Spliced: nothing is taken over after the unload.
SplicedNotUnload(stage) ==
    IF stage = "unload" THEN {}
    ELSE Logs \ (IF stage \in {"deferred", "callbacks"} THEN {"irqlViolations"} ELSE {})

\* The arrays spliced into the report after a stage.
Spliced(stage) ==
    IF stage \in {"deferred", "callbacks", "unload"} THEN Logs \ {"irqlViolations"} ELSE Logs

Taken(stage, arrays, into) ==
    [l \in Logs |-> IF l \in Spliced(stage) THEN into[l] \o arrays[l] ELSE into[l]]

LeftOver(stage, arrays) == [l \in Logs |-> IF l \in Spliced(stage) THEN <<>> ELSE arrays[l]]

\* The steps after which report.bugcheck is brought up to date (and Collect).
Refreshes == pc \in {"entry", "callbacks", "settle"}

\* Driver code runs, then the logs are spliced; edited is the report with the
\* stage's own result.
Run(stage, q, edited) ==
    /\ Called(stage, q)
    /\ \E W \in Writable :
         /\ klog' = LeftOver(stage, Written(stage, W))
         /\ report' = [edited EXCEPT !.log = Taken(stage, Written(stage, W), @),
                                     !.bugcheck = IF Refreshes THEN dead' ELSE @]

\* drainDeferred runs all that is queued; without work there is no call.
Drain == IF queue # {} THEN Run("deferred", {}, report) ELSE Skip

\* captureStall: the first stage with a stalled call is kept.
Stall(stage, stalled) == IF report.stall = None /\ stalled THEN stage ELSE report.stall

-----------------------------------------------------------------------------
(* Loading, before any driver code runs.                                   *)

\* The loader may have a line for the log.
LoaderLine == \E W \in {{}, {"dbgLog"}} \cap Writable : klog' = Written("load", W)

\* parsePe and mapPe may throw, and so may a second attempt without a hybrid backend: the
\* attempt has no report.  A userland or packed
\* image is analyzed, with a warning.
MapImage ==
    /\ pc = "map"
    /\ pc' \in {"triage", "failed"}
    /\ UNCHANGED <<opts, watch, left, dead, code, queue, results, report, late>>
    /\ IF pc' = "failed" THEN UNCHANGED klog ELSE LoaderLine

\* Static facts, rules, strings and YARA: what fails is noted and left out.
StaticTriage ==
    /\ pc = "triage"
    /\ pc' = "seed"
    /\ UNCHANGED <<opts, watch, left, dead, code, queue, results, report, late>>
    /\ LoaderLine

\* snapshotExecSections, after the loader's own writes
Snapshot == code'

\* rekeySecurityCookie writes wherever the image holds the sentinel.
Rekeyed == code' \in {{}, {"load"}}

\* The service key, a new security cookie wherever the image holds the old one, the
\* snapshot, the watch on the headers, the registry path and the service table.
Prepare ==
    /\ pc = "seed"
    /\ pc' = "entry"
    /\ Rekeyed
    /\ watch' = IF opts.watch THEN Snapshot ELSE None
    /\ LoaderLine
    /\ UNCHANGED <<opts, left, dead, queue, results, report, late>>

-----------------------------------------------------------------------------
(* Entry, deferred work and simulated callback events.                     *)

DriverEntry ==
    /\ pc = "entry"
    /\ pc' = "deferred"
    /\ \E s \in Statuses \cup Refusals :
         Run("entry", queue, [report EXCEPT !.entry = s, !.stall = Stall("entry", s = "timeout")])
    /\ UNCHANGED <<opts, watch, left, results>>

Goes == report.entry = "ok" /\ ~report.bugcheck

DrainDeferred ==
    /\ pc = "deferred"
    /\ pc' = "callbacks"
    /\ IF Goes THEN Drain ELSE Skip
    /\ UNCHANGED <<opts, watch, left, results>>

\* The notify, Ob and Cm callbacks; an error thrown among them is noted in the
\* report ahead of what they logged.
FireCallbacks ==
    /\ pc = "callbacks"
    /\ pc' = "device"
    /\ IF opts.events /\ Goes
       THEN \E thrown \in {<<>>, <<"callbacks">>} :
              Run("callbacks", queue, [report EXCEPT !.log["dbgLog"] = @ \o thrown])
       ELSE Skip
    /\ UNCHANGED <<opts, watch, left, results>>

\* Automatic driving first, then the scripted requests.
OpenDevice ==
    /\ pc = "device"
    /\ pc' = IF ~Goes THEN "unload" ELSE IF opts.autoIrp = "off" THEN "ioctl" ELSE "create"
    /\ left' = IF opts.autoIrp = "off" THEN opts.ioctls ELSE opts.codes
    /\ UNCHANGED <<opts, watch, dead, code, queue, klog, results, report, late>>

-----------------------------------------------------------------------------
(* autoDriveIrps.                                                          *)

\* push: send one request and keep its result.  The logs stay with the kernel.
Push(major, s) ==
    /\ Called("auto", queue)
    /\ \E W \in Writable : klog' = Written("auto", W)
    /\ results' = Append(results, [major |-> major, status |-> s])
    /\ UNCHANGED <<opts, watch, report>>

Create ==
    /\ pc = "create"
    /\ \E s \in Statuses :
         /\ Push("CREATE", s)
         /\ pc' = IF s = "ok" THEN "read" ELSE "collect"
    /\ UNCHANGED left

\* READ and WRITE are sent only to a driver that has a handler for them.
ReadWrite ==
    /\ pc \in {"read", "write"}
    /\ pc' = IF pc = "read" THEN "write" ELSE "codes"
    /\ \/ \E s \in Statuses : Push(IF pc = "read" THEN "READ" ELSE "WRITE", s)
       \/ UNCHANGED <<opts, watch, dead, code, queue, klog, results, report, late>>
    /\ UNCHANGED left

\* Mutant of MoreCodes: one request too many.
MoreCodesOffByOne == left >= 0
MoreCodes == left > 0

\* Mutant of CannedRequest: a hard failure returns without the CLOSE.
CannedRequestReturns ==
    /\ pc = "codes" /\ opts.autoIrp = "canned" /\ MoreCodes
    /\ left' = left - 1
    /\ \E s \in Statuses :
         /\ Push("DEVICE_CONTROL", s)
         /\ pc' = IF s # "ok" \/ dead' THEN "collect" ELSE "codes"

\* One canned input: a hard failure ends both loops, a bugcheck returns.
CannedRequest ==
    /\ pc = "codes" /\ opts.autoIrp = "canned" /\ MoreCodes
    /\ left' = left - 1
    /\ \E s \in Statuses :
         /\ Push("DEVICE_CONTROL", s)
         /\ pc' = IF s # "ok" THEN "close" ELSE IF dead' THEN "collect" ELSE "codes"

\* One code handed to fuzzIoctl: its inputs run on a snapshot that is restored,
\* so that no bugcheck and no log record is left, but queued work is.  The
\* corpus becomes results, whatever their status.
FuzzedCode ==
    /\ pc = "codes" /\ opts.autoIrp = "advanced" /\ MoreCodes /\ ~dead
    /\ left' = left - 1
    /\ queue' \in {queue, queue \cup {"fuzz"}}
    /\ \E s \in Statuses :
         results' = Append(results, [major |-> "DEVICE_CONTROL", status |-> s])
    /\ UNCHANGED <<opts, watch, pc, dead, code, klog, report, late>>

CodesDone ==
    /\ pc = "codes"
    /\ ~MoreCodes \/ (opts.autoIrp = "advanced" /\ dead)
    /\ pc' = "close"
    /\ UNCHANGED <<opts, watch, left, dead, code, queue, klog, results, report, late>>

\* Sent after a hard failure too, and by the advanced path after a bugcheck.
Close ==
    /\ pc = "close"
    /\ \E s \in Statuses : Push("CLOSE", s)
    /\ pc' = "collect"
    /\ UNCHANGED left

AnyStalled == \E i \in DOMAIN results : results[i].status = "timeout"

\* autoDriveIrps has returned: stall, logs and bugcheck of the whole phase.
Collect ==
    /\ pc = "collect"
    /\ pc' = "drain"
    /\ klog' = LeftOver("auto", klog)
    /\ report' = [report EXCEPT !.stall = IF AnyStalled THEN Stall("auto", TRUE) ELSE @,
                                !.log = Taken("auto", klog, @), !.bugcheck = dead]
    /\ UNCHANGED <<opts, watch, left, dead, code, queue, results, late>>

\* drainAfterIrp once per result, after all of them: the first one runs the
\* work, the others find none.  A dead kernel is left alone.
DrainAuto ==
    /\ pc = "drain"
    /\ pc' = "ioctl"
    /\ left' = opts.ioctls
    /\ IF dead THEN Skip ELSE Drain
    /\ UNCHANGED <<opts, watch, results>>

-----------------------------------------------------------------------------
(* Scripted requests, unload and summary.                                  *)

\* The loop of scripted requests sends the next one.
SendIoctl ==
    /\ pc = "ioctl" /\ left > 0 /\ ~report.bugcheck
    /\ pc' = "settle"
    /\ left' = left - 1
    /\ \E s \in Statuses :
         Run("ioctl", queue, [report EXCEPT !.stall = Stall("ioctl", s = "timeout"),
                                            !.ioctls = Append(@, s)])
    /\ UNCHANGED <<opts, watch, results>>

\* Mutant of SettleIoctl: the work the request queued is not drained.
SettleIoctlNoDrain ==
    /\ pc = "settle"
    /\ pc' = IF report.ioctls[Len(report.ioctls)] = "ok" THEN "ioctl" ELSE "unload"
    /\ report' = [report EXCEPT !.bugcheck = dead]
    /\ UNCHANGED <<opts, watch, left, dead, code, queue, klog, results, late>>

\* The rest of the iteration: drain, look for a bugcheck, stop after a failure.
SettleIoctl ==
    /\ pc = "settle"
    /\ pc' = IF report.ioctls[Len(report.ioctls)] = "ok" THEN "ioctl" ELSE "unload"
    /\ IF dead \/ queue = {}
       THEN report' = [report EXCEPT !.bugcheck = dead] /\ UNCHANGED <<dead, code, queue, late, klog>>
       ELSE Drain
    /\ UNCHANGED <<opts, watch, left, results>>

IoctlsDone ==
    /\ pc = "ioctl"
    /\ left = 0 \/ report.bugcheck
    /\ pc' = "unload"
    /\ UNCHANGED <<opts, watch, left, dead, code, queue, klog, results, report, late>>

MayUnload == opts.unload /\ Goes

DriverUnload ==
    /\ pc = "unload"
    /\ pc' = "diff"
    /\ IF MayUnload
       THEN \E s \in Statuses :
              Run("unload", queue, [report EXCEPT !.unload = s,
                                                  !.stall = Stall("unload", s = "timeout")])
       ELSE Skip
    /\ UNCHANGED <<opts, watch, left, results>>

\* A line for the log once nothing takes the log over any more.
LateLine == \E W \in {{}, {"dbgLog"}} \cap Writable : klog' = Written("summary", W)

\* diffExecSections: what differs from the snapshot was written by the driver.
Changed == code \ watch

DiffCode ==
    /\ pc = "diff"
    /\ pc' = "summary"
    /\ report' = [report EXCEPT !.selfmod = IF watch = None THEN None ELSE Changed]
    /\ UNCHANGED <<opts, watch, left, dead, code, queue, klog, results, late>>

\* The summary rewrites report.bugcheck from the kernel's, reads the kernel's traces and
\* tables into the report, and has a line about callbacks close to the entry point.
Summary ==
    /\ pc = "summary"
    /\ pc' = "done"
    /\ report' = [report EXCEPT !.bugcheck = @ \/ dead]
    /\ UNCHANGED <<opts, watch, left, dead, code, queue, results, late>>
    /\ LateLine

-----------------------------------------------------------------------------
(* analyzeDriver.                                                          *)

Refused(entry) == entry \in Refusals

\* The interpreter refused an instruction of DriverEntry: a second attempt, in a new
\* kernel on the hybrid backend.
Retry ==
    /\ pc = "done" /\ backend = "js" /\ opts.fallback /\ Refused(report.entry)
    /\ backend' = "hybrid" /\ first' = report.entry
    /\ pc' = "map" /\ left' = 0 /\ dead' = FALSE /\ code' = {} /\ watch' = None /\ queue' = {}
    /\ klog' = [l \in Logs |-> <<>>] /\ results' = <<>> /\ report' = NoReport /\ late' = {}
    /\ UNCHANGED <<opts, delivered>>

\* The second report is kept unless it, too, was refused as unimplemented.
Keeps == pc = "done" /\ report.entry # "unimplemented"

\* What the caller gets; an error of the first attempt is the caller's.
Deliver ==
    /\ pc \in {"done", "failed"}
    /\ IF backend = "js" THEN pc = "done" /\ ~(opts.fallback /\ Refused(report.entry)) ELSE TRUE
    /\ pc' = "delivered"
    /\ delivered' = IF backend = "hybrid" /\ Keeps THEN 2 ELSE 1
    /\ UNCHANGED <<opts, backend, first, left, dead, code, watch, queue, klog, results, report, late>>

AutoDrive == Create \/ ReadWrite \/ CannedRequest \/ FuzzedCode \/ CodesDone \/ Close

Attempt ==
    \/ MapImage \/ StaticTriage \/ Prepare
    \/ DriverEntry \/ DrainDeferred \/ FireCallbacks \/ OpenDevice
    \/ AutoDrive \/ Collect \/ DrainAuto
    \/ SendIoctl \/ SettleIoctl \/ IoctlsDone \/ DriverUnload \/ DiffCode \/ Summary

Next == (Attempt /\ UNCHANGED attempt) \/ Retry \/ Deliver

Spec == Init /\ [][Next]_vars

-----------------------------------------------------------------------------
(* Properties.                                                             *)

\* The shape of the state.
TypeOK ==
    /\ opts \in Options
    /\ pc \in {"map", "triage", "seed", "failed", "entry", "deferred", "callbacks", "device",
               "create", "read", "write", "codes", "close", "collect", "drain", "ioctl", "settle",
               "unload", "diff", "summary", "done", "delivered"}
    /\ backend \in {"js", "hybrid"} /\ (backend = "hybrid" <=> first # None)
    /\ delivered \in {0, 1, 2} /\ (delivered # 0 <=> pc = "delivered")
    /\ left \in Nat
    /\ dead \in BOOLEAN
    /\ queue \subseteq Stages
    /\ code \subseteq Stages \cup {"load"}
    /\ watch = None \/ watch \subseteq {"load"}
    /\ klog \in [Logs -> Seq(Stages \cup {"load", "summary"})]
    /\ results \in Seq([major : {"CREATE", "READ", "WRITE", "DEVICE_CONTROL", "CLOSE"},
                        status : Statuses])
    /\ report.log \in [Logs -> Seq(Stages \cup {"load"})]
    /\ report.bugcheck \in BOOLEAN
    /\ report.stall \in {None, "entry", "auto", "ioctl", "unload"}
    /\ report.ioctls \in Seq(Statuses)
    /\ {report.entry, report.unload} \subseteq Statuses \cup Refusals \cup {None}
    /\ late \subseteq Stages

\* The exceptions and the log are there but for lines of the summary itself, and of the
\* IRQL violations at most those of deferred work, callbacks and the unload are missing.
LogsComplete ==
    /\ klog["exceptionTrace"] = <<>>
    /\ ToSet(klog["dbgLog"]) \subseteq {"summary"}
    /\ ToSet(klog["irqlViolations"]) \subseteq {"deferred", "callbacks", "unload"}

\* selfmod.mjs: every stage whose writes are in the code, and never the loader.
CodeWritesReported == report.selfmod = IF opts.watch THEN code \cap Stages ELSE None

\* Once the report has the bugcheck, no driver code runs again and the kernel's
\* state is final.
StopsOnReportedBugcheck ==
    report.bugcheck => UNCHANGED <<queue, late, results, report.ioctls, report.unload>>

\* A bugcheck the harness has not looked for yet costs at most one further stage: it is
\* found before a second one starts.  And a driver whose CREATE succeeded is sent its
\* CLOSE, unless it stopped the kernel (autoirp.mjs: the lifecycle every driver has).
StagesEndWell ==
    /\ Cardinality(late) <= 1 /\ ("ioctl" \in late => report.unload = None)
    /\ pc = "collect" /\ results[1].status = "ok" /\ ~dead => Last(results).major = "CLOSE"

\* No scripted request and no unload starts while work queued by an earlier
\* request waits: it would run in a later state than the request left.
IrpWorkDrained ==
    report'.ioctls # report.ioctls \/ report'.unload # report.unload
      => queue \cap {"auto", "fuzz", "ioctl"} = {}

\* The stages of an attempt follow each other as the kernel allows: none after a reported
\* bugcheck, and none on top of another's queued work.
StagesSeparate == [][backend' = backend => StopsOnReportedBugcheck /\ IrpWorkDrained]_vars

\* report.stall names the first stage with a stalled call, and is there exactly when
\* one stalled.
Stalled(stage) ==
    CASE stage = "entry" -> report.entry = "timeout"
      [] stage = "auto" -> AnyStalled
      [] stage = "ioctl" -> Contains(report.ioctls, "timeout")
      [] stage = "unload" -> report.unload = "timeout"

Before(stage) ==
    CASE stage = "entry" -> {}
      [] stage = "auto" -> {"entry"}
      [] stage = "ioctl" -> {"entry", "auto"}
      [] stage = "unload" -> {"entry", "auto", "ioctl"}

StallIsFirst ==
    \/ report.stall = None /\ \A stage \in {"entry", "auto", "ioctl", "unload"} : ~Stalled(stage)
    \/ /\ report.stall # None /\ Stalled(report.stall)
       /\ \A stage \in Before(report.stall) : ~Stalled(stage)

\* analyzeDriver, "automatically rescuing pure-JS runs that hit instructions the interpreter
\* refuses": the delivered report is of a DriverEntry that ran if any attempt's did, and says
\* "unimplemented" only if both attempts did, or the second could not be made.
RescueIsDelivered ==
    LET second == IF report.entry = None THEN {} ELSE {report.entry}
        got == IF delivered = 2 \/ backend = "js" THEN report.entry ELSE first
    IN  pc = "delivered" =>
          /\ "ok" \in second \cup {first} => got = "ok"
          /\ got = "unimplemented" /\ opts.fallback => second \cup {first} = {got}

\* However the run ends, the report has what the kernel logged, what the driver wrote
\* to its code and where it stalled first, and it is the one the caller gets.
ReportComplete ==
    /\ pc \in {"done", "delivered"} /\ report.entry # None =>
         LogsComplete /\ CodeWritesReported /\ StallIsFirst
    /\ RescueIsDelivered

\* index.mjs on drainAfterIrp: "Runs after every driven IRP".  The next request
\* never finds work an earlier one queued.
DrainedAfterEveryIrp ==
    [][Len(results') > Len(results) \/ report'.ioctls # report.ioctls
         => queue \cap {"auto", "ioctl"} = {}]_vars
=============================================================================
