------------------------------- MODULE ElfRun -------------------------------
(***************************************************************************)
(* One analysis of a Linux executable, elf-runner/src/index.mjs: the entry *)
(* code, the native libc it calls into, main run as a call nested in       *)
(* __libc_start_main, the report, and the second attempt on the hybrid     *)
(* backend.  The CPU is external: a call into the guest comes back with    *)
(* "ok", with "halted" once something has halted it, or with one of the    *)
(* Failures, which are statuses and, where the code looks at the error     *)
(* itself, its wording: "unimplemented", "unsupported" and "x87" are how a  *)
(* refused instruction reads, "engine" is Unicorn failing.                 *)
(***************************************************************************)
EXTENDS LinuxModel

CONSTANT Failures     \* how a call into the guest ends badly

\* The wordings that say an instruction was refused.
Refusals == {"unimplemented", "unsupported", "x87"}

\* What runElf tests the first report's error for, and then the second's: the two are not
\* the same.
RetryErrors == {"unimplemented", "unsupported", "x87"}
DiscardErrors == {"unimplemented", "engine"}

ASSUME FailuresAssumption ==
    /\ Failures \cap {"ok", "halted", "stopped"} = {}
    /\ None \notin [status : Refusals, code : Codes \cup {None}, refused : {TRUE},
                    hidden : BOOLEAN, backend : {"js"}]

VARIABLES backend,    \* "js" or "hybrid"
          at,         \* what runs: "entry", "main", "report", "over"
          mainCall,   \* the call that __libc_start_main is
          refused,    \* the interpreter refused an instruction in this attempt
          result,     \* how the entry point's call came back
          first,      \* the JS attempt's report, once the hybrid runs
          delivered   \* what runElf returns

runVars == <<backend, at, mainCall, refused, result, first, delivered>>
vars == <<linuxVars, runVars>>

Init ==
    /\ LinuxInit
    /\ backend = "js"
    /\ at = "entry"
    /\ mainCall = 0
    /\ refused = FALSE
    /\ result = None /\ first = None /\ delivered = None

GuestRuns == at \in {"entry", "main"} /\ ~halted
MayCall == GuestRuns /\ calls < MaxCalls

-----------------------------------------------------------------------------
(* What the guest calls.                                                   *)

LinuxCall == MayCall /\ Syscall /\ UNCHANGED runVars

GuestFills == GuestRuns /\ (\E d \in Data : Fills(d)) /\ UNCHANGED runVars

\* libcHook records its event after the handler, with its return address and no cap.
LibcRecords(call, data) == events' = Append(events, [call |-> call, site |-> call, data |-> data])

\* The native helpers; printf and puts push to stdout past the lists' cap.
LibcCall(printed) ==
    /\ MayCall
    /\ calls' = calls + 1
    /\ LibcRecords(calls + 1, IF printed THEN buf ELSE None)
    /\ lists' = IF printed THEN [lists EXCEPT !["stdout"] = @ + 1] ELSE lists
    /\ UNCHANGED <<tables, ending, buf, runVars>>

\* exit and _exit; abort, which leaves no exit code.
LibcExit(code) ==
    /\ MayCall
    /\ exited' = TRUE /\ halted' = TRUE
    /\ exitCode' = IF code = None THEN exitCode ELSE code
    /\ calls' = calls + 1
    /\ LibcRecords(calls + 1, None)
    /\ UNCHANGED <<tables, lists, buf, runVars>>

\* hlt: the CPU stops, and the process has not exited.
Hlt ==
    /\ GuestRuns
    /\ halted' = TRUE
    /\ UNCHANGED <<tables, lists, events, calls, exited, exitCode, buf, runVars>>

\* __fastfail: the run counts as exited, and goes on as the CPU has it.
Fastfail ==
    /\ GuestRuns /\ ~exited
    /\ exited' = TRUE
    /\ UNCHANGED <<tables, lists, events, calls, exitCode, halted, buf, runVars>>

\* __libc_start_main: main is called, a call nested in the entry point's.
StartMain ==
    /\ MayCall /\ at = "entry"
    /\ at' = "main"
    /\ calls' = calls + 1
    /\ mainCall' = calls + 1
    /\ UNCHANGED <<tables, lists, events, ending, buf, backend, refused, result, first, delivered>>

-----------------------------------------------------------------------------
(* How a call into the guest comes back.                                   *)

\* Unicorn fails only where it runs.
Returns(res) ==
    IF halted THEN res = "halted"
    ELSE res \in Failures \cup {"ok"} /\ (res = "engine" => backend = "hybrid")

\* Whether a call cut short by the halt has a return value is the CPU's business.
Retvals(res) == CASE res = "ok" -> Codes [] res = "halted" -> Codes \cup {None} [] OTHER -> {None}

\* __libc_start_main once main is back: whatever became of it the process has exited.
MainEnds(res, retval) ==
    /\ at = "main" /\ Returns(res) /\ retval \in Retvals(res)
    /\ exitCode' = IF retval = None THEN exitCode ELSE retval
    /\ exited' = TRUE /\ halted' = TRUE
    /\ LibcRecords(mainCall, None)
    /\ at' = "entry"
    /\ refused' = (refused \/ res \in Refusals)
    /\ UNCHANGED <<tables, lists, calls, buf, backend, mainCall, result, first, delivered>>

\* The entry point's call is back, and the run is over.
EntryEnds(res) ==
    /\ at = "entry" /\ Returns(res)
    /\ result' = res
    /\ at' = "report"
    /\ refused' = (refused \/ res \in Refusals)
    /\ UNCHANGED <<linuxVars, backend, mainCall, first, delivered>>

-----------------------------------------------------------------------------
(* The report and the second attempt.                                      *)

Status == IF result = "halted" /\ exited THEN "ok" ELSE result

\* formatElfTrace decodes the arguments when the run is over: a line shows what is then in
\* the memory the call pointed at.
Trace == [k \in DOMAIN events |-> IF events[k].data = None THEN None ELSE buf]

Report == [status |-> Status, code |-> exitCode, refused |-> result \in Refusals,
           hidden |-> refused, backend |-> backend]

\* No second attempt is due, the caller did not want one, or there is no Unicorn here.
Deliver ==
    /\ at = "report" /\ backend = "js"
    /\ delivered' = Report
    /\ at' = "over"
    /\ UNCHANGED <<linuxVars, backend, mainCall, refused, result, first>>

\* runElfOnce again, from nothing, when the report's error is one of errors.
Retry(errors, report) ==
    /\ at = "report" /\ backend = "js" /\ result \in errors
    /\ first' = report
    /\ backend' = "hybrid"
    /\ LinuxRestart
    /\ at' = "entry" /\ mainCall' = 0 /\ refused' = FALSE /\ result' = None
    /\ UNCHANGED delivered

\* The second report is kept if it is well or its error is none of those: then the first one
\* is gone, even if the second says that an instruction was refused too, in other words.
Keeps == result \notin DiscardErrors

DeliverRetried ==
    /\ at = "report" /\ backend = "hybrid"
    /\ delivered' = IF Keeps THEN Report ELSE first
    /\ at' = "over"
    /\ UNCHANGED <<linuxVars, backend, mainCall, refused, result, first>>

Over == at = "over" /\ UNCHANGED vars

Ends ==
    \/ \E res \in Failures \cup {"ok", "halted"} :
          \/ EntryEnds(res)
          \/ \E v \in Codes \cup {None} : MainEnds(res, v)
    \/ Deliver \/ Retry(RetryErrors, Report) \/ DeliverRetried

Next ==
    \/ LinuxCall \/ GuestFills \/ Hlt \/ Fastfail \/ StartMain
    \/ \E printed \in BOOLEAN : LibcCall(printed)
    \/ \E c \in Codes \cup {None} : LibcExit(c)
    \/ Ends \/ Over

Spec == Init /\ [][Next]_vars

-----------------------------------------------------------------------------
(* Properties.                                                             *)

TypeOK ==
    /\ LinuxTypeOK
    /\ backend \in {"js", "hybrid"}
    /\ at \in {"entry", "main", "report", "over"}
    /\ result \in Failures \cup {None, "ok", "halted"}
    /\ (first # None) = (backend = "hybrid")

\* Every event of the trace has the site of its own call, also past MAX_EVENTS, where the
\* last event is no longer the one just made, and with main's calls nested in
\* __libc_start_main's.
CallSites ==
    /\ \A k \in DOMAIN events : events[k].site = events[k].call
    /\ \A j, k \in DOMAIN events : j # k => events[j].call # events[k].call

\* "A clean exit is halted from the CPU's perspective; surface it as ok": a run is delivered as
\* merely halted only if the process had not exited.  Only a run whose error asks for it is
\* tried again; a hybrid report is delivered only if its error is none that is discarded,
\* and the first report stays only if the second one's is, or there was no second.
OutcomeExplained(retries, discards) ==
    /\ first # None => first.status \in retries /\ first.backend = "js"
    /\ delivered # None =>
          /\ delivered.status = "halted" => ~exited
          /\ delivered.backend = "hybrid" => delivered.status \notin discards
          /\ first # None /\ delivered.backend = "js" => delivered = first /\ result \in discards

\* index.mjs:64-68, "retrying once on the hybrid (JS + Unicorn) backend when the
\* deterministic interpreter refuses an instruction": a delivered report of the JS backend in
\* which an instruction was refused says so.
RefusalIsReported == delivered # None /\ delivered.hidden => delivered.refused

\* trace.mjs, "decode recorded syscall/libc events into a chronological trace": the trace
\* shows what each call passed.
TraceShowsCalls ==
    at = "report" => \A k \in DOMAIN events : Trace[k] = events[k].data
=============================================================================
