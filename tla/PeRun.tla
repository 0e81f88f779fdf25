------------------------------- MODULE PeRun -------------------------------
(***************************************************************************)
(* One analysis of a Windows executable or DLL, pe-runner/src/index.mjs:   *)
(* the runs that are chosen, each in a world of its own, DllMain before    *)
(* and after an export's code, the one dispatch to the image's exception   *)
(* handlers, the second attempt on the hybrid backend, and the summaries.  *)
(* What the guest calls is Win32Objects' and ModuleLoader's.  The CPU is   *)
(* external: a call into the guest comes back with "ok", with "halted"     *)
(* once something has halted it, or with one of Failures; Refusals are the *)
(* failures that read as an instruction the interpreter does not have, and *)
(* "fault" is the one the handlers are asked about.                        *)
(***************************************************************************)
EXTENDS Win32Objects, ModuleLoader

CONSTANTS Cases,       \* pairs of a sample and of what the caller asks for.  The sample is
                       \* [isDll, base, size, entry, exports, loads, calls]: base and size, in
                       \* pages, are the image's region; exports is a sequence that says
                       \* of each export whether it is a forwarder; loads is FALSE if mapping
                       \* throws; calls, a bound, is how many calls a run of it makes.
                       \* The options are [mode, wanted, attach, detach, hybrid]: wanted is 0 if
                       \* no export is found for the name asked for
          Failures,
          MaxExports,  \* opts.maxExports, 64
          None

Refusals == {"unimplemented", "unsupported"}
Modes == {"entry", "attach", "export", "forwarder"}
RunSpecs == [mode : Modes, export : Nat]

\* The summaries after which the hybrid backend is tried.
Refused == [spec : RunSpecs, status : Refusals, exited : BOOLEAN, calls : Nat, ran : BOOLEAN,
            backend : {"js"}]

ASSUME PeAssumption ==
    /\ Refusals \cup {"fault"} \subseteq Failures
    /\ Failures \cap {"ok", "halted", "forwarder", "load-error"} = {}
    /\ None \notin Refused \cup Failures \cup {"ok", "halted", "forwarder", "load-error"}
    /\ MaxExports \in Nat \ {0}
    /\ \A c \in Cases :
          /\ c[2].wanted \in 0..Len(c[1].exports) /\ c[1].exports \in Seq(BOOLEAN)
          /\ c[1].base \in Nat /\ c[1].size \in Nat

VARIABLES sample, options,
          k,          \* the spec that runs
          backend,    \* "js" or "hybrid"
          phase,      \* "load", "attach", "body", "detach", "report", "over"
          calls, exited, halted,
          seh,        \* of the call into the guest: "no" fault yet, its handlers "run", or "used"
          attached,   \* how DllMain's attach came back
          ran,        \* the code the spec is about was called
          result,     \* how the run came out
          first,      \* the JS attempt's summary, once the hybrid runs
          runs        \* the summaries

processVars == <<calls, exited, halted>>
controlVars == <<sample, options, k, backend, phase, seh, attached, ran, result, first, runs>>
worldVars == <<objectVars, loaderVars, processVars>>
vars == <<worldVars, controlVars>>

-----------------------------------------------------------------------------
(* Which runs there are.                                                   *)

Code == {e \in DOMAIN sample.exports : ~sample.exports[e]}
Spec1(mode, e) == <<[mode |-> mode, export |-> e]>>

\* The j-th export with code of its own.
Nth(j) == CHOOSE e \in Code : Cardinality({c \in Code : c <= e}) = j

\* decideRunSpecs
Specs ==
    IF ~sample.isDll THEN Spec1("entry", 0)
    ELSE IF options.mode = "attach" THEN Spec1("attach", 0)
    ELSE IF options.mode = "all" /\ Code # {}
         THEN [j \in 1..Min({MaxExports, Cardinality(Code)}) |-> [mode |-> "export", export |-> Nth(j)]]
    ELSE IF options.mode = "export" /\ options.wanted # 0
         THEN Spec1(IF options.wanted \in Code THEN "export" ELSE "forwarder", options.wanted)
    ELSE IF options.mode = "export" /\ Code # {} THEN Spec1("export", Min(Code))
    ELSE Spec1("attach", 0)

Current == Specs[k]

-----------------------------------------------------------------------------
(* A world begins.                                                         *)

Init ==
    /\ \E c \in Cases : sample = c[1] /\ options = c[2]
    /\ ObjectsInit /\ LoaderInit([base |-> sample.base, size |-> sample.size])
    /\ calls = 0 /\ exited = FALSE /\ halted = FALSE
    /\ k = 1 /\ backend = "js" /\ phase = "load" /\ seh = "no"
    /\ attached = None /\ ran = FALSE /\ result = None /\ first = None /\ runs = <<>>

\* runUserlandPeOnce makes memory, CPU, API model and loader anew.
Restart ==
    /\ ObjectsRestart /\ LoaderRestart
    /\ calls' = 0 /\ exited' = FALSE /\ halted' = FALSE
    /\ phase' = "load" /\ seh' = "no" /\ attached' = None /\ ran' = FALSE /\ result' = None

\* opts.preload: what a preloaded module's image throws is swallowed.
Preload(d) ==
    /\ phase = "load" /\ sample.loads /\ calls < sample.calls
    /\ DoLoad(d)
    /\ calls' = calls + 1
    /\ UNCHANGED <<objectVars, exited, halted, controlVars>>

\* A .NET assembly, an EXE without an entry point, or an image that cannot be mapped.
LoadError ==
    /\ phase = "load" /\ ~sample.loads
    /\ phase' = "report" /\ result' = "load-error"
    /\ UNCHANGED <<worldVars, sample, options, k, backend, seh, attached, ran, first, runs>>

-----------------------------------------------------------------------------
(* Calls into the guest.                                                   *)

\* Whether the CPU, halted by an earlier call, runs this one or comes back at once is its
\* own business.
Calls(p, isCode) ==
    /\ phase' = p
    /\ seh' = "no"
    /\ halted' \in {halted, FALSE}
    /\ ran' = (ran \/ isCode)

StartEntry ==
    /\ phase = "load" /\ sample.loads /\ Current.mode = "entry"
    /\ Calls("body", TRUE)
    /\ UNCHANGED <<objectVars, loaderVars, calls, exited, sample, options, k, backend, attached,
                   result, first, runs>>

\* There is a DllMain, and the caller did not forbid attaching.
HasAttach == sample.entry /\ options.attach

\* callAttach
StartAttach ==
    /\ phase = "load" /\ sample.loads /\ HasAttach
    /\ Current.mode \in {"attach", "export"}
    /\ Calls("attach", Current.mode = "attach")
    /\ UNCHANGED <<objectVars, loaderVars, calls, exited, sample, options, k, backend, attached,
                   result, first, runs>>

\* Nothing to run: a forwarder, or a DLL without DllMain that is only attached.
StartNothing ==
    /\ phase = "load" /\ sample.loads
    /\ \/ Current.mode = "forwarder" /\ result' = "forwarder"
       \/ Current.mode = "attach" /\ ~HasAttach /\ result' = "ok"
    /\ phase' = "report"
    /\ UNCHANGED <<worldVars, sample, options, k, backend, seh, attached, ran, first, runs>>

\* Mutant of AttachFailed: only how DllMain came back counts, not what it did.
AttachFailedBlind == attached \notin {None, "ok", "halted"}

\* "Broken or terminating DllMain: report it instead of running the export."
AttachFailed == attached # None /\ (exited \/ attached \notin {"ok", "halted"})

StartExport ==
    /\ phase \in {"load", "attached"} /\ Current.mode = "export"
    /\ \/ phase = "load" /\ sample.loads /\ ~HasAttach
       \/ phase = "attached" /\ ~AttachFailed
    /\ Calls("body", TRUE)
    /\ UNCHANGED <<objectVars, loaderVars, calls, exited, sample, options, k, backend, attached,
                   result, first, runs>>

\* The detach is made whether there was an attach or not.
Detaches == Current.mode = "export" /\ options.detach /\ sample.entry /\ ~exited /\ ~halted

StartDetach ==
    /\ phase = "ran" /\ Detaches
    /\ Calls("detach", FALSE)
    /\ UNCHANGED <<objectVars, loaderVars, calls, exited, sample, options, k, backend, attached,
                   result, first, runs>>

GuestRuns == phase \in {"attach", "body", "detach"} /\ ~halted
MayCall == GuestRuns /\ calls < sample.calls

GuestCall ==
    /\ MayCall
    /\ calls' = calls + 1
    /\ \/ (FileCalls \/ SocketCalls \/ OtherCalls) /\ UNCHANGED loaderVars
       \/ (\E d \in Dlls : DoLoad(d)) /\ UNCHANGED objectVars
    /\ UNCHANGED <<exited, halted, controlVars>>

\* ExitProcess and the CRT's exits; ExitThread, which does not end the process; __fastfail,
\* which ends it and goes on as the CPU has it.
Exits ==
    /\ GuestRuns
    /\ \/ exited' = TRUE /\ halted' = TRUE
       \/ exited' = exited /\ halted' = TRUE
       \/ ~exited /\ exited' = TRUE /\ halted' = halted
    /\ UNCHANGED <<objectVars, loaderVars, calls, controlVars>>

\* callWithSeh asks the image's handlers about the first fault of a call, and only about that.
Faults ==
    /\ GuestRuns /\ seh = "no"
    /\ seh' = "run"
    /\ UNCHANGED <<worldVars, sample, options, k, backend, phase, attached, ran, result, first, runs>>

\* CONTINUE_EXECUTION: the interrupted code goes on.
Resumes ==
    /\ seh = "run" /\ phase \in {"attach", "body", "detach"}
    /\ seh' = "used"
    /\ UNCHANGED <<worldVars, sample, options, k, backend, phase, attached, ran, result, first, runs>>

\* How a call comes back; while the handlers run, handled or not, or the interpreter failed
\* in a handler, which is the fault it had.
Returns(res) ==
    IF seh = "run" THEN res \in {"ok", "fault"}
    ELSE IF halted THEN res = "halted"
    ELSE res \in (IF seh = "no" THEN Failures \ {"fault"} ELSE Failures) \cup {"ok"}

AttachEnds(res) ==
    /\ phase = "attach" /\ Returns(res)
    /\ attached' = res
    /\ IF Current.mode = "attach" THEN phase' = "report" /\ result' = res
                                  ELSE phase' = "attached" /\ UNCHANGED result
    /\ UNCHANGED <<worldVars, sample, options, k, backend, seh, ran, first, runs>>

AttachReported ==
    /\ phase = "attached" /\ AttachFailed
    /\ phase' = "report" /\ result' = attached
    /\ UNCHANGED <<worldVars, sample, options, k, backend, seh, attached, ran, first, runs>>

BodyEnds(res) ==
    /\ phase = "body" /\ Returns(res)
    /\ result' = res
    /\ phase' = "ran"
    /\ UNCHANGED <<worldVars, sample, options, k, backend, seh, attached, ran, first, runs>>

\* The detach's own outcome is nobody's: the run keeps the export's.
DetachEnds(res) ==
    /\ phase = "detach" /\ Returns(res)
    /\ phase' = "report"
    /\ UNCHANGED <<worldVars, sample, options, k, backend, seh, attached, ran, result, first, runs>>

NoDetach ==
    /\ phase = "ran" /\ ~Detaches
    /\ phase' = "report"
    /\ UNCHANGED <<worldVars, sample, options, k, backend, seh, attached, ran, result, first, runs>>

-----------------------------------------------------------------------------
(* The report.                                                             *)

\* "ExitProcess halts the CPU; surface a clean process exit as ok."
Status == IF result = "halted" /\ exited THEN "ok" ELSE result

\* summarizeRun, with what became of the spec's code.
Summary == [spec |-> Current, status |-> Status, exited |-> exited, calls |-> calls, ran |-> ran,
            backend |-> backend]

\* "single-run modes only — a 64-export sweep must not spin up 64 Unicorn instances"
Attempts == backend = "js" /\ Len(Specs) = 1 /\ options.hybrid /\ Status \in Refusals

Retry ==
    /\ phase = "report" /\ Attempts
    /\ first' = Summary
    /\ backend' = "hybrid"
    /\ Restart
    /\ UNCHANGED <<sample, options, k, runs>>

\* Mutant of Keeps: whatever the second attempt met replaces the first.
KeepsAlways == TRUE

\* The second report is kept if it is well or does not read "unimplemented" too.
Keeps == Status # "unimplemented"

\* There need be no Unicorn here: then the first attempt's report stays.
Delivered ==
    {IF backend = "hybrid" /\ ~Keeps THEN first ELSE Summary}

NextRun ==
    /\ phase = "report"
    /\ \E s \in Delivered : runs' = Append(runs, s)
    /\ k' = k + 1
    /\ UNCHANGED <<sample, options>>
    /\ first' = None /\ backend' = "js"
    /\ IF k < Len(Specs) THEN Restart
       ELSE /\ phase' = "over"
            /\ UNCHANGED <<worldVars, seh, attached, ran, result>>

Over == phase = "over" /\ UNCHANGED vars

CallEnds ==
    \E res \in Failures \cup {"ok", "halted"} : AttachEnds(res) \/ BodyEnds(res) \/ DetachEnds(res)

Starts == StartEntry \/ StartAttach \/ StartNothing \/ StartExport \/ StartDetach

Next ==
    \/ \E d \in Dlls : Preload(d)
    \/ LoadError \/ Starts
    \/ GuestCall \/ Exits \/ Faults \/ Resumes
    \/ CallEnds \/ AttachReported \/ NoDetach
    \/ Retry \/ NextRun \/ Over

Spec == Init /\ [][Next]_vars

-----------------------------------------------------------------------------
(* Properties.                                                             *)

TypeOK ==
    /\ ObjectsTypeOK /\ LoaderTypeOK
    /\ k \in 1..(Len(Specs) + 1)
    /\ phase \in {"load", "attach", "attached", "body", "ran", "detach", "report", "over"}
    /\ seh \in {"no", "run", "used"}
    /\ result \in Failures \cup {None, "ok", "halted", "forwarder", "load-error"}
    /\ (first # None) = (backend = "hybrid")

\* The modules a run sees were loaded in it, apart from each other and bound to each other.
ModulesSound == ModulesApart /\ ImportsBound

\* What the sample writes to files and what it receives is what it later sees of them.
DataIsKept == WritesAreSeen /\ ScriptIsDelivered

\* Every run has one summary, in the specs' order, and the summary is its own run's: reported
\* well only if the code it is about was called, the process exited, or there was none; an
\* instruction the interpreter refused is reported as such, except where the hybrid backend
\* got further, and only a single run is tried on it.
RunsReported ==
    /\ phase = "over" => Len(runs) = Len(Specs)
    /\ \A j \in DOMAIN runs :
          /\ runs[j].spec = Specs[j]
          /\ runs[j].status = "ok" => \/ runs[j].ran \/ runs[j].exited
                                      \/ runs[j].spec.mode = "attach" /\ ~HasAttach
          /\ runs[j].backend = "hybrid" =>
                Len(Specs) = 1 /\ options.hybrid /\ runs[j].status # "unimplemented"

\* "Broken or terminating DllMain: report it instead of running the export": once the
\* sample has ended its process, in DllMain, in an exception filter or in the export, none of
\* its code is called until a new world is made.
NoCodeAfterExit ==
    [][exited /\ phase' # phase => phase' \notin {"attach", "body", "detach"}]_vars

\* The modules and the summaries of all runs, in one.
RunsSound == ModulesSound /\ RunsReported
=============================================================================
