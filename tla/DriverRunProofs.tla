--------------------------- MODULE DriverRunProofs ---------------------------
(***************************************************************************)
(* For every set of options and any length of the loops: the stages of an  *)
(* analysis follow each other as the kernel allows, and the report that is *)
(* delivered is complete.  The invariant says, step by step of the harness,*)
(* what is in the kernel's arrays and queue and what the report knows of   *)
(* the kernel.                                                             *)
(***************************************************************************)
EXTENDS DriverRun, SequenceTheorems, FiniteSetTheorems, TLAPS

Lines == Stages \cup {"load"}

Reports == [entry : Statuses \cup Refusals \cup {None}, log : [Logs -> Seq(Lines)],
            bugcheck : BOOLEAN, stall : {None, "entry", "auto", "ioctl", "unload"},
            ioctls : Seq(Statuses), unload : Statuses \cup {None},
            selfmod : {None} \cup SUBSET Stages]

Results == [major : {"CREATE", "READ", "WRITE", "DEVICE_CONTROL", "CLOSE"}, status : Statuses]

Loading == {"map", "triage", "seed", "failed", "entry"}
Opening == {"deferred", "callbacks", "device"}
Driving == {"create", "read", "write", "codes", "close", "collect"}
Asking == {"drain", "ioctl", "settle"}
Closing == {"unload", "diff", "summary"}
Steps == Loading \cup Opening \cup Driving \cup Asking \cup Closing \cup {"done", "delivered"}

\* The shape of the state; the summary's own line is logged last.
Typed ==
    /\ opts \in Options /\ pc \in Steps
    /\ delivered \in {0, 1, 2} /\ left \in Nat /\ dead \in BOOLEAN
    /\ queue \subseteq Stages /\ code \subseteq Lines /\ late \subseteq Stages
    /\ watch = None \/ watch \subseteq {"load"}
    /\ klog \in [Logs -> Seq(Lines \cup {"summary"})]
    /\ pc \notin {"done", "delivered"} => klog \in [Logs -> Seq(Lines)]
    /\ results \in Seq(Results) /\ report \in Reports

\* A report there is has an entry status; what came of the attempts.
Rescued ==
    /\ backend \in {"js", "hybrid"}
    /\ IF backend = "js" THEN first = None ELSE first \in Refusals
    /\ delivered # 0 <=> pc = "delivered"
    /\ pc \in Loading => report = NoReport
    /\ pc \notin Loading \cup {"delivered"} => report.entry # None
    /\ RescueIsDelivered

\* Outside the automatic requests the arrays that every stage hands over are empty.
Logged ==
    /\ pc \in (Opening \cup Asking \cup Closing \cup {"create"}) =>
         /\ klog["dbgLog"] = <<>> /\ klog["exceptionTrace"] = <<>>
         /\ ToSet(klog["irqlViolations"]) \subseteq {"deferred", "callbacks", "unload"}
    /\ pc \in {"done", "delivered"} /\ report.entry # None => LogsComplete

\* The loader is in the code and in its snapshot, or in neither.
Watched ==
    /\ pc \notin {"map", "triage", "seed", "failed", "delivered"} =>
         /\ watch # None <=> opts.watch
         /\ watch # None => ("load" \in code <=> "load" \in watch)
    /\ pc \in {"summary", "done", "delivered"} /\ report.entry # None => CodeWritesReported

\* What the report knows of the kernel's end, and which stage has met it.
Stopped ==
    /\ report.bugcheck \/ late # {} => dead
    /\ pc \in Loading => ~dead
    /\ pc \in {"deferred", "drain"} => report.bugcheck = dead
    /\ pc \in Driving => report.entry = "ok" /\ ~report.bugcheck
    /\ pc = "settle" => ~report.bugcheck
    /\ \E s \in Stages : late \subseteq {s}
    /\ pc \in Loading \cup {"deferred", "callbacks"} => late = {}
    /\ pc \in {"device", "drain", "ioctl", "unload"} /\ late # {} => report.bugcheck
    /\ pc \in Driving => late \subseteq {"auto"}
    /\ pc = "settle" => late \subseteq {"ioctl"}
    /\ "ioctl" \in late => report.unload = None
    /\ pc \notin {"diff", "summary", "done", "delivered"} => report.unload = None

\* Work of a request waits only until its loop looks at the queue.
Queued ==
    pc \in Loading \cup Opening \/ (pc \in {"ioctl", "unload"} /\ ~report.bugcheck) =>
        queue \cap {"auto", "fuzz", "ioctl"} = {}

\* The results begin with the CREATE, and end with a CLOSE on a kernel that lives.
Driven ==
    /\ pc \in Loading \cup Opening \cup {"create"} => results = <<>>
    /\ pc \in {"read", "write", "codes", "close"} => results # <<>> /\ results[1].status = "ok"
    /\ pc = "collect" => results # <<>> /\
         (results[1].status = "ok" /\ ~dead => Last(results).major = "CLOSE")

\* The stall is the first one, but for the automatic requests, where it is looked for last.
StallKept ==
    /\ pc \in Loading \cup Opening \cup Driving \cup {"drain"} => report.ioctls = <<>>
    /\ pc \in Driving => report.stall = None
    /\ pc \notin Driving => StallIsFirst

RunInv == Typed /\ Rescued /\ Logged /\ Watched /\ Stopped /\ Queued /\ Driven /\ StallKept

-----------------------------------------------------------------------------
(* One stage of driver code.                                               *)

\* The stages that may stall.
Stalling == {"entry", "auto", "ioctl", "unload"}

\* Without results, requests and unload, what may have stalled is DriverEntry.
LEMMA EntryStalls ==
    ASSUME OptionsAssumption, results = <<>>, report.ioctls = <<>>, report.unload = None
    PROVE  /\ Stalled("entry") <=> report.entry = "timeout"
           /\ ~Stalled("auto") /\ ~Stalled("ioctl") /\ ~Stalled("unload")
<1>1. ~AnyStalled /\ ~Contains(<<>>, "timeout")
  BY DEF AnyStalled, Contains
<1>2. None # "timeout"
  BY DEF OptionsAssumption, Statuses
<1> QED
  BY <1>1, <1>2 DEF Stalled

\* A stage that no earlier stall follows keeps the stall the first one.
LEMMA StallMoves ==
    ASSUME StallIsFirst, NEW stage \in Stalling, NEW stalled \in BOOLEAN,
           report.stall \in Stalling \cup {None}, None \notin Stalling,
           report'.stall = Stall(stage, stalled),
           \A t \in Stalling \ {stage} : Stalled(t)' <=> Stalled(t),
           Stalled(stage)' <=> Stalled(stage) \/ stalled,
           report.stall = None \/ stage \notin Before(report.stall)
    PROVE  StallIsFirst'
<1>1. \A t \in Stalling : Before(t) \subseteq Stalling \ {t}
  BY DEF Before, Stalling
<1>2. CASE report.stall # None
  BY <1>1, <1>2 DEF StallIsFirst, Stall, Stalling
<1>3. CASE report.stall = None
  BY <1>1, <1>3 DEF StallIsFirst, Stall, Stalling
<1> QED
  BY <1>2, <1>3

\* Without a new result a stage changes nothing about the stalls.
LEMMA StallStays ==
    ASSUME StallIsFirst, report.stall \in Stalling \cup {None}, UNCHANGED results, report'.entry = report.entry, report'.ioctls = report.ioctls,
           report'.unload = report.unload, report'.stall = report.stall
    PROVE  StallIsFirst'
<1>1. \A t \in Stalling : Stalled(t)' <=> Stalled(t)
  BY DEF Stalled, Stalling, AnyStalled
<1>2. \A t \in Stalling : Before(t) \subseteq Stalling
  BY DEF Before, Stalling
<1> QED
  BY <1>1, <1>2 DEF StallIsFirst, Stalling

\* What a stage writes is in the report or, for the IRQL violations of some stages, still
\* with the kernel.
LEMMA LogsMove ==
    ASSUME klog \in [Logs -> Seq(Lines)], NEW stage \in Stages, NEW W \in SUBSET Logs,
           NEW into \in [Logs -> Seq(Lines)]
    PROVE  /\ Written(stage, W) \in [Logs -> Seq(Lines)]
           /\ LeftOver(stage, Written(stage, W)) \in [Logs -> Seq(Lines)]
           /\ Taken(stage, Written(stage, W), into) \in [Logs -> Seq(Lines)]
           /\ LeftOver(stage, Written(stage, W))["dbgLog"] = <<>>
           /\ LeftOver(stage, Written(stage, W))["exceptionTrace"] = <<>>
           /\ ToSet(LeftOver(stage, Written(stage, W))["irqlViolations"]) \subseteq
                IF stage \in {"deferred", "callbacks", "unload"}
                THEN ToSet(klog["irqlViolations"]) \cup {stage} ELSE {}
<1> DEFINE w == Written(stage, W)
<1>1. \A l \in Logs : /\ w[l] \in Seq(Lines)
                      /\ ToSet(w[l]) \subseteq ToSet(klog[l]) \cup {stage}
  <2> TAKE l \in Logs
  <2>1. klog[l] \in Seq(Lines) /\ stage \in Lines
    BY DEF Lines
  <2>2. /\ Append(klog[l], stage) \in Seq(Lines)
        /\ Len(Append(klog[l], stage)) = Len(klog[l]) + 1 /\ Len(klog[l]) \in Nat
        /\ \A k \in 1..Len(klog[l]) : Append(klog[l], stage)[k] = klog[l][k]
        /\ Append(klog[l], stage)[Len(klog[l]) + 1] = stage /\ DOMAIN klog[l] = 1..Len(klog[l])
    BY <2>1, AppendProperties, LenProperties
  <2>3. DOMAIN Append(klog[l], stage) = 1..(Len(klog[l]) + 1)
    BY <2>2, LenProperties
  <2>4. ToSet(Append(klog[l], stage)) \subseteq ToSet(klog[l]) \cup {stage}
    BY <2>2, <2>3 DEF ToSet
  <2> QED BY <2>1, <2>2, <2>4 DEF Written
<1>2. w \in [Logs -> Seq(Lines)]
  BY <1>1 DEF Written
<1> HIDE DEF w
<1>3. LeftOver(stage, w) \in [Logs -> Seq(Lines)]
  BY <1>1 DEF LeftOver
<1>4. \A l \in Logs : into[l] \o w[l] \in Seq(Lines)
  BY <1>1, ConcatProperties
<1>5. Taken(stage, w, into) \in [Logs -> Seq(Lines)]
  BY <1>4 DEF Taken
<1>6. /\ LeftOver(stage, w)["dbgLog"] = <<>> /\ LeftOver(stage, w)["exceptionTrace"] = <<>>
      /\ stage \in {"deferred", "callbacks", "unload"} =>
           LeftOver(stage, w)["irqlViolations"] = w["irqlViolations"]
      /\ stage \notin {"deferred", "callbacks", "unload"} => LeftOver(stage, w)["irqlViolations"] = <<>>
  BY DEF LeftOver, Spliced, Logs
<1>7. ToSet(<<>>) = {}
  BY DEF ToSet
<1> QED
  BY <1>1, <1>2, <1>3, <1>5, <1>6, <1>7 DEF w, Logs

LEMMA CallFacts ==
    ASSUME code \subseteq Lines, dead \in BOOLEAN, NEW stage \in Stages, NEW q, q \subseteq Stages, Called(stage, q)
    PROVE  /\ dead' \in BOOLEAN /\ (dead => dead') /\ queue' \subseteq q \cup {stage}
           /\ code' \subseteq Lines /\ ("load" \in code' <=> "load" \in code)
           /\ late' = IF dead THEN late \cup {stage} ELSE late
<1>1. dead' \in BOOLEAN /\ (dead => dead')
  <2>1. dead' = TRUE \/ dead' = dead
    BY DEF Called
  <2>2. CASE dead' = TRUE
    BY <2>2
  <2>3. CASE dead' = dead
    BY <2>3
  <2> QED BY <2>1, <2>2, <2>3
<1>2. queue' \subseteq q \cup {stage} /\ late' = IF dead THEN late \cup {stage} ELSE late
  BY DEF Called
<1>3. stage # "load" /\ "load" \notin Stages
  BY DEF Stages
<1>4. code' \subseteq Lines /\ ("load" \in code' <=> "load" \in code)
  BY <1>3 DEF Called, Lines
<1> QED
  BY <1>1, <1>2, <1>4

\* What is so after a stage ran on the queue q, with the edited report.
Ran(stage, q, edited) ==
    /\ dead' \in BOOLEAN /\ (dead => dead') /\ queue' \subseteq q \cup {stage}
    /\ code' \subseteq Lines /\ ("load" \in code' <=> "load" \in code)
    /\ late' = IF dead THEN late \cup {stage} ELSE late
    /\ klog' \in [Logs -> Seq(Lines)]
    /\ klog'["dbgLog"] = <<>> /\ klog'["exceptionTrace"] = <<>>
    /\ ToSet(klog'["irqlViolations"]) \subseteq
         IF stage \in {"deferred", "callbacks", "unload"}
         THEN ToSet(klog["irqlViolations"]) \cup {stage} ELSE {}
    /\ report' \in Reports /\ report'.entry = edited.entry /\ report'.stall = edited.stall
    /\ report'.ioctls = edited.ioctls /\ report'.unload = edited.unload
    /\ report'.bugcheck = IF Refreshes THEN dead' ELSE edited.bugcheck

LEMMA RunFacts ==
    ASSUME Typed, pc \notin {"done", "delivered"}, NEW stage \in Stages, NEW q, q \subseteq Stages,
           NEW edited \in Reports, Run(stage, q, edited)
    PROVE  Ran(stage, q, edited)
<1>1. klog \in [Logs -> Seq(Lines)] /\ edited.log \in [Logs -> Seq(Lines)] /\ edited.bugcheck \in BOOLEAN
  BY DEF Typed, Reports
<1>2. PICK W \in SUBSET Logs :
         /\ klog' = LeftOver(stage, Written(stage, W))
         /\ report' = [edited EXCEPT !.log = Taken(stage, Written(stage, W), @),
                                     !.bugcheck = IF Refreshes THEN dead' ELSE @]
  BY DEF Run, Writable
<1>3. Called(stage, q) /\ code \subseteq Lines /\ dead \in BOOLEAN
  BY DEF Run, Typed
<1>4. /\ dead' \in BOOLEAN /\ (dead => dead') /\ queue' \subseteq q \cup {stage}
      /\ code' \subseteq Lines /\ ("load" \in code' <=> "load" \in code)
      /\ late' = IF dead THEN late \cup {stage} ELSE late
  BY <1>3, CallFacts
<1>5. /\ klog' \in [Logs -> Seq(Lines)]
      /\ Taken(stage, Written(stage, W), edited.log) \in [Logs -> Seq(Lines)]
      /\ klog'["dbgLog"] = <<>> /\ klog'["exceptionTrace"] = <<>>
      /\ ToSet(klog'["irqlViolations"]) \subseteq
           IF stage \in {"deferred", "callbacks", "unload"}
           THEN ToSet(klog["irqlViolations"]) \cup {stage} ELSE {}
  BY <1>1, <1>2, LogsMove
<1> DEFINE log == Taken(stage, Written(stage, W), edited.log)
           bugcheck == IF Refreshes THEN dead' ELSE edited.bugcheck
<1>6. report' = [edited EXCEPT !.log = log, !.bugcheck = bugcheck]
  BY <1>2 DEF Reports
<1>7. log \in [Logs -> Seq(Lines)] /\ bugcheck \in BOOLEAN
  BY <1>1, <1>4, <1>5
<1> HIDE DEF log, bugcheck
<1>8. /\ report' \in Reports /\ report'.entry = edited.entry /\ report'.stall = edited.stall
      /\ report'.ioctls = edited.ioctls /\ report'.unload = edited.unload
      /\ report'.bugcheck = bugcheck
  BY <1>6, <1>7 DEF Reports
<1> QED
  BY <1>4, <1>5, <1>8 DEF bugcheck, Ran

\* Draining leaves no work behind but its own, and is told to the report as the step is.
Drained ==
    /\ dead' \in BOOLEAN /\ (dead => dead') /\ queue' \subseteq {"deferred"}
    /\ code' \subseteq Lines /\ ("load" \in code' <=> "load" \in code)
    /\ late' = late \/ (dead /\ late' = late \cup {"deferred"})
    /\ klog' \in [Logs -> Seq(Lines)]
    /\ klog' = klog \/
         /\ klog'["dbgLog"] = <<>> /\ klog'["exceptionTrace"] = <<>>
         /\ ToSet(klog'["irqlViolations"]) \subseteq ToSet(klog["irqlViolations"]) \cup {"deferred"}
    /\ report' \in Reports /\ report'.entry = report.entry /\ report'.stall = report.stall
    /\ report'.ioctls = report.ioctls /\ report'.unload = report.unload
    /\ report'.bugcheck = IF Refreshes /\ queue # {} THEN dead' ELSE report.bugcheck

LEMMA DrainFacts ==
    ASSUME Typed, pc \notin {"done", "delivered"}, Drain
    PROVE  Drained
<1>1. "deferred" \in Stages /\ {} \subseteq Stages /\ report \in Reports
  BY DEF Stages, Typed
<1>2. CASE queue # {}
  <2>1. Run("deferred", {}, report)
    BY <1>2 DEF Drain
  <2>2. Ran("deferred", {}, report)
    BY <1>1, <2>1, RunFacts
  <2> QED BY <1>2, <2>2 DEF Ran, Drained
<1>3. CASE queue = {}
  <2>1. UNCHANGED <<dead, code, queue, late, klog, report>>
    BY <1>3 DEF Drain, Skip
  <2> QED BY <1>1, <1>3, <2>1 DEF Typed, Drained
<1> QED
  BY <1>2, <1>3

-----------------------------------------------------------------------------
(* Loading.                                                                *)

LEMMA LoaderLogs ==
    ASSUME klog \in [Logs -> Seq(Lines)], LoaderLine \/ UNCHANGED klog
    PROVE  klog' \in [Logs -> Seq(Lines)]
<1>1. \A l \in Logs : klog[l] \in Seq(Lines) /\ Append(klog[l], "load") \in Seq(Lines)
  BY AppendProperties DEF Lines
<1> QED
  BY <1>1 DEF LoaderLine, Written

LEMMA InitRun == ASSUME OptionsAssumption, Init PROVE RunInv
<1> USE DEF Init, Steps, Loading, Opening, Driving, Asking, Closing
<1>1. NoReport \in Reports
  <2>1. [l \in Logs |-> <<>>] \in [Logs -> Seq(Lines)] /\ <<>> \in Seq(Statuses)
    OBVIOUS
  <2> QED BY <2>1 DEF NoReport, Reports
<1>2. Typed
  <2>1. [l \in Logs |-> <<>>] \in [Logs -> Seq(Lines)] /\ [l \in Logs |-> <<>>] \in [Logs -> Seq(Lines \cup {"summary"})]
    OBVIOUS
  <2>2. <<>> \in Seq(Results)
    OBVIOUS
  <2> QED BY <1>1, <2>1, <2>2 DEF Typed
<1>3. Rescued /\ Logged /\ Watched /\ Queued /\ Driven
  BY DEF Rescued, RescueIsDelivered, Logged, Watched, Queued, Driven
<1>4. Stopped
  BY DEF Stopped, NoReport, Stages
<1>5. StallKept
  BY OptionsAssumption DEF StallKept, StallIsFirst, Stalled, AnyStalled, NoReport, Contains, Statuses, OptionsAssumption
<1> QED
  BY <1>2, <1>3, <1>4, <1>5 DEF RunInv

\* Before DriverEntry there is no report, and nothing of the run to remember.
LEMMA LoadingKeeps ==
    ASSUME OptionsAssumption, RunInv, MapImage \/ StaticTriage \/ Prepare, UNCHANGED attempt
    PROVE  RunInv'
<1> USE DEF RunInv, Steps, Loading, Opening, Driving, Asking, Closing
<1>1. /\ pc \in {"map", "triage", "seed"} /\ pc' \in {"triage", "failed", "seed", "entry"}
      /\ UNCHANGED <<opts, left, dead, queue, results, report, late, backend, first, delivered>>
  BY DEF MapImage, StaticTriage, Prepare, attempt
<1>2. klog' \in [Logs -> Seq(Lines)]
  <2>1. klog \in [Logs -> Seq(Lines)] /\ (LoaderLine \/ UNCHANGED klog)
    BY <1>1 DEF MapImage, StaticTriage, Prepare, Typed
  <2> QED BY <2>1, LoaderLogs
<1>3. /\ code' \subseteq Lines /\ (watch' = None \/ watch' \subseteq {"load"})
      /\ pc' = "entry" => (watch' # None <=> opts.watch) /\ (watch' # None => ("load" \in code' <=> "load" \in watch'))
  <2>1. CASE Prepare
    <3>1. code' \in SUBSET {"load"} /\ None # code' /\ watch' = IF opts.watch THEN code' ELSE None
      BY <2>1, OptionsAssumption DEF Prepare, Rekeyed, Snapshot, OptionsAssumption
    <3> QED BY <3>1 DEF Lines
  <2>2. CASE MapImage \/ StaticTriage
    BY <2>2 DEF MapImage, StaticTriage, Typed
  <2> QED BY <2>1, <2>2
<1>4. Typed'
  BY <1>1, <1>2, <1>3 DEF Typed
<1>5. Rescued'
  BY <1>1 DEF Rescued, RescueIsDelivered
<1>6. Logged' /\ Queued' /\ Driven' /\ Stopped'
  BY <1>1 DEF Logged, Queued, Driven, Stopped
<1>7. Watched'
  BY <1>1, <1>3 DEF Watched
<1>8. StallKept'
  BY <1>1 DEF StallKept, StallIsFirst, Stalled, AnyStalled
<1> QED
  BY <1>4, <1>5, <1>6, <1>7, <1>8
-----------------------------------------------------------------------------
(* Entry, deferred work and callbacks.                                     *)

\* DriverEntry gives the report its entry status, its bugcheck and the first stall.
LEMMA EntryKeeps ==
    ASSUME OptionsAssumption, RunInv, DriverEntry, UNCHANGED attempt
    PROVE  RunInv'
<1> USE DEF RunInv, Steps, Loading, Opening, Driving, Asking, Closing
<1>1. /\ pc = "entry" /\ pc' = "deferred" /\ report = NoReport /\ ~dead /\ late = {}
      /\ UNCHANGED <<opts, watch, left, results, backend, first, delivered>>
  BY DEF DriverEntry, attempt, Stopped, Rescued
<1>2. PICK s \in Statuses \cup Refusals :
         Run("entry", queue, [report EXCEPT !.entry = s, !.stall = Stall("entry", s = "timeout")])
  BY DEF DriverEntry
<1> DEFINE stall == Stall("entry", s = "timeout")
<1>3. stall \in {None, "entry"} /\ stall = IF s = "timeout" THEN "entry" ELSE None
  BY <1>1 DEF Stall, NoReport
<1>4. "entry" \in Stages /\ queue \subseteq Stages /\ Refreshes /\ Typed /\ pc \notin {"done", "delivered"}
  BY <1>1 DEF Stages, Typed, Refreshes
<1>5. PICK edited : edited = [report EXCEPT !.entry = s, !.stall = stall]
  OBVIOUS
<1>6. Run("entry", queue, edited)
  BY <1>2, <1>5
<1> HIDE DEF stall
<1>7. /\ edited \in Reports /\ edited.entry = s /\ edited.stall = stall
      /\ edited.ioctls = report.ioctls /\ edited.unload = report.unload
  BY <1>3, <1>5 DEF Typed, Reports
<1>8. Ran("entry", queue, edited)
  BY <1>4, <1>6, <1>7, RunFacts
<1>9. /\ dead' \in BOOLEAN /\ queue' \subseteq queue \cup {"entry"}
      /\ code' \subseteq Lines /\ ("load" \in code' <=> "load" \in code) /\ late' = {}
      /\ klog' \in [Logs -> Seq(Lines)]
      /\ klog'["dbgLog"] = <<>> /\ klog'["exceptionTrace"] = <<>> /\ ToSet(klog'["irqlViolations"]) = {}
      /\ report' \in Reports /\ report'.entry = s /\ report'.stall = stall
      /\ report'.ioctls = <<>> /\ report'.unload = None /\ report'.bugcheck = dead'
  BY <1>1, <1>4, <1>7, <1>8 DEF Ran, NoReport
<1>10. Typed' /\ Rescued'
  BY <1>1, <1>4, <1>9, OptionsAssumption DEF Typed, Rescued, RescueIsDelivered, OptionsAssumption
<1>11. Logged' /\ Watched'
  BY <1>1, <1>9 DEF Logged, Watched
<1>12. Stopped' /\ Queued' /\ Driven'
  BY <1>1, <1>9 DEF Stopped, Queued, Driven, Stages
<1>13. StallKept'
  <2>1. results' = <<>>
    BY <1>1 DEF Driven
  <2>2. /\ Stalled("entry")' <=> s = "timeout"
        /\ ~Stalled("auto")' /\ ~Stalled("ioctl")' /\ ~Stalled("unload")'
    BY <1>9, <2>1, OptionsAssumption DEF Stalled, AnyStalled, Contains, OptionsAssumption, Statuses
  <2>3. None # "entry" /\ Before("entry") = {}
    BY OptionsAssumption DEF OptionsAssumption, Stages, Before
  <2>4. StallIsFirst'
    BY <1>3, <1>9, <2>2, <2>3 DEF StallIsFirst
  <2> QED BY <1>1, <1>9, <2>4 DEF StallKept
<1> QED
  BY <1>10, <1>11, <1>12, <1>13

\* Deferred work runs only on a kernel that lives.
LEMMA DeferredKeeps ==
    ASSUME OptionsAssumption, RunInv, DrainDeferred, UNCHANGED attempt
    PROVE  RunInv'
<1> USE DEF RunInv, Steps, Loading, Opening, Driving, Asking, Closing
<1>1. /\ pc = "deferred" /\ pc' = "callbacks" /\ late = {} /\ report.bugcheck = dead /\ ~Refreshes
      /\ UNCHANGED <<opts, watch, left, results, backend, first, delivered>>
  BY DEF DrainDeferred, attempt, Stopped, Refreshes
<1>2. /\ dead' \in BOOLEAN /\ (dead => dead') /\ queue' \subseteq queue \cup {"deferred"}
      /\ code' \subseteq Lines /\ ("load" \in code' <=> "load" \in code) /\ late' = {}
      /\ klog' \in [Logs -> Seq(Lines)]
      /\ klog' = klog \/
           /\ klog'["dbgLog"] = <<>> /\ klog'["exceptionTrace"] = <<>>
           /\ ToSet(klog'["irqlViolations"]) \subseteq ToSet(klog["irqlViolations"]) \cup {"deferred"}
      /\ report' \in Reports /\ report'.entry = report.entry /\ report'.stall = report.stall
      /\ report'.ioctls = report.ioctls /\ report'.unload = report.unload
      /\ report'.bugcheck = report.bugcheck
  <2>1. CASE Drain /\ ~dead
    <3>1. Typed /\ pc \notin {"done", "delivered"}
      BY <1>1
    <3>2. Drained
      BY <2>1, <3>1, DrainFacts
    <3> QED BY <1>1, <2>1, <3>2 DEF Drained
  <2>2. CASE Skip
    BY <1>1, <2>2 DEF Skip, Typed
  <2> QED BY <1>1, <2>1, <2>2 DEF DrainDeferred, Goes
<1>3. Typed'
  BY <1>1, <1>2 DEF Typed, Stages
<1>4. Rescued'
  BY <1>1, <1>2 DEF Rescued, RescueIsDelivered
<1>5. Logged' /\ Watched'
  BY <1>1, <1>2 DEF Logged, Watched
<1>6. Stopped'
  BY <1>1, <1>2 DEF Stopped, Stages
<1>7. Queued' /\ Driven'
  BY <1>1, <1>2 DEF Queued, Driven
<1>8. StallKept'
  <2>1. StallIsFirst /\ report.stall \in Stalling \cup {None}
    BY <1>1 DEF StallKept, Typed, Reports, Stalling
  <2>2. StallIsFirst'
    BY <1>1, <1>2, <2>1, StallStays
  <2> QED BY <1>1, <1>2, <2>2 DEF StallKept
<1> QED
  BY <1>3, <1>4, <1>5, <1>6, <1>7, <1>8

\* The callbacks may be the one stage on a kernel whose end was not yet seen.
LEMMA CallbacksKeep ==
    ASSUME OptionsAssumption, RunInv, FireCallbacks, UNCHANGED attempt
    PROVE  RunInv'
<1> USE DEF RunInv, Steps, Loading, Opening, Driving, Asking, Closing
<1>1. /\ pc = "callbacks" /\ pc' = "device" /\ late = {} /\ Refreshes
      /\ UNCHANGED <<opts, watch, left, results, backend, first, delivered>>
  BY DEF FireCallbacks, attempt, Stopped, Refreshes
<1>2. /\ dead' \in BOOLEAN /\ (dead => dead') /\ queue' \subseteq queue \cup {"callbacks"}
      /\ code' \subseteq Lines /\ ("load" \in code' <=> "load" \in code)
      /\ late' = {} \/ (late' = {"callbacks"} /\ report'.bugcheck)
      /\ klog' \in [Logs -> Seq(Lines)]
      /\ klog' = klog \/
           /\ klog'["dbgLog"] = <<>> /\ klog'["exceptionTrace"] = <<>>
           /\ ToSet(klog'["irqlViolations"]) \subseteq ToSet(klog["irqlViolations"]) \cup {"callbacks"}
      /\ report' \in Reports /\ report'.entry = report.entry /\ report'.stall = report.stall
      /\ report'.ioctls = report.ioctls /\ report'.unload = report.unload
      /\ report'.bugcheck => dead'
  <2>1. CASE Skip
    BY <1>1, <2>1 DEF Skip, Typed, Stopped
  <2>2. CASE ~Skip
    <3>1. PICK thrown \in {<<>>, <<"callbacks">>} :
             Run("callbacks", queue, [report EXCEPT !.log["dbgLog"] = @ \o thrown])
      BY <2>2 DEF FireCallbacks
    <3>2. PICK line : line = report.log["dbgLog"] \o thrown
      OBVIOUS
    <3>3. line \in Seq(Lines)
      <4>1. "callbacks" \in Lines /\ report.log["dbgLog"] \in Seq(Lines)
        BY DEF Typed, Reports, Lines, Stages, Logs
      <4>2. <<>> \in Seq(Lines) /\ <<"callbacks">> \in Seq(Lines)
        BY <4>1
      <4> QED BY <3>2, <4>1, <4>2, ConcatProperties
    <3>4. PICK edited : edited = [report EXCEPT !.log["dbgLog"] = line]
      OBVIOUS
    <3>5. Run("callbacks", queue, edited)
      BY <3>1, <3>2, <3>4 DEF Typed, Reports, Logs
    <3>6. [report.log EXCEPT !["dbgLog"] = line] \in [Logs -> Seq(Lines)]
      BY <3>3 DEF Typed, Reports
    <3>7. /\ edited \in Reports /\ edited.entry = report.entry /\ edited.stall = report.stall
          /\ edited.ioctls = report.ioctls /\ edited.unload = report.unload
      BY <3>4, <3>6 DEF Typed, Reports
    <3>8. "callbacks" \in Stages /\ queue \subseteq Stages /\ Typed /\ pc \notin {"done", "delivered"}
      BY <1>1 DEF Stages, Typed
    <3>9. Ran("callbacks", queue, edited)
      BY <3>5, <3>7, <3>8, RunFacts
    <3> QED BY <1>1, <3>7, <3>9 DEF Ran
  <2> QED BY <2>1, <2>2
<1>3. Typed'
  BY <1>1, <1>2 DEF Typed, Stages
<1>4. Rescued'
  BY <1>1, <1>2 DEF Rescued, RescueIsDelivered
<1>5. Logged' /\ Watched'
  BY <1>1, <1>2 DEF Logged, Watched
<1>6. Stopped'
  BY <1>1, <1>2 DEF Stopped, Stages
<1>7. Queued' /\ Driven'
  BY <1>1, <1>2 DEF Queued, Driven
<1>8. StallKept'
  <2>1. StallIsFirst /\ report.stall \in Stalling \cup {None}
    BY <1>1 DEF StallKept, Typed, Reports, Stalling
  <2>2. StallIsFirst'
    BY <1>1, <1>2, <2>1, StallStays
  <2> QED BY <1>1, <1>2, <2>2 DEF StallKept
<1> QED
  BY <1>3, <1>4, <1>5, <1>6, <1>7, <1>8

\* The requests begin on a kernel that lives and with no stall so far.
LEMMA OpenKeeps ==
    ASSUME OptionsAssumption, RunInv, OpenDevice, UNCHANGED attempt
    PROVE  RunInv'
<1> USE DEF RunInv, Steps, Loading, Opening, Driving, Asking, Closing
<1>1. /\ pc = "device" /\ pc' \in {"unload", "ioctl", "create"}
      /\ pc' # "unload" => report.entry = "ok" /\ ~report.bugcheck
      /\ UNCHANGED <<opts, watch, dead, code, queue, klog, results, report, late, backend, first, delivered>>
  BY DEF OpenDevice, attempt, Goes
<1>2. left' \in Nat
  BY OptionsAssumption DEF OpenDevice, OptionsAssumption, Typed
<1>3. Typed' /\ Rescued' /\ Logged' /\ Watched'
  BY <1>1, <1>2 DEF Typed, Rescued, RescueIsDelivered, Logged, Watched
<1>4. Stopped' /\ Queued' /\ Driven'
  BY <1>1 DEF Stopped, Queued, Driven
<1>5. StallKept'
  <2>1. StallIsFirst /\ report.stall \in Stalling \cup {None} /\ results = <<>> /\ report.ioctls = <<>> /\ report.unload = None
    BY <1>1 DEF StallKept, Typed, Reports, Stalling, Driven, Stopped
  <2>2. StallIsFirst'
    BY <1>1, <2>1, StallStays
  <2>3. report.entry = "ok" => \A t \in Stalling : ~Stalled(t)
    BY <2>1, OptionsAssumption, EntryStalls DEF Stalling
  <2>4. report.entry = "ok" => report.stall = None
    BY <2>1, <2>3 DEF StallIsFirst
  <2> QED BY <1>1, <2>1, <2>2, <2>4 DEF StallKept
<1> QED
  BY <1>3, <1>4, <1>5

-----------------------------------------------------------------------------
(* autoDriveIrps.                                                          *)

\* What is so after a request of autoDriveIrps.
Pushed(major, s) ==
    /\ dead' \in BOOLEAN /\ (dead => dead') /\ queue' \subseteq queue \cup {"auto"}
    /\ code' \subseteq Lines /\ ("load" \in code' <=> "load" \in code)
    /\ late' \subseteq late \cup {"auto"} /\ (late' # {} => late # {} \/ dead)
    /\ klog' \in [Logs -> Seq(Lines)]
    /\ results' \in Seq(Results) /\ results' # <<>> /\ Last(results').major = major
    /\ results'[1].status = IF results = <<>> THEN s ELSE results[1].status
    /\ UNCHANGED <<opts, watch, report>>

LEMMA PushFacts ==
    ASSUME Typed, pc \notin {"done", "delivered"}, NEW s \in Statuses,
           NEW major \in {"CREATE", "READ", "WRITE", "DEVICE_CONTROL", "CLOSE"}, Push(major, s)
    PROVE  Pushed(major, s)
<1>1. /\ klog \in [Logs -> Seq(Lines)] /\ code \subseteq Lines /\ dead \in BOOLEAN
      /\ "auto" \in Stages /\ queue \subseteq Stages /\ Called("auto", queue)
      /\ UNCHANGED <<opts, watch, report>>
  BY DEF Typed, Push, Stages
<1>2. /\ dead' \in BOOLEAN /\ (dead => dead') /\ queue' \subseteq queue \cup {"auto"}
      /\ code' \subseteq Lines /\ ("load" \in code' <=> "load" \in code)
      /\ late' = IF dead THEN late \cup {"auto"} ELSE late
  BY <1>1, CallFacts
<1>3. klog' \in [Logs -> Seq(Lines)]
  <2>1. PICK W \in SUBSET Logs : klog' = Written("auto", W)
    BY DEF Push, Writable
  <2>2. report.log \in [Logs -> Seq(Lines)]
    BY DEF Typed, Reports
  <2> QED BY <1>1, <2>1, <2>2, LogsMove
<1>4. PICK r : r = [major |-> major, status |-> s]
  OBVIOUS
<1>5. r \in Results /\ r.major = major /\ r.status = s
  BY <1>4 DEF Results
<1>6. results \in Seq(Results) /\ results' = Append(results, r)
  BY <1>4 DEF Typed, Push
<1>7. /\ results' \in Seq(Results) /\ Len(results') = Len(results) + 1 /\ Len(results) \in Nat
      /\ results'[Len(results) + 1] = r /\ \A i \in 1..Len(results) : results'[i] = results[i]
  BY <1>5, <1>6, AppendProperties, LenProperties
<1>8. results' # <<>> /\ Last(results') = r
  BY <1>7 DEF Last
<1>9. results'[1].status = IF results = <<>> THEN s ELSE results[1].status
  <2>1. CASE results = <<>>
    BY <1>5, <1>7, <2>1
  <2>2. CASE results # <<>>
    BY <1>6, <1>7, <2>2, EmptySeq
  <2> QED BY <2>1, <2>2
<1> QED
  BY <1>1, <1>2, <1>3, <1>5, <1>7, <1>8, <1>9 DEF Pushed

\* A request of autoDriveIrps keeps the invariant: it is the phase's one late stage, and
\* its results go on from a CREATE that succeeded.
LEMMA PushKeeps ==
    ASSUME OptionsAssumption, RunInv, NEW s \in Statuses,
           NEW major \in {"CREATE", "READ", "WRITE", "DEVICE_CONTROL", "CLOSE"}, Push(major, s),
           pc \in Driving, pc' \in Driving \ {"create"}, left' \in Nat, UNCHANGED attempt,
           pc = "create" /\ s # "ok" => pc' = "collect",
           pc # "create" => results # <<>> /\ results[1].status = "ok",
           pc' = "collect" => major = "CLOSE" \/ dead' \/ (pc = "create" /\ s # "ok")
    PROVE  RunInv'
<1> USE DEF RunInv, Steps, Loading, Opening, Driving, Asking, Closing
<1>1. Pushed(major, s)
  <2>1. Typed /\ pc \notin {"done", "delivered"}
    OBVIOUS
  <2> QED BY <2>1, PushFacts
<1>2. UNCHANGED <<backend, first, delivered>>
  BY DEF attempt
<1>3. Typed'
  <2>1. queue' \subseteq Stages /\ late' \subseteq Stages
    BY <1>1 DEF Typed, Pushed, Stages
  <2>2. klog' \in [Logs -> Seq(Lines)] /\ klog' \in [Logs -> Seq(Lines \cup {"summary"})]
    BY <1>1 DEF Pushed
  <2>3. results' \in Seq(Results) /\ dead' \in BOOLEAN /\ code' \subseteq Lines /\ UNCHANGED <<opts, watch, report>>
    BY <1>1 DEF Pushed
  <2> QED BY <1>2, <2>1, <2>2, <2>3 DEF Typed
<1>4. Rescued' /\ Logged' /\ Watched'
  BY <1>1, <1>2 DEF Rescued, RescueIsDelivered, Logged, Watched, Pushed
<1>5. Stopped' /\ Queued'
  BY <1>1 DEF Stopped, Queued, Pushed, Stages
<1>6. Driven'
  BY <1>1 DEF Driven, Pushed
<1>7. StallKept'
  BY <1>1 DEF StallKept, Pushed
<1> QED
  BY <1>3, <1>4, <1>5, <1>6, <1>7

LEMMA DrivingKeeps ==
    ASSUME OptionsAssumption, RunInv, AutoDrive, UNCHANGED attempt
    PROVE  RunInv'
<1> USE DEF RunInv, Steps, Loading, Opening, Driving, Asking, Closing
<1>1. ASSUME Create PROVE RunInv'
  <2>1. PICK s \in Statuses : Push("CREATE", s) /\ pc' = IF s = "ok" THEN "read" ELSE "collect"
    BY <1>1 DEF Create
  <2>2. pc = "create" /\ left' \in Nat
    BY <1>1 DEF Create, Typed
  <2> QED BY <2>1, <2>2, PushKeeps
<1>2. ASSUME NEW s \in Statuses, NEW major \in {"READ", "WRITE", "DEVICE_CONTROL", "CLOSE"}, Push(major, s),
             pc \in {"read", "write", "codes", "close"}, pc' \in {"write", "codes", "close", "collect"},
             pc' = "collect" => major = "CLOSE" \/ dead', left' \in Nat
      PROVE  RunInv'
  <2>1. results # <<>> /\ results[1].status = "ok"
    BY <1>2 DEF Driven
  <2> QED BY <1>2, <2>1, PushKeeps
<1>3. ASSUME pc \in {"read", "write", "codes"}, pc' \in {"write", "codes", "close"},
             UNCHANGED <<opts, watch, left, dead, code, queue, klog, results, report, late>>
      PROVE  RunInv'
  <2>1. UNCHANGED <<backend, first, delivered>>
    BY DEF attempt
  <2>2. Typed' /\ Rescued' /\ Logged' /\ Watched'
    BY <1>3, <2>1 DEF Typed, Rescued, RescueIsDelivered, Logged, Watched
  <2>3. Stopped' /\ Queued' /\ Driven' /\ StallKept'
    BY <1>3 DEF Stopped, Queued, Driven, StallKept
  <2> QED BY <2>2, <2>3
<1>4. ASSUME ReadWrite PROVE RunInv'
  <2>1. /\ pc \in {"read", "write"} /\ pc' \in {"write", "codes"} /\ left' = left /\ left' \in Nat
    BY <1>4 DEF ReadWrite, Typed
  <2>2. CASE \E s \in Statuses : Push("READ", s) \/ Push("WRITE", s)
    BY <1>2, <2>1, <2>2
  <2>3. CASE UNCHANGED <<opts, watch, dead, code, queue, klog, results, report, late>>
    BY <1>3, <2>1, <2>3
  <2> QED BY <1>4, <2>2, <2>3 DEF ReadWrite
<1>5. ASSUME CannedRequest PROVE RunInv'
  <2>1. PICK s \in Statuses :
          /\ Push("DEVICE_CONTROL", s)
          /\ pc' = IF s # "ok" THEN "close" ELSE IF dead' THEN "collect" ELSE "codes"
    BY <1>5 DEF CannedRequest
  <2>2. pc = "codes" /\ left' \in Nat
    BY <1>5 DEF CannedRequest, MoreCodes, Typed
  <2> QED BY <1>2, <2>1, <2>2
<1>6. ASSUME FuzzedCode PROVE RunInv'
  <2>1. /\ pc = "codes" /\ pc' = "codes" /\ left' \in Nat /\ queue' \subseteq queue \cup {"fuzz"}
        /\ UNCHANGED <<opts, watch, dead, code, klog, report, late, backend, first, delivered>>
    BY <1>6 DEF FuzzedCode, MoreCodes, Typed, attempt
  <2>2. PICK s \in Statuses : results' = Append(results, [major |-> "DEVICE_CONTROL", status |-> s])
    BY <1>6 DEF FuzzedCode
  <2>3. PICK r : r = [major |-> "DEVICE_CONTROL", status |-> s]
    OBVIOUS
  <2>4. r \in Results /\ results \in Seq(Results) /\ results # <<>> /\ results' = Append(results, r)
    BY <2>1, <2>2, <2>3 DEF Results, Typed, Driven
  <2>5. /\ results' \in Seq(Results) /\ Len(results') = Len(results) + 1 /\ Len(results) \in Nat
        /\ \A i \in 1..Len(results) : results'[i] = results[i]
    BY <2>4, AppendProperties, LenProperties
  <2>6. results' # <<>> /\ results'[1] = results[1]
    BY <2>4, <2>5, EmptySeq
  <2>7. Typed' /\ Rescued' /\ Logged' /\ Watched'
    BY <2>1, <2>5 DEF Typed, Rescued, RescueIsDelivered, Logged, Watched, Stages
  <2>8. Stopped' /\ Queued' /\ Driven' /\ StallKept'
    BY <2>1, <2>6 DEF Stopped, Queued, Driven, StallKept
  <2> QED BY <2>7, <2>8
<1>7. ASSUME CodesDone PROVE RunInv'
  BY <1>3, <1>7 DEF CodesDone
<1>8. ASSUME Close PROVE RunInv'
  <2>1. PICK s \in Statuses : Push("CLOSE", s)
    BY <1>8 DEF Close
  <2>2. pc = "close" /\ pc' = "collect" /\ left' \in Nat
    BY <1>8 DEF Close, Typed
  <2> QED BY <1>2, <2>1, <2>2
<1> QED
  BY <1>1, <1>4, <1>5, <1>6, <1>7, <1>8 DEF AutoDrive

\* What autoDriveIrps leaves goes into the report: records, bugcheck and stall.
LEMMA CollectKeeps ==
    ASSUME OptionsAssumption, RunInv, Collect, UNCHANGED attempt
    PROVE  RunInv'
<1> USE DEF RunInv, Steps, Loading, Opening, Driving, Asking, Closing
<1>1. /\ pc = "collect" /\ pc' = "drain" /\ report.entry = "ok" /\ report.stall = None /\ report.ioctls = <<>>
      /\ report.unload = None
      /\ UNCHANGED <<opts, watch, left, dead, code, queue, results, late, backend, first, delivered>>
  BY DEF Collect, attempt, Stopped, StallKept
<1>2. /\ klog \in [Logs -> Seq(Lines)] /\ report \in Reports /\ dead \in BOOLEAN
      /\ report.log \in [Logs -> Seq(Lines)]
  BY <1>1 DEF Typed, Reports
<1>3. /\ klog' \in [Logs -> Seq(Lines)] /\ klog'["dbgLog"] = <<>> /\ klog'["exceptionTrace"] = <<>>
      /\ ToSet(klog'["irqlViolations"]) = {}
  <2>1. klog' = [l \in Logs |-> <<>>]
    BY DEF Collect, LeftOver, Spliced
  <2>2. ToSet(<<>>) = {}
    BY DEF ToSet
  <2> QED BY <2>1, <2>2 DEF Logs
<1>4. PICK log : log = Taken("auto", klog, report.log)
  OBVIOUS
<1>5. log \in [Logs -> Seq(Lines)]
  <2>1. \A l \in Logs : report.log[l] \o klog[l] \in Seq(Lines)
    BY <1>2, ConcatProperties
  <2> QED BY <1>2, <1>4, <2>1 DEF Taken
<1>6. PICK stall : stall = IF AnyStalled THEN "auto" ELSE None
  OBVIOUS
<1>7. report' = [report EXCEPT !.stall = stall, !.log = log, !.bugcheck = dead]
  <2>1. Stall("auto", TRUE) = "auto"
    BY <1>1 DEF Stall
  <2> QED BY <1>1, <1>2, <1>4, <1>6, <2>1 DEF Collect, Reports
<1>8. /\ report' \in Reports /\ report'.entry = "ok" /\ report'.stall = stall /\ report'.ioctls = <<>>
      /\ report'.unload = None /\ report'.bugcheck = dead
  BY <1>1, <1>2, <1>5, <1>6, <1>7 DEF Reports
<1>9. Typed' /\ Rescued' /\ Logged' /\ Watched'
  BY <1>1, <1>3, <1>8, OptionsAssumption DEF Typed, Rescued, RescueIsDelivered, Logged, Watched, OptionsAssumption, Statuses
<1>10. Stopped' /\ Queued' /\ Driven'
  BY <1>1, <1>8 DEF Stopped, Queued, Driven, Stages
<1>11. StallKept'
  <2>1. /\ Stalled("auto")' <=> AnyStalled
        /\ ~Stalled("entry")' /\ ~Stalled("ioctl")' /\ ~Stalled("unload")'
    BY <1>1, <1>8, OptionsAssumption DEF Stalled, AnyStalled, Contains, OptionsAssumption, Statuses
  <2>2. None # "auto" /\ Before("auto") = {"entry"}
    BY OptionsAssumption DEF OptionsAssumption, Stages, Before
  <2>3. StallIsFirst'
    BY <1>6, <1>8, <2>1, <2>2 DEF StallIsFirst
  <2> QED BY <1>1, <1>8, <2>3 DEF StallKept
<1> QED
  BY <1>9, <1>10, <1>11

\* A step that does no more than drain, with what the report then knows of the bugcheck.
LEMMA DrainKeeps ==
    ASSUME OptionsAssumption, RunInv, UNCHANGED <<opts, watch, results, attempt>>, left' \in Nat,
           pc \in {"drain", "settle"}, pc' \in {"ioctl", "unload"},
           \/ Drain /\ ~dead
           \/ dead /\ UNCHANGED <<dead, code, queue, late, klog>>
              /\ report' \in Reports /\ report'.entry = report.entry /\ report'.stall = report.stall
              /\ report'.ioctls = report.ioctls /\ report'.unload = report.unload /\ report'.bugcheck = dead
    PROVE  RunInv'
<1> USE DEF RunInv, Steps, Loading, Opening, Driving, Asking, Closing
<1>1. UNCHANGED <<backend, first, delivered>> /\ (pc = "settle" => ~report.bugcheck /\ Refreshes)
  BY DEF attempt, Stopped, Refreshes
<1>2. /\ dead' \in BOOLEAN /\ (dead => dead') /\ (~report'.bugcheck => queue' \subseteq {"deferred"}) /\ queue' \subseteq Stages
      /\ code' \subseteq Lines /\ ("load" \in code' <=> "load" \in code)
      /\ late' = late /\ (report'.bugcheck => dead') /\ (dead => report'.bugcheck)
      /\ klog' \in [Logs -> Seq(Lines)]
      /\ klog' = klog \/
           /\ klog'["dbgLog"] = <<>> /\ klog'["exceptionTrace"] = <<>>
           /\ ToSet(klog'["irqlViolations"]) \subseteq ToSet(klog["irqlViolations"]) \cup {"deferred"}
      /\ report' \in Reports /\ report'.entry = report.entry /\ report'.stall = report.stall
      /\ report'.ioctls = report.ioctls /\ report'.unload = report.unload
  <2>1. CASE Drain /\ ~dead
    <3>1. Typed /\ pc \notin {"done", "delivered"}
      OBVIOUS
    <3>2. Drained
      BY <2>1, <3>1, DrainFacts
    <3>3. ~report.bugcheck
      BY <2>1 DEF Stopped
    <3> QED BY <2>1, <3>2, <3>3 DEF Drained, Stages
  <2>2. CASE dead
    BY <2>2 DEF Typed
  <2> QED BY <2>1, <2>2
<1>3. Typed' /\ Rescued'
  BY <1>1, <1>2 DEF Typed, Rescued, RescueIsDelivered
<1>4. Logged' /\ Watched'
  BY <1>1, <1>2 DEF Logged, Watched
<1>5. Stopped' /\ Queued' /\ Driven'
  BY <1>1, <1>2 DEF Stopped, Queued, Driven
<1>6. StallKept'
  <2>1. StallIsFirst /\ report.stall \in Stalling \cup {None}
    BY DEF StallKept, Typed, Reports, Stalling
  <2>2. StallIsFirst'
    BY <1>2, <2>1, StallStays
  <2> QED BY <2>2 DEF StallKept
<1> QED
  BY <1>3, <1>4, <1>5, <1>6

LEMMA AutoDrainKeeps ==
    ASSUME OptionsAssumption, RunInv, DrainAuto, UNCHANGED attempt
    PROVE  RunInv'
<1> USE DEF RunInv, Steps, Loading, Opening, Driving, Asking, Closing
<1>1. /\ pc = "drain" /\ pc' = "ioctl" /\ left' \in Nat /\ report.bugcheck = dead
      /\ UNCHANGED <<opts, watch, results, attempt>>
  BY OptionsAssumption DEF DrainAuto, OptionsAssumption, Typed, Stopped
<1>2. \/ Drain /\ ~dead
      \/ dead /\ UNCHANGED <<dead, code, queue, late, klog>>
         /\ report' \in Reports /\ report'.entry = report.entry /\ report'.stall = report.stall
         /\ report'.ioctls = report.ioctls /\ report'.unload = report.unload /\ report'.bugcheck = dead
  BY <1>1 DEF DrainAuto, Skip, Typed
<1> QED
  BY <1>1, <1>2, DrainKeeps

-----------------------------------------------------------------------------
(* Scripted requests.                                                      *)

\* A scripted request goes to a kernel that lived when the report last looked.
LEMMA SendKeeps ==
    ASSUME OptionsAssumption, RunInv, SendIoctl, UNCHANGED attempt
    PROVE  RunInv'
<1> USE DEF RunInv, Steps, Loading, Opening, Driving, Asking, Closing
<1>1. /\ pc = "ioctl" /\ pc' = "settle" /\ left' \in Nat /\ ~report.bugcheck /\ late = {} /\ ~Refreshes
      /\ report.unload = None /\ UNCHANGED <<opts, watch, results, backend, first, delivered>>
  BY DEF SendIoctl, attempt, Stopped, Refreshes, Typed
<1>2. PICK s \in Statuses :
         Run("ioctl", queue, [report EXCEPT !.stall = Stall("ioctl", s = "timeout"), !.ioctls = Append(@, s)])
  BY DEF SendIoctl
<1>3. PICK stalled \in BOOLEAN : stalled <=> s = "timeout"
  OBVIOUS
<1>4. PICK stall : stall = Stall("ioctl", stalled)
  OBVIOUS
<1>5. stall \in {None, "entry", "auto", "ioctl", "unload"}
  BY <1>4 DEF Stall, Typed, Reports
<1>6. PICK sent : sent = Append(report.ioctls, s)
  OBVIOUS
<1>7. report.ioctls \in Seq(Statuses) /\ sent \in Seq(Statuses)
  BY <1>6, AppendProperties DEF Typed, Reports
<1>8. Contains(sent, "timeout") <=> Contains(report.ioctls, "timeout") \/ stalled
  <2>1. /\ Len(sent) = Len(report.ioctls) + 1 /\ Len(report.ioctls) \in Nat
        /\ sent[Len(report.ioctls) + 1] = s
        /\ \A i \in 1..Len(report.ioctls) : sent[i] = report.ioctls[i]
    BY <1>6, <1>7, AppendProperties, LenProperties
  <2>2. \A i : i \in 1..Len(sent) <=> i \in 1..Len(report.ioctls) \/ i = Len(report.ioctls) + 1
    BY <2>1
  <2> QED BY <1>3, <2>1, <2>2 DEF Contains
<1>9. PICK edited : edited = [report EXCEPT !.stall = stall, !.ioctls = sent]
  OBVIOUS
<1>10. Run("ioctl", queue, edited)
  BY <1>2, <1>3, <1>4, <1>6, <1>9 DEF Typed, Reports
<1>11. /\ edited \in Reports /\ edited.entry = report.entry /\ edited.stall = stall
       /\ edited.ioctls = sent /\ edited.unload = None /\ edited.bugcheck = report.bugcheck
  BY <1>1, <1>5, <1>7, <1>9 DEF Typed, Reports
<1>12. "ioctl" \in Stages /\ queue \subseteq Stages /\ Typed /\ pc \notin {"done", "delivered"}
  BY <1>1 DEF Stages, Typed
<1>13. Ran("ioctl", queue, edited)
  BY <1>10, <1>11, <1>12, RunFacts
<1>14. /\ dead' \in BOOLEAN /\ queue' \subseteq queue \cup {"ioctl"}
       /\ code' \subseteq Lines /\ ("load" \in code' <=> "load" \in code)
       /\ late' \subseteq {"ioctl"} /\ (late' # {} => dead')
       /\ klog' \in [Logs -> Seq(Lines)]
       /\ klog'["dbgLog"] = <<>> /\ klog'["exceptionTrace"] = <<>> /\ ToSet(klog'["irqlViolations"]) = {}
       /\ report' \in Reports /\ report'.entry = report.entry /\ report'.stall = stall
       /\ report'.ioctls = sent /\ report'.unload = None /\ report'.bugcheck = FALSE
  BY <1>1, <1>11, <1>13 DEF Ran, Typed, Reports
<1>15. Typed' /\ Rescued'
  BY <1>1, <1>12, <1>14 DEF Typed, Rescued, RescueIsDelivered
<1>16. Logged' /\ Watched'
  BY <1>1, <1>14 DEF Logged, Watched
<1>17. Stopped' /\ Queued' /\ Driven'
  BY <1>1, <1>12, <1>14 DEF Stopped, Queued, Driven
<1>18. StallKept'
  <2>1. /\ Stalled("ioctl") <=> Contains(report.ioctls, "timeout")
        /\ Stalled("ioctl")' <=> Contains(sent, "timeout")
        /\ \A t \in Stalling \ {"ioctl"} : Stalled(t)' <=> Stalled(t)
        /\ ~Stalled("unload")
    BY <1>1, <1>14, OptionsAssumption DEF Stalled, Stalling, AnyStalled, OptionsAssumption, Statuses
  <2>2. StallIsFirst /\ report.stall \in Stalling \cup {None} /\ None \notin Stalling
    BY <1>1, OptionsAssumption DEF StallKept, Typed, Reports, Stalling, OptionsAssumption, Stages
  <2>3. report.stall # "unload"
    BY <2>1, <2>2 DEF StallIsFirst, Stalling
  <2>4. report.stall = None \/ "ioctl" \notin Before(report.stall)
    BY <2>2, <2>3 DEF Before, Stalling
  <2>5. "ioctl" \in Stalling /\ report'.stall = Stall("ioctl", stalled)
    BY <1>4, <1>14 DEF Stalling
  <2>6. Stalled("ioctl")' <=> Stalled("ioctl") \/ stalled
    BY <1>8, <2>1
  <2>7. StallIsFirst'
    BY <2>1, <2>2, <2>4, <2>5, <2>6, StallMoves
  <2> QED BY <1>1, <2>7 DEF StallKept
<1> QED
  BY <1>15, <1>16, <1>17, <1>18

LEMMA SettleKeeps ==
    ASSUME OptionsAssumption, RunInv, SettleIoctl, UNCHANGED attempt
    PROVE  RunInv'
<1> USE DEF RunInv, Steps, Loading, Opening, Driving, Asking, Closing
<1>1. /\ pc = "settle" /\ pc' \in {"ioctl", "unload"} /\ left' \in Nat /\ ~report.bugcheck
      /\ UNCHANGED <<opts, watch, results, attempt>>
  BY DEF SettleIoctl, Typed, Stopped
<1>2. report \in Reports /\ dead \in BOOLEAN
  BY DEF Typed
<1>3. CASE dead \/ queue # {}
  <2>1. dead => report' = [report EXCEPT !.bugcheck = dead] /\ UNCHANGED <<dead, code, queue, late, klog>>
    BY DEF SettleIoctl
  <2>2. \/ Drain /\ ~dead
        \/ dead /\ UNCHANGED <<dead, code, queue, late, klog>>
           /\ report' \in Reports /\ report'.entry = report.entry /\ report'.stall = report.stall
           /\ report'.ioctls = report.ioctls /\ report'.unload = report.unload /\ report'.bugcheck = dead
    BY <1>1, <1>2, <1>3, <2>1 DEF SettleIoctl, Reports
  <2> QED BY <1>1, <2>2, DrainKeeps
<1>4. CASE ~dead /\ queue = {}
  <2>1. report' = [report EXCEPT !.bugcheck = dead] /\ UNCHANGED <<dead, code, queue, late, klog>>
    BY <1>4 DEF SettleIoctl
  <2>2. report' = report
    BY <1>1, <1>2, <1>4, <2>1 DEF Reports
  <2>3. ~dead /\ Drain
    BY <1>4, <2>1, <2>2 DEF Drain, Skip
  <2> QED BY <1>1, <2>3, DrainKeeps
<1> QED
  BY <1>3, <1>4

LEMMA IoctlsDoneKeeps ==
    ASSUME OptionsAssumption, RunInv, IoctlsDone, UNCHANGED attempt
    PROVE  RunInv'
<1> USE DEF RunInv, Steps, Loading, Opening, Driving, Asking, Closing
<1>1. /\ pc = "ioctl" /\ pc' = "unload"
      /\ UNCHANGED <<opts, watch, left, dead, code, queue, klog, results, report, late, backend, first, delivered>>
  BY DEF IoctlsDone, attempt
<1>2. Typed' /\ Rescued' /\ Logged' /\ Watched'
  BY <1>1 DEF Typed, Rescued, RescueIsDelivered, Logged, Watched
<1>3. Stopped' /\ Queued' /\ Driven'
  BY <1>1 DEF Stopped, Queued, Driven
<1>4. StallKept'
  BY <1>1, StallStays DEF StallKept, Typed, Reports, Stalling
<1> QED
  BY <1>2, <1>3, <1>4

-----------------------------------------------------------------------------
(* Unload, summary and the second attempt.                                 *)

\* The unload, when there is one, meets a kernel that lived when the report last looked.
LEMMA UnloadKeeps ==
    ASSUME OptionsAssumption, RunInv, DriverUnload, UNCHANGED attempt
    PROVE  RunInv'
<1> USE DEF RunInv, Steps, Loading, Opening, Driving, Asking, Closing
<1>1. /\ pc = "unload" /\ pc' = "diff" /\ ~Refreshes /\ report.unload = None
      /\ UNCHANGED <<opts, watch, left, results, backend, first, delivered>>
  BY DEF DriverUnload, attempt, Refreshes, Stopped
<1>2. CASE ~MayUnload
  <2>1. UNCHANGED <<dead, code, queue, late, klog, report>>
    BY <1>2 DEF DriverUnload, Skip
  <2>2. Typed' /\ Rescued' /\ Logged' /\ Watched'
    BY <1>1, <2>1 DEF Typed, Rescued, RescueIsDelivered, Logged, Watched
  <2>3. Stopped' /\ Queued' /\ Driven'
    BY <1>1, <2>1 DEF Stopped, Queued, Driven
  <2>4. StallKept'
    BY <1>1, <2>1, StallStays DEF StallKept, Typed, Reports, Stalling
  <2> QED BY <2>2, <2>3, <2>4
<1>3. CASE MayUnload
  <2>1. ~report.bugcheck /\ late = {}
    BY <1>1, <1>3 DEF MayUnload, Goes, Stopped
  <2>2. PICK s \in Statuses :
           Run("unload", queue, [report EXCEPT !.unload = s, !.stall = Stall("unload", s = "timeout")])
    BY <1>3 DEF DriverUnload
  <2>3. PICK stalled \in BOOLEAN : stalled <=> s = "timeout"
    OBVIOUS
  <2>4. PICK stall : stall = Stall("unload", stalled)
    OBVIOUS
  <2>5. stall \in {None, "entry", "auto", "ioctl", "unload"}
    BY <2>4 DEF Stall, Typed, Reports
  <2>6. PICK edited : edited = [report EXCEPT !.unload = s, !.stall = stall]
    OBVIOUS
  <2>7. Run("unload", queue, edited)
    BY <2>2, <2>3, <2>4, <2>6 DEF Typed, Reports
  <2>8. /\ edited \in Reports /\ edited.entry = report.entry /\ edited.stall = stall
        /\ edited.ioctls = report.ioctls /\ edited.unload = s /\ edited.bugcheck = report.bugcheck
    BY <2>5, <2>6 DEF Typed, Reports
  <2>9. "unload" \in Stages /\ queue \subseteq Stages /\ Typed /\ pc \notin {"done", "delivered"}
    BY <1>1 DEF Stages, Typed
  <2>10. Ran("unload", queue, edited)
    BY <2>7, <2>8, <2>9, RunFacts
  <2>11. /\ dead' \in BOOLEAN /\ queue' \subseteq queue \cup {"unload"}
         /\ code' \subseteq Lines /\ ("load" \in code' <=> "load" \in code)
         /\ late' \subseteq {"unload"} /\ (late' # {} => dead')
         /\ klog' \in [Logs -> Seq(Lines)]
         /\ klog'["dbgLog"] = <<>> /\ klog'["exceptionTrace"] = <<>>
         /\ ToSet(klog'["irqlViolations"]) \subseteq ToSet(klog["irqlViolations"]) \cup {"unload"}
         /\ report' \in Reports /\ report'.entry = report.entry /\ report'.stall = stall
         /\ report'.ioctls = report.ioctls /\ report'.unload = s /\ report'.bugcheck = FALSE
    BY <1>1, <2>1, <2>8, <2>10 DEF Ran, Typed, Reports
  <2>12. Typed' /\ Rescued'
    BY <1>1, <2>9, <2>11 DEF Typed, Rescued, RescueIsDelivered
  <2>13. Logged' /\ Watched'
    BY <1>1, <2>11 DEF Logged, Watched
  <2>14. Stopped' /\ Queued' /\ Driven'
    BY <1>1, <2>9, <2>11 DEF Stopped, Queued, Driven
  <2>15. StallIsFirst'
    <3>1. /\ ~Stalled("unload") /\ (Stalled("unload")' <=> stalled)
          /\ \A t \in Stalling \ {"unload"} : Stalled(t)' <=> Stalled(t)
      BY <1>1, <2>3, <2>11, OptionsAssumption DEF Stalled, Stalling, AnyStalled, OptionsAssumption, Statuses
    <3>2. StallIsFirst /\ report.stall \in Stalling \cup {None} /\ None \notin Stalling
      BY <1>1, OptionsAssumption DEF StallKept, Typed, Reports, Stalling, OptionsAssumption, Stages
    <3>3. report.stall = None \/ "unload" \notin Before(report.stall)
      BY <3>2 DEF Before, Stalling
    <3>4. "unload" \in Stalling /\ report'.stall = Stall("unload", stalled)
      BY <2>4, <2>11 DEF Stalling
    <3>5. Stalled("unload")' <=> Stalled("unload") \/ stalled
      BY <3>1
    <3> QED BY <3>1, <3>2, <3>3, <3>4, <3>5, StallMoves
  <2> QED BY <1>1, <2>12, <2>13, <2>14, <2>15 DEF StallKept
<1> QED
  BY <1>2, <1>3

\* Without the loader's own writes, what differs is what the driver wrote.
LEMMA DiffKeeps ==
    ASSUME OptionsAssumption, RunInv, DiffCode, UNCHANGED attempt
    PROVE  RunInv'
<1> USE DEF RunInv, Steps, Loading, Opening, Driving, Asking, Closing
<1>1. /\ pc = "diff" /\ pc' = "summary"
      /\ UNCHANGED <<opts, watch, left, dead, code, queue, klog, results, late, backend, first, delivered>>
  BY DEF DiffCode, attempt
<1>2. PICK selfmod : selfmod = IF watch = None THEN None ELSE Changed
  OBVIOUS
<1>3. selfmod = (IF opts.watch THEN code \cap Stages ELSE None) /\ selfmod \in {None} \cup SUBSET Stages
  <2>1. watch # None <=> opts.watch
    BY <1>1 DEF Watched
  <2>2. CASE watch # None
    <3>1. code \subseteq Lines /\ watch \subseteq {"load"} /\ ("load" \in code <=> "load" \in watch)
      BY <1>1, <2>2 DEF Typed, Watched
    <3>2. "load" \notin Stages
      BY DEF Stages
    <3>3. Changed = code \cap Stages
      BY <3>1, <3>2 DEF Changed, Lines
    <3> QED BY <1>2, <2>1, <2>2, <3>3
  <2> QED BY <1>2, <2>1, <2>2
<1>4. report' = [report EXCEPT !.selfmod = selfmod]
  BY <1>2 DEF DiffCode
<1>5. /\ report' \in Reports /\ report'.entry = report.entry /\ report'.stall = report.stall
      /\ report'.ioctls = report.ioctls /\ report'.unload = report.unload
      /\ report'.bugcheck = report.bugcheck /\ report'.selfmod = selfmod
  BY <1>3, <1>4 DEF Typed, Reports
<1>6. Typed' /\ Rescued' /\ Logged'
  BY <1>1, <1>5 DEF Typed, Rescued, RescueIsDelivered, Logged
<1>7. Watched'
  BY <1>1, <1>3, <1>5 DEF Watched, CodeWritesReported
<1>8. Stopped' /\ Queued' /\ Driven'
  BY <1>1, <1>5 DEF Stopped, Queued, Driven
<1>9. StallKept'
  BY <1>1, <1>5, StallStays DEF StallKept, Typed, Reports, Stalling
<1> QED
  BY <1>6, <1>7, <1>8, <1>9

\* The summary's line is all that is logged after the last stage.
LEMMA SummaryKeeps ==
    ASSUME OptionsAssumption, RunInv, Summary, UNCHANGED attempt
    PROVE  RunInv'
<1> USE DEF RunInv, Steps, Loading, Opening, Driving, Asking, Closing
<1>1. /\ pc = "summary" /\ pc' = "done" /\ report' = [report EXCEPT !.bugcheck = @ \/ dead]
      /\ UNCHANGED <<opts, watch, left, dead, code, queue, results, late, backend, first, delivered>>
  BY DEF Summary, attempt
<1>2. PICK bugcheck \in BOOLEAN : bugcheck <=> report.bugcheck \/ dead
  OBVIOUS
<1>3. /\ report' \in Reports /\ report'.entry = report.entry /\ report'.stall = report.stall
      /\ report'.ioctls = report.ioctls /\ report'.unload = report.unload
      /\ (report'.bugcheck <=> report.bugcheck \/ dead) /\ report'.selfmod = report.selfmod
  <2>1. report' = [report EXCEPT !.bugcheck = bugcheck]
    BY <1>1, <1>2 DEF Typed, Reports
  <2> QED BY <1>2, <2>1 DEF Typed, Reports
<1>4. klog' \in [Logs -> Seq(Lines \cup {"summary"})] /\ LogsComplete'
  <2>1. PICK W \in {{}, {"dbgLog"}} : klog' = Written("summary", W)
    BY DEF Summary, LateLine
  <2>2. /\ klog \in [Logs -> Seq(Lines)] /\ klog["dbgLog"] = <<>> /\ klog["exceptionTrace"] = <<>>
        /\ ToSet(klog["irqlViolations"]) \subseteq {"deferred", "callbacks", "unload"}
    BY <1>1 DEF Typed, Logged
  <2>3. /\ klog'["exceptionTrace"] = <<>> /\ klog'["irqlViolations"] = klog["irqlViolations"]
        /\ klog'["dbgLog"] = <<>> \/ klog'["dbgLog"] = <<"summary">>
        /\ klog' = [l \in Logs |-> klog'[l]]
    <3>1. klog' = [l \in Logs |-> IF l \in W THEN Append(klog[l], "summary") ELSE klog[l]]
      BY <2>1 DEF Written
    <3>2. "dbgLog" \in Logs /\ "exceptionTrace" \in Logs /\ "irqlViolations" \in Logs
      BY DEF Logs
    <3>3. Append(<<>>, "summary") = <<"summary">>
      OBVIOUS
    <3>4. /\ klog'["exceptionTrace"] = <<>> /\ klog'["irqlViolations"] = klog["irqlViolations"]
          /\ klog'["dbgLog"] = IF "dbgLog" \in W THEN Append(<<>>, "summary") ELSE <<>>
      BY <2>1, <2>2, <3>1, <3>2
    <3>5. klog' = [l \in Logs |-> klog'[l]]
      BY <3>1
    <3> QED BY <3>3, <3>4, <3>5
  <2>4. <<"summary">> \in Seq(Lines \cup {"summary"}) /\ <<>> \in Seq(Lines \cup {"summary"})
        /\ klog["irqlViolations"] \in Seq(Lines \cup {"summary"})
    BY <2>2 DEF Logs
  <2>5. ToSet(<<>>) = {} /\ ToSet(<<"summary">>) = {"summary"}
    BY DEF ToSet
  <2>6. \A l \in Logs : klog'[l] \in Seq(Lines \cup {"summary"})
    BY <2>3, <2>4 DEF Logs
  <2> QED BY <2>2, <2>3, <2>5, <2>6 DEF LogsComplete
<1>5. Typed'
  BY <1>1, <1>3, <1>4 DEF Typed
<1>6. Rescued' /\ Logged' /\ Watched'
  BY <1>1, <1>3, <1>4 DEF Rescued, RescueIsDelivered, Logged, Watched, CodeWritesReported
<1>7. Stopped' /\ Queued' /\ Driven'
  BY <1>1, <1>3 DEF Stopped, Queued, Driven
<1>8. StallKept'
  BY <1>1, <1>3, StallStays DEF StallKept, Typed, Reports, Stalling
<1> QED
  BY <1>5, <1>6, <1>7, <1>8

\* The second attempt begins as the first one did, but for what it keeps of it.
LEMMA RetryKeeps ==
    ASSUME OptionsAssumption, RunInv, Retry
    PROVE  RunInv'
<1> USE DEF RunInv, Steps, Loading, Opening, Driving, Asking, Closing
<1>1. /\ pc = "done" /\ pc' = "map" /\ left' = 0 /\ dead' = FALSE /\ code' = {} /\ watch' = None /\ queue' = {}
      /\ klog' = [l \in Logs |-> <<>>] /\ results' = <<>> /\ report' = NoReport /\ late' = {}
      /\ backend' = "hybrid" /\ first' = report.entry /\ report.entry \in Refusals
      /\ UNCHANGED <<opts, delivered>>
  BY DEF Retry, Refused
<1>2. NoReport \in Reports
  <2>1. [l \in Logs |-> <<>>] \in [Logs -> Seq(Lines)] /\ <<>> \in Seq(Statuses)
    OBVIOUS
  <2> QED BY <2>1 DEF NoReport, Reports
<1>3. Typed'
  <2>1. [l \in Logs |-> <<>>] \in [Logs -> Seq(Lines)] /\ [l \in Logs |-> <<>>] \in [Logs -> Seq(Lines \cup {"summary"})]
    OBVIOUS
  <2>2. <<>> \in Seq(Results)
    OBVIOUS
  <2> QED BY <1>1, <1>2, <2>1, <2>2 DEF Typed
<1>4. Rescued' /\ Logged' /\ Watched' /\ Queued' /\ Driven'
  BY <1>1 DEF Rescued, RescueIsDelivered, Logged, Watched, Queued, Driven
<1>5. Stopped'
  BY <1>1 DEF Stopped, NoReport, Stages
<1>6. StallKept'
  <2>1. /\ report'.ioctls = <<>> /\ report'.unload = None /\ report'.entry = None /\ report'.stall = None
    BY <1>1 DEF NoReport
  <2>2. ~Stalled("auto")' /\ ~Stalled("ioctl")' /\ ~Stalled("unload")' /\ ~Stalled("entry")'
    BY <1>1, <2>1, OptionsAssumption DEF Stalled, AnyStalled, Contains, OptionsAssumption, Statuses
  <2> QED BY <1>1, <2>1, <2>2 DEF StallKept, StallIsFirst
<1> QED
  BY <1>3, <1>4, <1>5, <1>6

\* Which of the reports the caller gets.
LEMMA DeliverKeeps ==
    ASSUME OptionsAssumption, RunInv, Deliver
    PROVE  RunInv'
<1> USE DEF RunInv, Steps, Loading, Opening, Driving, Asking, Closing
<1>1. /\ pc \in {"done", "failed"} /\ pc' = "delivered"
      /\ delivered' = IF backend = "hybrid" /\ Keeps THEN 2 ELSE 1
      /\ UNCHANGED <<opts, backend, first, left, dead, code, watch, queue, klog, results, report, late>>
  BY DEF Deliver
<1>2. pc = "failed" => report.entry = None
  BY DEF Rescued, NoReport
<1>3. Typed'
  BY <1>1 DEF Typed
<1>4. RescueIsDelivered'
  <2>1. "ok" \notin Refusals /\ None \notin Refusals /\ None # "ok"
    BY OptionsAssumption DEF Refusals, OptionsAssumption, Statuses
  <2>2. CASE backend = "js"
    <3>1. first = None /\ pc = "done" /\ ~(opts.fallback /\ Refused(report.entry))
      BY <2>2 DEF Rescued, Deliver
    <3> QED BY <1>1, <2>1, <2>2, <3>1 DEF RescueIsDelivered, Refused, Refusals
  <2>3. CASE backend = "hybrid"
    <3>1. first \in Refusals
      BY <2>3 DEF Rescued
    <3>2. delivered' = 2 => report.entry # "unimplemented"
      BY <1>1 DEF Keeps
    <3>3. delivered' # 2 => report.entry \in {None, "unimplemented"}
      BY <1>1, <1>2, <2>3 DEF Keeps
    <3> QED BY <1>1, <2>1, <2>3, <3>1, <3>2, <3>3 DEF RescueIsDelivered, Refusals
  <2> QED BY <2>2, <2>3 DEF Rescued
<1>5. Rescued'
  BY <1>1, <1>4 DEF Rescued
<1>6. Logged' /\ Watched'
  BY <1>1, <1>2 DEF Logged, Watched, LogsComplete, CodeWritesReported
<1>7. Stopped' /\ Queued' /\ Driven'
  BY <1>1 DEF Stopped, Queued, Driven
<1>8. StallKept'
  BY <1>1, StallStays DEF StallKept, Typed, Reports, Stalling
<1> QED
  BY <1>3, <1>5, <1>6, <1>7, <1>8

-----------------------------------------------------------------------------
(* The theorems.                                                           *)

LEMMA NextKeeps ==
    ASSUME OptionsAssumption, RunInv, [Next]_vars
    PROVE  RunInv'
<1>1. CASE Attempt /\ UNCHANGED attempt
  BY <1>1, LoadingKeeps, EntryKeeps, DeferredKeeps, CallbacksKeep, OpenKeeps, DrivingKeeps, CollectKeeps,
     AutoDrainKeeps, SendKeeps, SettleKeeps, IoctlsDoneKeeps, UnloadKeeps, DiffKeeps, SummaryKeeps DEF Attempt
<1>2. CASE Retry
  BY <1>2, RetryKeeps
<1>3. CASE Deliver
  BY <1>3, DeliverKeeps
<1>4. CASE UNCHANGED vars
  <2>1. UNCHANGED <<opts, backend, first, delivered, pc, left, dead, code, watch, queue, klog, results, report, late>>
    BY <1>4 DEF vars, attempt
  <2>2. StallKept'
    BY <2>1, StallStays DEF RunInv, StallKept, Typed, Reports, Stalling
  <2>3. Typed' /\ Logged'
    BY <2>1 DEF RunInv, Typed, Logged, LogsComplete
  <2>4. Rescued' /\ Watched'
    BY <2>1 DEF RunInv, Rescued, RescueIsDelivered, Watched, CodeWritesReported
  <2>5. Stopped' /\ Queued' /\ Driven'
    BY <2>1 DEF RunInv, Stopped, Queued, Driven
  <2> QED BY <2>2, <2>3, <2>4, <2>5 DEF RunInv
<1> QED
  BY <1>1, <1>2, <1>3, <1>4 DEF Next

\* What the harness knows at each of its steps, for all options and all lengths of a run.
THEOREM Invariance == Spec => []RunInv
<1>1. Init => RunInv
  BY OptionsAssumption, InitRun
<1>2. RunInv /\ [Next]_vars => RunInv'
  BY OptionsAssumption, NextKeeps
<1> QED
  BY <1>1, <1>2, PTL DEF Spec

\* The state of an analysis keeps its shape (analyzeDriverOnce, autoDriveIrps).
THEOREM TypeCorrect == Spec => []TypeOK
<1>1. RunInv => TypeOK
  <2> SUFFICES ASSUME RunInv PROVE TypeOK
    OBVIOUS
  <2>1. backend \in {"js", "hybrid"} /\ (backend = "hybrid" <=> first # None) /\ (delivered # 0 <=> pc = "delivered")
    BY OptionsAssumption DEF RunInv, Rescued, OptionsAssumption
  <2>2. /\ report.log \in [Logs -> Seq(Lines)] /\ report.bugcheck \in BOOLEAN
        /\ report.stall \in {None, "entry", "auto", "ioctl", "unload"} /\ report.ioctls \in Seq(Statuses)
        /\ report.entry \in Statuses \cup Refusals \cup {None} /\ report.unload \in Statuses \cup {None}
    BY DEF RunInv, Typed, Reports
  <2>3. pc \in {"map", "triage", "seed", "failed", "entry", "deferred", "callbacks", "device",
               "create", "read", "write", "codes", "close", "collect", "drain", "ioctl", "settle",
               "unload", "diff", "summary", "done", "delivered"}
    BY DEF RunInv, Typed, Steps, Loading, Opening, Driving, Asking, Closing
  <2>4. klog \in [Logs -> Seq(Stages \cup {"load", "summary"})]
    <3>1. Lines \cup {"summary"} = Stages \cup {"load", "summary"}
      BY DEF Lines
    <3> QED BY <3>1 DEF RunInv, Typed
  <2> QED BY <2>1, <2>2, <2>3, <2>4 DEF RunInv, Typed, TypeOK, Lines, Results
<1> QED
  BY <1>1, Invariance, PTL

\* However the run ends, the report that is delivered has the kernel's records, the
\* driver's writes to its own code and the first stall (the splices of analyzeDriverOnce,
\* diffExecSections, captureStall), and it is the attempt's that got further.
THEOREM ReportsAreComplete == Spec => []ReportComplete
<1>1. RunInv => ReportComplete
  BY DEF RunInv, ReportComplete, Rescued, Logged, Watched, StallKept, Driving
<1> QED
  BY <1>1, Invariance, PTL

\* A bugcheck the harness has not looked for yet costs at most one further stage, and a
\* CREATE that succeeded is followed by its CLOSE (autoDriveIrps).
THEOREM EveryStageEndsWell == Spec => []StagesEndWell
<1>1. ASSUME RunInv PROVE StagesEndWell
  <2>1. PICK s \in Stages : late \subseteq {s}
    BY <1>1 DEF RunInv, Stopped
  <2>2. IsFiniteSet({s}) /\ Cardinality({s}) = 1
    BY FS_Singleton
  <2>3. Cardinality(late) <= 1
    BY <2>1, <2>2, FS_Subset
  <2>4. "ioctl" \in late => report.unload = None
    BY <1>1 DEF RunInv, Stopped
  <2>5. pc = "collect" /\ results[1].status = "ok" /\ ~dead => Last(results).major = "CLOSE"
    BY <1>1 DEF RunInv, Driven
  <2> QED BY <2>3, <2>4, <2>5 DEF StagesEndWell
<1> QED
  BY <1>1, Invariance, PTL

\* No driver code runs after a bugcheck the report has, and none on top of the work that an
\* earlier request queued (the guards on report.bugcheck, drainAfterIrp).
THEOREM StagesAreSeparate == Spec => StagesSeparate
<1>1. ASSUME RunInv, Next, backend' = backend PROVE StopsOnReportedBugcheck /\ IrpWorkDrained
  <2> USE <1>1 DEF RunInv, Steps, Loading, Opening, Driving, Asking, Closing
  <2>1. Typed /\ report \in Reports /\ queue \subseteq Stages /\ dead \in BOOLEAN
    BY DEF Typed, Stages
  <2>2. CASE Deliver
    BY <2>2 DEF Deliver, StopsOnReportedBugcheck, IrpWorkDrained
  <2>3. CASE Retry
    BY <2>3 DEF Retry
  <2>4. CASE MapImage \/ StaticTriage \/ Prepare \/ OpenDevice \/ CodesDone \/ IoctlsDone
    BY <2>4 DEF MapImage, StaticTriage, Prepare, OpenDevice, CodesDone, IoctlsDone, StopsOnReportedBugcheck, IrpWorkDrained
  <2>5. CASE DiffCode \/ Summary \/ Collect
    <3>1. report'.ioctls = report.ioctls /\ report'.unload = report.unload /\ UNCHANGED <<queue, late, results>>
      BY <2>1, <2>5 DEF DiffCode, Summary, Collect, Reports
    <3> QED BY <3>1 DEF StopsOnReportedBugcheck, IrpWorkDrained
  <2>6. CASE Create \/ ReadWrite \/ CannedRequest \/ FuzzedCode \/ Close
    <3>1. ~report.bugcheck /\ UNCHANGED report
      BY <2>6 DEF Create, ReadWrite, CannedRequest, FuzzedCode, Close, Push, Stopped
    <3> QED BY <3>1 DEF StopsOnReportedBugcheck, IrpWorkDrained
  <2>7. CASE DriverEntry
    <3>1. pc = "entry" /\ ~report.bugcheck /\ queue \cap {"auto", "fuzz", "ioctl"} = {}
      BY <2>7 DEF DriverEntry, Rescued, NoReport, Queued
    <3> QED BY <3>1 DEF StopsOnReportedBugcheck, IrpWorkDrained
  <2>8. CASE DrainDeferred \/ DrainAuto \/ SettleIoctl
    <3>1. UNCHANGED results
      BY <2>8 DEF DrainDeferred, DrainAuto, SettleIoctl
    <3>2. \/ Drain /\ ~report.bugcheck
          \/ /\ UNCHANGED <<queue, late>>
             /\ report' = report \/ report' = [report EXCEPT !.bugcheck = dead]
      <4>1. DrainDeferred => (Drain /\ ~report.bugcheck) \/ UNCHANGED <<queue, late, report>>
        BY DEF DrainDeferred, Goes, Skip
      <4>2. DrainAuto => (Drain /\ ~report.bugcheck) \/ UNCHANGED <<queue, late, report>>
        BY DEF DrainAuto, Skip, Stopped
      <4>3. SettleIoctl => \/ Drain /\ ~report.bugcheck
                           \/ UNCHANGED <<queue, late>> /\ report' = [report EXCEPT !.bugcheck = dead]
        BY DEF SettleIoctl, Stopped
      <4> QED BY <2>8, <4>1, <4>2, <4>3
    <3>3. CASE Drain /\ ~report.bugcheck
      <4>1. pc \notin {"done", "delivered"}
        BY <2>8 DEF DrainDeferred, DrainAuto, SettleIoctl
      <4>2. Drained
        BY <2>1, <3>3, <4>1, DrainFacts
      <4> QED BY <3>3, <4>2 DEF Drained, StopsOnReportedBugcheck, IrpWorkDrained
    <3>4. CASE UNCHANGED <<queue, late>> /\ (report' = report \/ report' = [report EXCEPT !.bugcheck = dead])
      <4>1. report'.ioctls = report.ioctls /\ report'.unload = report.unload
        BY <2>1, <3>4 DEF Reports
      <4> QED BY <3>1, <3>4, <4>1 DEF StopsOnReportedBugcheck, IrpWorkDrained
    <3> QED BY <3>2, <3>3, <3>4
  <2>9. CASE FireCallbacks
    <3>1. pc = "callbacks" /\ queue \cap {"auto", "fuzz", "ioctl"} = {}
      BY <2>9 DEF FireCallbacks, Queued
    <3>2. Skip \/ ~report.bugcheck
      BY <2>9 DEF FireCallbacks, Goes
    <3> QED BY <2>9, <3>1, <3>2 DEF FireCallbacks, Skip, StopsOnReportedBugcheck, IrpWorkDrained
  <2>10. CASE SendIoctl
    BY <2>10 DEF SendIoctl, Queued, StopsOnReportedBugcheck, IrpWorkDrained
  <2>11. CASE DriverUnload
    <3>1. Skip \/ (pc = "unload" /\ ~report.bugcheck)
      BY <2>11 DEF DriverUnload, MayUnload, Goes
    <3> QED BY <2>11, <3>1 DEF DriverUnload, Skip, Queued, StopsOnReportedBugcheck, IrpWorkDrained
  <2> QED
    BY <1>1, <2>2, <2>3, <2>4, <2>5, <2>6, <2>7, <2>8, <2>9, <2>10, <2>11 DEF Next, Attempt, AutoDrive
<1>2. RunInv /\ [Next]_vars => [backend' = backend => StopsOnReportedBugcheck /\ IrpWorkDrained]_vars
  BY <1>1
<1> QED
  BY <1>2, Invariance, PTL DEF Spec, StagesSeparate
=============================================================================
