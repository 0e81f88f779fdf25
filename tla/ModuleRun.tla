------------------------------ MODULE ModuleRun ------------------------------
(***************************************************************************)
(* One analysis of a Linux kernel module: analyzeKo and analyzeKoOnce of   *)
(* linux-analyzer/src/index.mjs, with autoDriveFileOps of autoops.mjs and  *)
(* the second attempt on the hybrid backend.  LinuxKernel, the loader and  *)
(* sendFileOp (linux-sim) are external: a call into the module comes back  *)
(* with a status and may have logged, taken an exception or stopped the    *)
(* kernel.                                                                 *)
(***************************************************************************)
EXTENDS FileOpCampaigns, FiniteSets

CONSTANTS Harvests,     \* what getHarvestedOps may find: sequences of
                        \* operations, each standing for its name and its handler
          Patterns,     \* how many input patterns a canned drive sends: 3
          MaxOps,       \* cfg.maxOps
          MaxResults,   \* campaign results taken over per operation: 64
          Options,      \* the callers' options
          MaxLog,       \* bound: records logged outside of campaigns, and exceptions, in an attempt
          Thrown        \* stands for a rejected promise

ASSUME ModuleAssumption ==
    /\ {Patterns, MaxOps, MaxResults} \subseteq Nat \ {0} /\ MaxLog \in Nat
    /\ \A o \in Options : /\ o.auto \in {"off", "canned", "fuzz", "concolic", "both"}
                         /\ o.explicit \in Nat    \* opts.fileOps.length
                         /\ {o.cleanup, o.fallback} \subseteq BOOLEAN

\* The operations.
Ops == UNION {ToSet(h) : h \in Harvests}

ASSUME HarvestAssumption == Harvests \subseteq Seq(Ops) /\ Nothing \notin Campaigns(Ops)

\* What the text of an error says: that the engine could not, or anything else.
Errors == {"unimplemented", "unsupported", "other"}
EngineRefusals == Errors \ {"other"}

\* What a record in a log, or a stop of the kernel, is of.
Steps == {"init", "deferred", "auto", "open", "canned", "release", "explicit", "cleanup"}

ASSUME NothingAssumption == Nothing \notin Errors \cup Stops \cup Statuses \cup Steps \cup {"ran"}

VARIABLES phase,      \* what runs next
          opts,       \* the caller's options
          engine,     \* "js", or "hybrid" in the second attempt
          image,      \* whether the module has init_module and cleanup_module
          report,     \* the report of this attempt
          todo,       \* autoDriveFileOps: operations still to be driven
          pattern,    \* canned: patterns sent to the first of them
          left,       \* explicit operations still to be sent
          firstReport, \* the first attempt's report
          answer,     \* what analyzeKo comes to: a report, Thrown or Nothing
          logged,     \* history: records logged and not rolled back
          killer,     \* history: the phase that stopped the kernel
          sentDead    \* history: operations sent to a stopped kernel

koVars == <<phase, opts, engine, image, report, todo, pattern, left, firstReport, answer>>
history == <<logged, killer, sentDead>>
analysisVars == <<kernel, camp, koVars, history>>

FreshReport ==
    [init |-> Nothing, error |-> Nothing, log |-> <<>>, exc |-> <<>>, bugcheck |-> Nothing,
     harvested |-> <<>>, auto |-> <<>>, ops |-> <<>>, cleanup |-> Nothing, engine |-> "js"]

FreshKernel == [log |-> <<>>, exc |-> <<>>, dead |-> Nothing, cpu |-> "own"]

KoInit ==
    /\ phase = "load"
    /\ opts \in Options
    /\ engine = "js"
    /\ image \in [init : BOOLEAN, cleanup : BOOLEAN]
    /\ kernel = FreshKernel /\ camp = Nothing
    /\ report = FreshReport
    /\ todo = <<>> /\ pattern = 0 /\ left = 0
    /\ firstReport = Nothing /\ answer = Nothing
    /\ logged = <<>> /\ killer = Nothing /\ sentDead = <<>>

-----------------------------------------------------------------------------
(* Calls into the module.                                                  *)

\* What the history keeps of a call that leaves the kernel as k.
Noted(k, ph) ==
    /\ logged' = logged \o SubSeq(k.log, Len(kernel.log) + 1, Len(k.log))
    /\ Len(logged') <= MaxLog /\ Len(report.exc \o k.exc) <= MaxLog
    /\ killer' = IF kernel.dead = Nothing /\ k.dead # Nothing THEN ph ELSE killer
    /\ sentDead' = IF kernel.dead = Nothing THEN sentDead ELSE Append(sentDead, ph)

\* dbgLog and exceptionTrace are moved from the kernel into the report.
Spliced(r, log, exc) == [r EXCEPT !.log = @ \o log, !.exc = @ \o exc]

Bugchecked(r, dead) == [r EXCEPT !.bugcheck = IF dead # Nothing THEN dead ELSE @]

GoesOn(r) == r.init = "ok" /\ r.bugcheck = Nothing

\* Mutant of Drained: the exceptions stay.
DrainedOfLog(k) == [k EXCEPT !.log = <<>>]
\* The kernel as it is once its logs are in the report.
Drained(k) == [k EXCEPT !.log = <<>>, !.exc = <<>>]

-----------------------------------------------------------------------------
(* Load and init_module.                                                   *)

Unloaded == <<kernel, camp, opts, engine, image, todo, pattern, left, firstReport, answer>>

\* parseElfKo or mapModule throws.
LoadFails ==
    /\ phase = "load"
    /\ \E e \in Errors : report' = [report EXCEPT !.init = "fault", !.error = e]
    /\ phase' = "over"
    /\ UNCHANGED Unloaded /\ UNCHANGED history

Load ==
    /\ phase = "load"
    /\ phase' = "init"
    /\ UNCHANGED <<Unloaded, report, history>>

\* No init_module is a fault of its own.
RunInit ==
    /\ phase = "init"
    /\ \E k \in Ran(kernel, "init"), e \in {Nothing} \cup Errors :
         /\ image.init \/ (k = kernel /\ e = "other")
         /\ report' = Bugchecked(Spliced([report EXCEPT !.init = IF e = Nothing THEN "ok" ELSE "fault",
                                                        !.error = e], k.log, k.exc), k.dead)
         /\ kernel' = Drained(k)
         /\ Noted(k, "init")
    /\ phase' = IF GoesOn(report') THEN "deferred" ELSE "harvest"
    /\ UNCHANGED <<camp, opts, engine, image, todo, pattern, left, firstReport, answer>>

\* drainDeferred: of what the work items leave only the log is taken over.
RunDeferred ==
    /\ phase = "deferred"
    /\ \E k \in Ran(kernel, "deferred") :
         /\ report' = Spliced(report, k.log, <<>>)
         /\ kernel' = [k EXCEPT !.log = <<>>]
         /\ Noted(k, "deferred")
    /\ phase' = "harvest"
    /\ UNCHANGED <<camp, opts, engine, image, todo, pattern, left, firstReport, answer>>

\* There is a device, if need be a placeholder.  A harvest that throws finds nothing.
Harvest ==
    /\ phase = "harvest"
    /\ \E h \in Harvests \cup {<<>>} : report' = [report EXCEPT !.harvested = h]
    /\ phase' = IF opts.auto # "off" /\ GoesOn(report) THEN "open" ELSE "explicit"
    /\ left' = opts.explicit
    /\ UNCHANGED <<kernel, camp, opts, engine, image, todo, pattern, firstReport, answer, history>>

-----------------------------------------------------------------------------
(* autoDriveFileOps.                                                       *)

\* What a loop keeps that takes the elements of a list one by one: those at some places.
Kept(s, places) ==
    LET upto[n \in 0..Len(s)] ==
          IF n = 0 THEN <<>>
          ELSE IF n \in places THEN Append(upto[n - 1], s[n]) ELSE upto[n - 1]
    IN  upto[Len(s)]

\* The first maxOps operations, each operation and handler once.
Unique(h) == Kept(h, {i \in DOMAIN h : i <= MaxOps /\ \A j \in 1..(i - 1) : h[j] # h[i]})

Result(op, by, res) == [op |-> op, by |-> by, res |-> res]

\* push: one operation is sent and its result listed.
Push(op, by, res) ==
    /\ kernel' \in Ran(kernel, "auto")
    /\ Noted(kernel', by)
    /\ report' = [report EXCEPT !.auto = Append(@, Result(op, by, res))]
    /\ UNCHANGED <<camp, opts, engine, image, left, firstReport, answer>>

\* Whatever becomes of open, the drive goes on.
SendOpen ==
    /\ phase = "open"
    /\ \E res \in Statuses : Push("open", "open", res)
    /\ todo' = Unique(report.harvested)
    /\ pattern' = 0
    /\ phase' = IF opts.auto = "canned" THEN "canned" ELSE "campaigns"

\* An operation that fails ends the drive, a kernel that is stopped ends it without
\* a release.
AfterCanned(res, dead) ==
    CASE res = "fault" -> "release"
      [] res = "ok" /\ dead # Nothing -> "driven"
      [] res = "ok" /\ dead = Nothing -> "canned"

\* The patterns one after the other.
CannedOp ==
    /\ phase = "canned" /\ todo # <<>>
    /\ \E res \in Statuses :
         /\ Push(Head(todo), "canned", res)
         /\ phase' = AfterCanned(res, kernel'.dead)
    /\ pattern' = IF pattern + 1 = Patterns THEN 0 ELSE pattern + 1
    /\ todo' = IF pattern' = 0 THEN Tail(todo) ELSE todo

\* An operation's campaigns begin; concolic alone starts from the patterns.
BeginOp ==
    /\ phase = "campaigns" /\ todo # <<>> /\ kernel.dead = Nothing
    /\ IF opts.auto = "concolic"
       THEN /\ ConcolicStart(Head(todo), [i \in DOMAIN Seeds |-> Entry(Seeds[i], Nothing, "seed")])
            /\ phase' = "concolic"
       ELSE /\ FuzzStart(Head(todo)) /\ UNCHANGED kernel
            /\ phase' = "fuzz"
    /\ UNCHANGED <<opts, engine, image, report, todo, pattern, left, firstReport, answer, history>>

RunCampaign ==
    /\ phase \in {"fuzz", "concolic"}
    /\ CampaignStep
    /\ UNCHANGED <<koVars, history>>

\* With both, the fuzzer's corpus is what the concolic campaign starts from.
FuzzToConcolic ==
    /\ phase = "fuzz" /\ FuzzOver /\ opts.auto = "both"
    /\ ConcolicStart(camp.op, camp.corpus)
    /\ phase' = "concolic"
    /\ UNCHANGED <<opts, engine, image, report, todo, pattern, left, firstReport, answer, history>>

\* Of entries with the same buffer the first.
Merged(corpus) ==
    Kept(corpus, {i \in DOMAIN corpus : \A j \in 1..(i - 1) : corpus[j].buf # corpus[i].buf})

\* The results taken over: of the first 64 entries those that have one.
TakenOver(corpus) ==
    Kept(corpus, {i \in DOMAIN corpus : i <= MaxResults /\ corpus[i].res # Nothing})

\* The campaign is over: its results are listed, its engine goes.
EndOp ==
    /\ \/ phase = "fuzz" /\ FuzzOver /\ opts.auto = "fuzz"
       \/ phase = "concolic" /\ ConcolicOver
    /\ LET taken == TakenOver(IF opts.auto = "both" THEN Merged(camp.corpus) ELSE camp.corpus)
           results == [i \in DOMAIN taken |-> Result(camp.op, taken[i].by, taken[i].res)]
           summary == IF opts.auto = "fuzz" THEN <<Result(camp.op, "summary", "ok")>> ELSE <<>>
       IN report' = [report EXCEPT !.auto = @ \o results \o summary]
    /\ kernel' = [kernel EXCEPT !.cpu = "own"]
    /\ camp' = Nothing
    /\ todo' = Tail(todo)
    /\ phase' = "campaigns"
    /\ UNCHANGED <<opts, engine, image, pattern, left, firstReport, answer, history>>

\* release comes last, also on a kernel that open has stopped.
AtRelease ==
    \/ phase = "release"
    \/ phase = "canned" /\ todo = <<>>
    \/ phase = "campaigns" /\ (todo = <<>> \/ kernel.dead # Nothing)

Release ==
    /\ AtRelease
    /\ \E res \in Statuses : Push("release", "release", res)
    /\ todo' = <<>> /\ pattern' = 0
    /\ phase' = "driven"

\* Back in analyzeKoOnce.
Driven ==
    /\ phase = "driven"
    /\ report' = Bugchecked(Spliced(report, kernel.log, kernel.exc), kernel.dead)
    /\ kernel' = Drained(kernel)
    /\ todo' = <<>> /\ pattern' = 0
    /\ phase' = "explicit"
    /\ UNCHANGED <<camp, opts, engine, image, left, firstReport, answer, history>>

-----------------------------------------------------------------------------
(* Explicit operations, cleanup_module, the end.                           *)

\* One of opts.fileOps is sent; only a failed operation ends the loop, for bugcheck is not
\* copied here.
AtExplicit == phase = "explicit" /\ left > 0 /\ GoesOn(report)

SendExplicit ==
    /\ AtExplicit
    /\ \E k \in Ran(kernel, "explicit"), res \in Statuses :
         /\ report' = Spliced([report EXCEPT !.ops = Append(@, res)], k.log, k.exc)
         /\ kernel' = Drained(k)
         /\ Noted(k, "explicit")
         /\ left' = IF res = "fault" THEN 0 ELSE left - 1
    /\ UNCHANGED <<phase, camp, opts, engine, image, todo, pattern, firstReport, answer>>

\* cleanup_module: again only the log is taken over.
CleansUp == opts.cleanup /\ GoesOn(report) /\ image.cleanup

RunCleanup ==
    /\ phase = "explicit" /\ (left = 0 \/ ~GoesOn(report)) /\ CleansUp
    /\ \E k \in Ran(kernel, "cleanup"), res \in Statuses :
         /\ report' = Spliced([report EXCEPT !.cleanup = res], k.log, <<>>)
         /\ kernel' = [k EXCEPT !.log = <<>>]
         /\ Noted(k, "cleanup")
    /\ phase' = "over"
    /\ UNCHANGED <<camp, opts, engine, image, todo, pattern, left, firstReport, answer>>

NoCleanup ==
    /\ phase = "explicit" /\ (left = 0 \/ ~GoesOn(report)) /\ ~CleansUp
    /\ phase' = "over"
    /\ UNCHANGED <<Unloaded, report, history>>

-----------------------------------------------------------------------------
(* analyzeKo.                                                              *)

\* The first attempt says that the interpreter refused something.
Refused(r) == r.error \in EngineRefusals \/ r.bugcheck \in EngineRefusals

Retries == engine = "js" /\ opts.fallback /\ Refused(report)

RetryHybrid ==
    /\ phase = "over" /\ Retries
    /\ firstReport' = report
    /\ engine' = "hybrid"
    /\ phase' = "load"
    /\ kernel' = FreshKernel
    /\ report' = [FreshReport EXCEPT !.engine = "hybrid"]
    /\ left' = 0
    /\ logged' = <<>> /\ killer' = Nothing /\ sentDead' = <<>>
    /\ UNCHANGED <<camp, opts, image, todo, pattern, answer>>

KeepsSecond(r) == r.init = "ok" \/ r.error # "unimplemented"

DeliverReport ==
    /\ phase = "over" /\ ~Retries
    /\ answer' = IF engine = "js" \/ KeepsSecond(report) THEN report ELSE firstReport
    /\ phase' = "delivered"
    /\ UNCHANGED <<kernel, camp, opts, engine, image, report, todo, pattern, left, firstReport, history>>

\* sendFileOp throws outside of a campaign: the attempt ends without a report.  The
\* second one falls back on the first, the first one takes analyzeKo with it.
OpThrows ==
    /\ phase \in {"open", "canned"} \/ AtRelease \/ AtExplicit
    /\ answer' = IF engine = "js" THEN Thrown ELSE firstReport
    /\ phase' = "delivered"
    /\ UNCHANGED <<kernel, camp, opts, engine, image, report, todo, pattern, left, firstReport, history>>

KoNext ==
    \/ LoadFails \/ Load \/ RunInit \/ RunDeferred \/ Harvest
    \/ SendOpen \/ CannedOp \/ BeginOp \/ RunCampaign \/ FuzzToConcolic \/ EndOp \/ Release \/ Driven
    \/ SendExplicit \/ RunCleanup \/ NoCleanup
    \/ RetryHybrid \/ DeliverReport \/ OpThrows

KoSpec == KoInit /\ [][KoNext]_analysisVars

-----------------------------------------------------------------------------
(* Properties.                                                             *)

\* The shape of the state.
KoTypeOK ==
    /\ phase \in {"load", "init", "deferred", "harvest", "open", "canned", "campaigns", "fuzz",
                  "concolic", "release", "driven", "explicit", "over", "delivered"}
    /\ kernel.dead \in {Nothing} \cup Stops /\ kernel.cpu \in {"own", "concolic"}
    /\ Len(kernel.log) <= MaxLog /\ Len(report.exc \o kernel.exc) <= MaxLog
    /\ (camp # Nothing) <=> phase \in {"fuzz", "concolic"}
    /\ camp # Nothing => /\ camp \in Campaigns(Ops)
                        /\ (phase = "fuzz" => Len(camp.corpus) <= Cap)
    /\ engine \in {"js", "hybrid"} /\ report.engine = engine
    /\ report.init \in {Nothing, "ok", "fault"} /\ (report.init = "fault" <=> report.error # Nothing)
    /\ pattern \in 0..Patterns - 1 /\ left \in 0..opts.explicit

Phases(s) == {s[i] : i \in DOMAIN s}

\* dbgLog and exceptionTrace are spliced phase by phase: every record that is not a
\* campaign input's comes into the report once and in order, and when the analysis is
\* over the kernel keeps none, but for the exceptions of the work items and of
\* cleanup_module, which no line takes over.
LogsReachReport ==
    /\ report.log \o kernel.log = logged
    /\ phase = "over" => kernel.log = <<>> /\ Phases(kernel.exc) \subseteq {"deferred", "cleanup"}

\* A kernel stopped by init_module or by the automatic drive is reported, and after
\* a reported stop nothing of the module is run; only what stops in the work items,
\* in an explicit operation or in cleanup_module goes unseen.
StopsAreSeen ==
    /\ phase = "over" => \/ report.bugcheck = kernel.dead
                        \/ killer \in {"deferred", "explicit", "cleanup"}
    /\ report.bugcheck # Nothing => report.ops = <<>> /\ report.cleanup = Nothing
    /\ killer = "init" => report.auto = <<>>

\* The places of the results between open's and release's, and those of one operation.
Between(auto) == {i \in DOMAIN auto : auto[i].by \notin {"open", "release"}}
ResultsOf(op, auto) == {i \in Between(auto) : auto[i].op = op}

\* The place of an operation among those driven.
PlaceOf(op) == CHOOSE i \in DOMAIN Unique(report.harvested) : Unique(report.harvested)[i] = op

\* autoops.mjs: "Drives open + per-op fuzz/concolic + release".  open is first, release
\* is last, and the operations come in between in the order of the harvest.  A kernel
\* stopped by the drive is sent two operations more at the most.
DriveInOrder ==
    LET auto == report.auto IN
    /\ \A i \in DOMAIN auto : /\ auto[i].by = "open" <=> i = 1
                             /\ auto[i].by = "release" => i = Len(auto)
    /\ \A i \in Between(auto) : auto[i].op \in ToSet(Unique(report.harvested))
    /\ \A i, j \in Between(auto) : i < j => PlaceOf(auto[i].op) <= PlaceOf(auto[j].op)
    /\ killer \in {"open", "canned", "release"} =>
         sentDead \in {<<>>, <<"canned">>, <<"release">>, <<"canned", "release">>}

\* However many inputs stop the kernel, each operation gets its turn: a drive that
\* reaches its end on a live kernel has results for every operation and handler
\* among the first maxOps; concolic execution alone shows only its witnesses.  After
\* a campaign the kernel has its own engine back.
EveryOpDriven ==
    LET auto == report.auto IN
    /\ phase = "driven" /\ killer = Nothing /\ opts.auto # "concolic" =>
         \A op \in ToSet(Unique(report.harvested)) :
            LET results == Cardinality(ResultsOf(op, auto)) IN
            IF opts.auto = "canned"
            THEN results = Patterns \/ \E i \in Between(auto) : auto[i].res = "fault"
            ELSE results \in 1..(MaxResults + 1)
    /\ \A i \in DOMAIN auto : auto[i].res # Nothing
    /\ kernel.cpu = "concolic" <=> phase = "concolic"

\* A second attempt happens because the first one was refused something, and what is
\* delivered then is no report of a module whose init_module it refused as unimplemented,
\* unless a second attempt was made and its report was not kept.
RetryExplained ==
    LET r == answer IN
    phase = "delivered" /\ r # Thrown =>
      /\ engine = "hybrid" => Refused(firstReport)
      /\ r.engine = "js" => r = (IF engine = "js" THEN report ELSE firstReport)
      /\ r.error = "unimplemented" /\ opts.fallback => engine = "hybrid" /\ r.engine = "js"

\* What is delivered is what happened: every record and every stop of the analysis that is
\* delivered, and a second analysis only after a refusal.
ReportIsTrue == LogsReachReport /\ StopsAreSeen /\ RetryExplained

\* The drive sends each operation its requests, in the module's order.
DriveIsComplete == DriveInOrder /\ EveryOpDriven
=============================================================================
