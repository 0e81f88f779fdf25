--------------------------- MODULE CompilerBridge ---------------------------
(***************************************************************************)
(* The in-browser compile path of packages/compiler-worker:                *)
(*   index.browser.mjs    compileDriverSource and warmupCompiler, with the *)
(*                        fallback to the server bridge;                   *)
(*   browser.client.mjs   BrowserCompiler: lazy spawn, the pending map;    *)
(*   browser.worker.mjs   the worker: one async handler per message, which *)
(*                        interleave at their awaits.                      *)
(* A call stands for its message id (nextId++ is never reused) and for its *)
(* source text.  A clang instance is named by the call that created it; of *)
(* its file system the model keeps /work/driver.c and /work/driver.obj.    *)
(* The Windows and Linux branches of compileToObj take the same steps.     *)
(***************************************************************************)
EXTENDS Naturals, Sequences, FiniteSets

CONSTANTS Compiles,    \* compileDriverSource calls, one source each
          Warmups,     \* warmupCompiler calls
          Bad,         \* the sources clang rejects
          MaxOverlap,  \* compile calls the callers keep open at once
          None

Calls == Compiles \cup Warmups

ASSUME CallsAssumption ==
    /\ Compiles \cap Warmups = {}
    /\ Bad \subseteq Compiles
    /\ None \notin Calls
    /\ MaxOverlap \in Nat \ {0}
    /\ Calls \cap {"error", "ready", "unavailable"} = {}
    /\ None \notin {"error", "ready", "unavailable"}

VARIABLES
    stage,       \* where the caller's promise stands
    outcome,     \* what it was settled with
    wasmBroken,  \* index.browser.mjs: stop trying the worker
    worker,      \* none | loading | running | dead
    failed,      \* BrowserCompiler.failed
    pending,     \* BrowserCompiler.pending, its keys
    inbox,       \* messages to the worker
    replies,     \* messages from the worker
    job,         \* the await each handler of the worker stands at
    clangMod, lldMod,   \* the worker's globals
    inst,        \* the clang instance a job's compileToObj holds
    driverC,     \* /work/driver.c of each instance
    driverObj    \* /work/driver.obj of each instance

client == <<stage, outcome, wasmBroken, worker, failed, pending>>
modules == <<clangMod, lldMod>>
files == <<inst, driverC, driverObj>>
vars == <<client, inbox, replies, job, modules, files>>

Init ==
    /\ stage = [c \in Calls |-> "idle"]
    /\ outcome = [c \in Calls |-> None]
    /\ wasmBroken = FALSE
    /\ worker = "none"
    /\ failed = FALSE
    /\ pending = {}
    /\ inbox = <<>>
    /\ replies = <<>>
    /\ job = [c \in Calls |-> "none"]
    /\ clangMod = None /\ lldMod = None
    /\ inst = [c \in Calls |-> None]
    /\ driverC = [i \in Calls |-> None]
    /\ driverObj = [i \in Calls |-> None]

-----------------------------------------------------------------------------
(* The caller's side: index.browser.mjs and BrowserCompiler._call.         *)

Open == {c \in Compiles : stage[c] \in {"wasm", "server"}}

\* A caller makes at most MaxOverlap compile calls at once.
MayCall(c) == stage[c] = "idle" /\ (c \in Compiles => Cardinality(Open) < MaxOverlap)

\* compileDriverSource falls back to the server; a warm-up resolves to false.
\* Either way the worker is not tried again.
Unavailable(C) ==
    /\ stage' = [c \in Calls |-> IF c \notin C THEN stage[c]
                                 ELSE IF c \in Compiles THEN "server" ELSE "done"]
    /\ outcome' = [c \in Calls |-> IF c \in C \cap Warmups THEN "unavailable"
                                   ELSE outcome[c]]
    /\ wasmBroken' = (wasmBroken \/ C # {})

\* compileDriverSource once wasmBroken is set: straight to the server.
CallServer(c) ==
    /\ c \in Compiles /\ MayCall(c)
    /\ wasmBroken
    /\ stage' = [stage EXCEPT ![c] = "server"]
    /\ UNCHANGED <<outcome, wasmBroken, worker, failed, pending, inbox, replies, job,
                   modules, files>>

\* warmupCompiler does not look at wasmBroken.
TriesWorker(c) == MayCall(c) /\ (c \in Compiles => ~wasmBroken)

\* _ensureWorker throws: the worker failed before.
CallRefused(c) ==
    /\ TriesWorker(c)
    /\ failed
    /\ Unavailable({c})
    /\ UNCHANGED <<worker, failed, pending, inbox, replies, job, modules, files>>

\* new Worker(...) throws.
CallSpawnFails(c) ==
    /\ TriesWorker(c)
    /\ ~failed /\ worker = "none"
    /\ failed' = TRUE
    /\ Unavailable({c})
    /\ UNCHANGED <<worker, pending, inbox, replies, job, modules, files>>

\* The worker exists or is spawned; the promise is registered, then the
\* message is posted.
CallPosts(c) ==
    /\ TriesWorker(c)
    /\ ~failed
    /\ worker' = IF worker = "none" THEN "loading" ELSE worker
    /\ pending' = pending \cup {c}
    /\ inbox' = Append(inbox, c)
    /\ stage' = [stage EXCEPT ![c] = "wasm"]
    /\ UNCHANGED <<outcome, wasmBroken, failed, replies, job, modules, files>>

\* worker.onmessage: an id no longer pending is ignored.  A rejected compile
\* falls back to the server, whatever the reason was.
OnMessage ==
    /\ replies # <<>>
    /\ replies' = Tail(replies)
    /\ LET r == Head(replies) IN
         IF r.id \notin pending
         THEN UNCHANGED <<stage, outcome, wasmBroken, pending>>
         ELSE /\ pending' = pending \ {r.id}
              /\ IF r.ok
                 THEN /\ stage' = [stage EXCEPT ![r.id] = "done"]
                      /\ outcome' = [outcome EXCEPT ![r.id] = r.obj]
                      /\ UNCHANGED wasmBroken
                 ELSE Unavailable({r.id})
    /\ UNCHANGED <<worker, failed, inbox, job, modules, files>>

\* worker.onerror: the module did not load, or an error escaped every
\* handler of a running worker, which goes on.
OnError ==
    /\ worker \in {"loading", "running"} /\ ~failed
    /\ worker' = IF worker = "loading" THEN "dead" ELSE worker
    /\ failed' = TRUE
    /\ Unavailable(pending)
    /\ pending' = {}
    /\ UNCHANGED <<inbox, replies, job, modules, files>>

\* POST /api/compile answers with the object, or with an error.
ServerAnswers(c) ==
    /\ stage[c] = "server"
    /\ stage' = [stage EXCEPT ![c] = "done"]
    /\ \E a \in {c, "error"} :
         /\ c \in Bad => a = "error"
         /\ outcome' = [outcome EXCEPT ![c] = a]
    /\ UNCHANGED <<wasmBroken, worker, failed, pending, inbox, replies, job, modules,
                   files>>

-----------------------------------------------------------------------------
(* The worker: browser.worker.mjs.                                         *)

Reply(c, ok, obj) ==
    /\ replies' = Append(replies, [id |-> c, ok |-> ok, obj |-> obj])
    /\ job' = [job EXCEPT ![c] = "done"]

\* Mutant of Fails: the handler returns without an answer.
FailsSilently(c) == job' = [job EXCEPT ![c] = "done"] /\ UNCHANGED <<replies, modules, files>>

\* A rejected import, instantiation or header fetch reaches the handler's catch.
Fails(c) == Reply(c, FALSE, None) /\ UNCHANGED <<modules, files>>

\* getModules returns: a compile takes the clangMod of this moment, writes its
\* source there and awaits the headers; a warm-up is answered.
ModulesReturned(c) ==
    IF c \in Warmups
    THEN Reply(c, TRUE, "ready") /\ UNCHANGED files
    ELSE /\ inst' = [inst EXCEPT ![c] = clangMod]
         /\ driverC' = [driverC EXCEPT ![clangMod] = c]
         /\ job' = [job EXCEPT ![c] = "headers"]
         /\ UNCHANGED <<driverObj, replies>>

WorkerLoads ==
    /\ worker = "loading"
    /\ worker' = "running"
    /\ UNCHANGED <<stage, outcome, wasmBroken, failed, pending, inbox, replies, job,
                   modules, files>>

\* Mutant of ModulesMissing: only a missing pair is loaded.
PairMissing == clangMod = None /\ lldMod = None
ModulesMissing == clangMod = None \/ lldMod = None

\* self.onmessage up to its first await.
TakeMessage ==
    /\ worker = "running"
    /\ inbox # <<>>
    /\ inbox' = Tail(inbox)
    /\ LET c == Head(inbox) IN
         IF ModulesMissing
         THEN job' = [job EXCEPT ![c] = "imports"] /\ UNCHANGED <<replies, files>>
         ELSE ModulesReturned(c)
    /\ UNCHANGED <<client, modules>>

\* The two dynamic imports are done; Clang() is called.
Imported(c) ==
    /\ job[c] = "imports"
    /\ \/ job' = [job EXCEPT ![c] = "clang"] /\ UNCHANGED <<replies, modules, files>>
       \/ Fails(c)
    /\ UNCHANGED <<client, inbox>>

\* clangMod = await Clang(): a handler that found it missing sets it, also
\* when another one has set it since.
ClangReady(c) ==
    /\ job[c] = "clang"
    /\ \/ /\ clangMod' = c
          /\ job' = [job EXCEPT ![c] = "lld"]
          /\ UNCHANGED <<lldMod, replies, files>>
       \/ Fails(c)
    /\ UNCHANGED <<client, inbox>>

\* lldMod = await LLD().
LldReady(c) ==
    /\ job[c] = "lld"
    /\ \/ lldMod' = c /\ ModulesReturned(c) /\ UNCHANGED clangMod
       \/ Fails(c)
    /\ UNCHANGED <<client, inbox>>

\* Mutant of RunClang: the exit code is not looked at.
RunClangUnchecked(c) ==
    LET i == inst[c]
        obj == IF driverC[i] \in Bad THEN driverObj[i] ELSE driverC[i] IN
    /\ driverObj' = [driverObj EXCEPT ![i] = obj]
    /\ IF obj = None THEN Reply(c, FALSE, None) ELSE Reply(c, TRUE, obj)
    /\ UNCHANGED <<modules, inst, driverC>>

\* Mutant of RunClang: the object is written before the exit code is known.
RunClangPartial(c) ==
    LET i == inst[c] IN
    /\ driverObj' = [driverObj EXCEPT ![i] = driverC[i]]
    /\ Reply(c, driverC[i] \notin Bad, IF driverC[i] \in Bad THEN None ELSE driverC[i])
    /\ UNCHANGED <<modules, inst, driverC>>

\* callMain compiles what /work/driver.c holds now; a non-zero exit code
\* leaves /work/driver.obj alone and is answered with an error.
RunClang(c) ==
    LET i == inst[c] IN
    IF driverC[i] \in Bad
    THEN Fails(c)
    ELSE /\ driverObj' = [driverObj EXCEPT ![i] = driverC[i]]
         /\ Reply(c, TRUE, driverC[i])
         /\ UNCHANGED <<modules, inst, driverC>>

\* The headers have been fetched: callMain and readFile run in one go.
HeadersReady(c) ==
    /\ job[c] = "headers"
    /\ RunClang(c) \/ Fails(c)
    /\ UNCHANGED <<client, inbox>>

-----------------------------------------------------------------------------

JobSteps(c) == Imported(c) \/ ClangReady(c) \/ LldReady(c) \/ HeadersReady(c)

WorkerStarts == WorkerLoads \/ OnError

Next ==
    \/ \E c \in Calls :
         CallServer(c) \/ CallRefused(c) \/ CallSpawnFails(c) \/ CallPosts(c)
    \/ \E c \in Calls : ServerAnswers(c) \/ JobSteps(c)
    \/ OnMessage \/ OnError \/ WorkerLoads \/ TakeMessage

Spec == Init /\ [][Next]_vars

\* The event loops run, the module script loads or fails, every import, fetch
\* and request settles.  Callers and later errors owe nothing.
Fairness ==
    /\ WF_vars(worker = "loading" /\ WorkerStarts)
    /\ WF_vars(TakeMessage)
    /\ WF_vars(OnMessage)
    /\ \A c \in Calls : WF_vars(JobSteps(c)) /\ WF_vars(ServerAnswers(c))

FairSpec == Spec /\ Fairness

-----------------------------------------------------------------------------
(* Properties.                                                             *)

Outcomes == Calls \cup {None, "error", "ready", "unavailable"}
MaybeCall == Calls \cup {None}

\* The shape of the state; no object file is ever made of a rejected source.
TypeOK ==
    /\ stage \in [Calls -> {"idle", "wasm", "server", "done"}]
    /\ outcome \in [Calls -> Outcomes]
    /\ wasmBroken \in BOOLEAN
    /\ worker \in {"none", "loading", "running", "dead"}
    /\ failed \in BOOLEAN
    /\ pending \subseteq Calls
    /\ inbox \in Seq(Calls)
    /\ replies \in Seq([id : Calls, ok : BOOLEAN, obj : Outcomes])
    /\ job \in [Calls -> {"none", "imports", "clang", "lld", "headers", "done"}]
    /\ clangMod \in MaybeCall
    /\ lldMod \in MaybeCall
    /\ inst \in [Calls -> MaybeCall]
    /\ driverC \in [Calls -> Compiles \cup {None}]
    /\ driverObj \in [Calls -> (Compiles \ Bad) \cup {None}]

\* A compile that succeeds returns the object of the source it was given
\* (browser.client.mjs: compileSource(source) -> the x64 COFF object).
OwnObject == \A c \in Compiles : outcome[c] \in Calls => outcome[c] = c

\* Every call that waits for the worker is pending and has exactly one
\* message, running handler or reply that can still settle it: no path of
\* either side drops a call (the pending map against the worker's handlers).
OnItsWay(c) ==
    Cardinality({k \in DOMAIN inbox : inbox[k] = c})
      + Cardinality({k \in DOMAIN replies : replies[k].id = c})
      + (IF job[c] \in {"none", "done"} THEN 0 ELSE 1)

NoCallDropped ==
    /\ \A c \in Calls : stage[c] = "wasm" <=> c \in pending
    /\ \A c \in pending : OnItsWay(c) = 1

\* A handler past getModules holds a finished clang instance and both globals
\* are set, although warm-ups and compiles instantiate them concurrently.
ModulesComplete ==
    \A c \in Calls : job[c] = "headers" =>
        /\ inst[c] # None /\ job[inst[c]] \notin {"none", "imports", "clang"}
        /\ clangMod # None /\ lldMod # None

\* Every call is answered, whether the worker answers, fails, or never loads.
EveryCallAnswered == \A c \in Calls : stage[c] \in {"wasm", "server"} ~> stage[c] = "done"

\* The bridge implements the service its callers see.
Service == INSTANCE CompileService WITH asked <- {c \in Calls : stage[c] # "idle"}
ImplementsService == Service!SSpec
=============================================================================
