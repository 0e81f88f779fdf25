# A TLA+ verification of kernelforge-analyzer

kernelforge-analyzer runs Windows drivers, userland PEs, ELF files, Linux
modules and shellcode in a JavaScript emulator and reports what they did.  This
directory holds TLA+ models of its stateful parts, the TLC configurations that
check them on small instances, and proofs checked by TLAPS.

## 1. Inventory

Paths are below `src/packages/`.

| component | state it keeps | operations | talks to |
|---|---|---|---|
| **Compile bridge** `compiler-worker/src/{index.browser,browser.client,browser.worker}.mjs` | `wasmBroken`; `BrowserCompiler.{worker, failed, pending, nextId}`; in the worker `clangMod`, `lldMod` and the clang file system | `compileDriverSource`, `warmupCompiler`, `onmessage`/`onerror` on both sides | worker messages, HTTP fallback |
| **Guest address space** `pe-runner/src/{memory,memory-api}.mjs` | region table, next free address | `map/find/protect/free/query`, access checks, `VirtualAlloc` family | every Win32 handler, the CPU, SEH |
| **Guest heap** `HeapAllocator` in `memory.mjs` | cursor, block list | `alloc/free/realloc/validate`, `Heap*`, `Local*`, `Global*` | Win32 handlers, thread stacks |
| **Guest threads** `pe-runner/src/threads.mjs` (+ `win32.mjs`, `index.mjs`, `seh-host.mjs`) | thread table, current tid, APC queues, TLS, events, mutexes; `cpu.halted`, `model.exited` | `CreateThread`, exits, waits, `QueueUserAPC` | reenters the CPU from within a handler |
| **PE runner** `pe-runner/src/{index,win32,loader,nt-syscalls}.mjs` | handles, files, registry, sockets, loaded modules, event log | Win32 API, `LoadLibrary`, trace | address space, heap, threads |
| **Driver run** `ntsim-analyzer/src/{index,autoirp}.mjs` | the report; through the kernel: logs, deferred work, bugcheck | DriverEntry, deferred drain, callbacks, automatic and scripted IRPs, unload | `NtKernel` and `sendIrp` of `@kernelforge/ntsim` (not in the repository) |
| **Fuzzer** `ntsim-analyzer/src/{fuzz,snapshot,coverage}.mjs` | corpus, seen blocks, hit counts, snapshot | `fuzzIoctl`, `captureSnapshot`, `restoreSnapshot` | kernel, driver run |
| **Concolic engine** `ntsim-analyzer/src/symbolic/*` | shadow state, path constraints, query budget, swapped CPU | `concolicCampaign`, solver | kernel, fuzzer |
| **Bug engine** `ntsim-analyzer/src/bug/*` | bug database, taint, distances, corpus | instrument, schedule, confirm | fuzzer, concolic engine |
| **ELF runner** `elf-runner/src/*` | descriptor table, sockets, event list, report | Linux syscalls, libc calls, `main`, second attempt | CPU, event list |
| **Linux module analyzer** `linux-analyzer/src/*` | report, file operations found, corpus, stub policy | init, harvest, automatic and explicit operations, campaigns, cleanup, second attempt | Linux kernel model (external), the driver's campaigns |
| **Shellcode runner** `shellcode-runner/src/*` | code buffer and its copy, stop reason, event list | trap hooks, syscalls, diff, second attempt | CPU, the ELF runner's Linux model |
| **Linker** `compiler-worker/src/{linkdriver,coff,elf}.mjs` | none; the kernel's driver and module lists and stubs | sections, symbols, relocations, `loadCompiledDriver` (`ntsim-analyzer/src/compiled.mjs`) | compile bridge, kernel |
| **Triage** `triage/src/*` | none | parsers, hashes, rules | every report |

### Where it is hard

* **Interleaving.**  The compile worker's handler is `async`: two messages
  interleave at every `await`, over shared globals and one shared file.
* **Reentrancy.**  There is one CPU.  `CreateThread` and alertable waits call
  back into the guest from inside a Win32 handler, to any depth; registers, tid
  and the halt flag have to be put back on every way out.
* **Partial failure.**  A handler that throws is answered 0 by
  `model.dispatch`, with whatever it had already changed left in place.
* **Ordering.**  A driver run is a long straight line with many exits.  The
  kernel may stop in any call; its logs and its deferred work are picked up at
  some later line, or not.
* **Retries.**  Four harnesses run a sample again on another processor when the
  first one refused an instruction, and decide which of two reports to deliver.
* **Long-lived engines.**  One instrumented processor serves all inputs of a
  campaign: what it keeps from one input may be taken for the next one's.
* **Boundaries.**  The region table accepts overlapping and unaligned regions
  and is split at arbitrary addresses; the heap is refused, reused and moved.

### What makes each part correct

* Compile bridge: a caller gets the object of its own source; every call is
  answered once; the worker never runs with half a toolchain.
* Address space: a range call touches its range only and does there what it
  says, however regions overlap; a guard page faults once.
* Heap: no aliasing, a coherent block list, no block lost.
* Threads: the innermost call runs as its thread with that thread's registers;
  an exit ends what it says and no more; APCs run once, in order, and a wait
  drains them.
* Driver run: the report is complete, a bugcheck ends the run, CLOSE follows
  CREATE, queued work runs before the next stage.
* Fuzzer: a restored snapshot really is the earlier state; corpus, seen blocks
  and hit counts agree; an input that stops the kernel costs one run.
* Concolic and bug engine: every run is on the engine and with the wrappers it
  needs, the kernel gets its own back, no bug is lost; taint and constraints are
  of the input that runs.
* Linker: every field of a driver that loads leads to the symbol it names, and
  a driver that is refused is in none of the kernel's lists.
* Linux harnesses: an event is its own call's, what is written to a file is read
  from it in order and once, every byte that is not is one of a named kind, and
  the delivered report explains how the run ended.
* PE runner: images share no memory and are bound to each other, a failed load
  leaves its region unused, data written is data seen, every byte a connection
  had is delivered, left or lost to a bad buffer, each run has its own summary,
  and nothing is started once the process has exited.
* Module analyzer: the report has every record and every stop it promises, and
  each harvested operation gets its turn on the kernel's own processor.

`PROJECT.json` lists the hazards line by line, with the properties that cover
them.

## 2. The modules

| module | models | state |
|---|---|---|
| `CompileService` | abstract: what callers of the compile bridge rely on | calls made, their answers |
| `CompilerBridge` | callers, client and worker of the bridge | promises, pending map, two message queues, one program counter per handler, instances and their files |
| `GuestMemory` | `MemoryManager` and the `VirtualAlloc` family | the region table |
| `HeapAllocator` | `class HeapAllocator` and its handlers | cursor, block list, and who holds which pointer |
| `MemoryProofs` | theorems about `HeapAllocator` and `GuestMemory` | |
| `GuestThreads` | threads, exits and APCs | the stack of nested calls, halt flag, APC queues |
| `DriverRun` | `analyzeDriverOnce` with `autoDriveIrps` | the harness's program counter, the kernel's logs, queue and bugcheck, the report |
| `DriverRunProofs` | theorems about `DriverRun` | |
| `Snapshot`, `Corpus` | operators: `captureSnapshot`, `restoreSnapshot`; the coverage tracker, hit counts and eviction | |
| `FuzzCampaign` | `fuzzIoctl` | kernel, tracker, snapshots, corpus, seen blocks, hit counts, best entry, budget |
| `FuzzCampaignProofs` | theorems about `FuzzCampaign` and `ConcolicShadow` | |
| `ConcolicCampaign` | `concolicCampaign`, as a component its caller starts | processor put aside, seed queue, flips and queries left, its own tracker, snapshot and corpus |
| `BugCampaign` | `findBugsCampaign`, composed with `ConcolicCampaign` | as `FuzzCampaign`, and wrappers installed, bugs raised, database |
| `LinuxBugCampaign` | `findLinuxBugsCampaign`, over `BugCampaign` | and the stub policy in force, the one put aside |
| `BugEngineProofs` | theorems about `LinuxBugCampaign`, and so about both campaigns, and about `BugTaint` | |
| `BugTaint` | `BugFindingInterpreter`, its taint map and its sinks | taint of registers, memory and the pending operation, reads, bugs |
| `ConcolicShadow` | `ConcolicJsInterpreter`, `expr.mjs`, `shadow.mjs`, `solver.mjs` | shadow registers, memory and flags, path constraints |
| `ThreadObjects` | the rest of `threads.mjs`, over `GuestThreads` | slots, events, mutexes, names |
| `GuestThreadsProofs` | theorems about `GuestThreads` and `ThreadObjects` | |
| `DriverLink` | `parseCoff`, `linkSections`, `linkDriver`, as operators | |
| `DriverBuild` | `CompilerBridge` and `DriverLink` composed by `loadCompiledDriver` | the kernel's lists and stubs, the loads made |
| `DriverBuildProofs` | theorems about `CompilerBridge` and `DriverBuild` | |
| `LinuxModel` | the syscall model | descriptors, open files, sockets, events |
| `ElfRun` | one ELF analysis, over `LinuxModel` | where the harness is, status, both attempts' reports |
| `ShellcodeRun` | one shellcode analysis, over `ElfRun` | harness, stop reason, buffer, diff |
| `LinuxRunsProofs` | theorems about the three harnesses of `LinuxModel` and about `ModuleRun` | |
| `Win32Objects` | files, finds and sockets of the Win32 model | handles, overlay, scripted answers |
| `ModuleLoader` | `loader.mjs` | modules, next base, bindings |
| `PeRun` | the analysis of an executable or DLL, over both | the specs left, the phase of a run, exit, summaries |
| `PeRunProofs` | theorems about `PeRun`, its objects and its loader | |
| `FileOpCampaigns` | `fuzzFileOp`, `concolicFileOp`, one input a step | kernel, corpus, queue, results |
| `ModuleRun` | `analyzeKo` with `autoDriveFileOps`, over `FileOpCampaigns` | phase, report, both attempts |
| `MC...` | values for TLC; `MCInstrumented` puts the two processors with hooks side by side | |

### CompilerBridge and CompileService

One action per synchronous stretch of code: what a caller does up to posting
(`CallPosts`, or `CallRefused`, `CallSpawnFails`, `CallServer`), what
`onmessage` and `onerror` do on the main thread, and, for each handler of the
worker, the stretch between two `await`s: `TakeMessage`, `Imported`,
`ClangReady`, `LldReady`, `HeadersReady`.  A clang instance is named after the
call that created it, since two calls may both create one; of its file system
the model keeps `/work/driver.c` and `/work/driver.obj`.  A source is named by
its call.  Both targets of `compileToObj` take the same steps.

`CompileService` knows calls and answers only: a compile is answered with the
object of its own source or an error, a warm-up with ready or unavailable, and
each once.  The bridge implements it, with `asked` mapped to the calls that are
past `idle` and `outcome` to itself, as long as callers do not overlap compiles
(run `driver_build`).  When they do, the first may get the object of the
second (`compiler_overlap`).

### DriverLink and DriverBuild

A cell is four bytes of an object file.  The symbol table keeps its slots,
auxiliary ones included, since relocations name slots.  `linkSections` and
`linkDriver` are two layout passes over the same sections (`Starts`, `Retraced`),
and what a driver is in memory is decided by both: `CopiesAreSound` compares what
`linkDriver` writes with where every symbol really went.  `WellFormed` is what the
model expects of an object: the fields of a section lie inside it and apart, as
clang writes them; the parser checks neither.  A section number is read as an
unsigned word, so there are no negative ones.  `loadCompiledDriver` is one action with
the order the code gives it (stubs, link, image, lists), so that a link that
throws leaves its stubs behind; memory is what all the loads wrote, in order.
A driver is `Live` as long as what it wrote is there: a later call, also one that
fails after it has written its data slot, may have written over it.  The lab uses
what its own compile call was answered with; which object a source gives is any of `Shapes`.  Loads start
when the bridge has come to rest, as neither side can see the other's steps.

### GuestMemory

Addresses are counted in units of which `PageSize` make a page, so that a range
can begin and end inside one.  `Cut` is the loop of `protect` and of `free`,
which differ in the pieces they leave of a region that meets the range.
A handler is one action, its access to guest memory included: the zero fill of
`MEM_COMMIT` and the write of the old protection may fault on a guard page and
take the guard with it (`AfterFault`).  What the guest sees at an address
(`View`) is the first region that holds it, as in `find`; properties speak of
views, not of the table.  `last` records the call for the action properties
and is excluded from the fingerprint (`VIEW`), as no action reads it.

### HeapAllocator

The owners are guest code that holds at most one pointer each and frees or
reallocates only what it holds.  `realloc` chooses the new block while the old
one is still taken and frees it afterwards; this is one action, as is the
refused request that has already moved the cursor.

### GuestThreads

What runs is a stack of frames: thread routines, drains of an APC queue, and APC
routines.  The guest may make any call whenever it runs; `ThreadEnds` is
`runThread`'s `finally`, `DrainNext` an iteration of the loop in `drainApcs`.
If an APC has halted the CPU, whether the next call clears the flag is up to
the CPU engine (outside the repository), so both are allowed.

`ThreadObjects` adds the calls on TLS slots, events and mutexes, which any frame
may make; indices are given out by the size of the map, as in the code, and a
name is the one character `CreateEventW` reads of it.  `reissued` is a history
variable: the slots `TlsAlloc` gave out while they were in use.  Only these may
have another value than their thread put there, and there are none unless a slot
was freed under another (`gap`).

### Win32Objects, ModuleLoader and PeRun

A file handle has contents of its own, taken when it is opened and put into the
overlay by every write, of which no more than `MaxContents` bytes are kept.  A
write of a buffer that cannot be read writes what the file has there, or zeros.  A
socket has the chunks that are left of its script.  A chunk is taken off before it
is delivered: into NULL (`RecvNull`) its bytes go nowhere, and a buffer that cannot be
written (`RecvFails`, a bad one of `WSARecv`) loses it whole; `lost` counts these
bytes for each connection.  `ModuleLoader` keeps a module by its base, size and
bound imports, in pages, and the region the sample itself was mapped to (`main`),
which `loadImage` does not look at.
`Chain` is what an export leads to within a number of forwarders.  `Fuel` is one
more than there are exports, so a chain that uses it up has come back to itself,
and the JavaScript engine throws a stack overflow.  A load is one action, also
when it throws in the middle: by then the base has moved and the memory is mapped.

`PeRun` runs the specs `decideRunSpecs` chooses one after the other; every run
starts from a new world (`Restart`).  The sequence of a run is DllMain's
attach, its body (entry point or export, with Win32 calls and loads in any
order), at most one dispatch of a fault to the sample's handlers, detach, and
the summary; the branches on how each came back are the code's.  The retry is
the whole run again with the backend changed.

### LinuxModel, ElfRun, ShellcodeRun

A descriptor has a kind and the bytes a read still takes from it; `dup` copies
the record, as the code does.  A file keeps `MaxFile` bytes; what is past them, what
a write of an unreadable buffer was said to write, and what a read into NULL took
is counted in `missed`.  Events carry the site of the call that is recorded for
them, which the harness finds by looking at the end of the list.  `main` runs
nested in `__libc_start_main`, which calls exit afterwards.  `Hlt` stops either
harness's CPU with no exit and no reason.  A failure of the CPU is named by the
wording of its error, because each harness tests the first report's error for
one pattern and the second's for another (`RetryErrors` and `DiscardErrors`,
`ShellRetryErrors` and `ShellDiscardErrors`): a second report that says "unsupported"
is kept.  `ShellcodeRun` puts
the same model behind the trap hook of the shellcode runner, whose branches
differ in what they count and in what ends the run, and adds the diff between
the buffer and its copy.  The Windows harness is a single call that records or
ends, as its Win32 model is not `PeRun`'s.

### FileOpCampaigns and ModuleRun

`ModuleRun` follows `analyzeKoOnce` stage by stage: load, init, work items,
harvest, automatic drive, explicit operations, cleanup, report.  The kernel is
external, as in `DriverRun`: a call may log, take an exception, stop it or throw.
Within the drive a campaign is followed input by input, but whether an input
covers something new is any answer: coverage itself is `FuzzCampaign`'s and
`BugCampaign`'s matter, and this model's is what becomes of the operations.

### BugTaint and ConcolicShadow

The processor that calls the hooks is not in the repository, so they may be
called in any order; `MaxHooks` and `MaxCalls` bound how often.  In `BugTaint` a
value is its taint only, and bugs are what the sinks raise.  A history variable
says whether the input began with something pending from the one before:
`TaintIsOfTheInput` is about the inputs that did not.

In `ConcolicShadow` an expression denotes its value for every input, which makes
two expressions that mean the same one value and keeps the state finite; only
the sort is kept beside it, because Z3 refuses operands of different sorts.
What a query answers is any model of the constraints it gets.  `trusted` is a
history variable: it is false from the step on at which a hook leaves an
expression with a value that it does not denote.  The hooks that do so are
listed below.

### DriverRun

The harness's control flow is kept statement by statement: which log arrays are
spliced into the report after which stage (`Spliced`), where `report.bugcheck`
is brought up to date (`Refreshes`), and every `break` and `return` of the
request loops.  The kernel is external: each call into the driver may return
any status, stop the kernel, write to any log and queue deferred work
(`Called`, `Written`).  Log records are named by the stage that wrote them.
A code that is driven concolically is one action with any outcome; its loop is
`ConcolicCampaign`.  A refused attempt is made again on the hybrid backend, and
the module follows both and which one is delivered.  `late` is a history variable.  A fuzzed code is one action: its inputs run on a
restored snapshot, so that no log record and no bugcheck is left behind, but
work an input queued is.

### FuzzCampaign, ConcolicCampaign, BugCampaign

All three run an input the same way: capture, record coverage, `sendIrp`,
restore.  The kernel is the record of `Snapshot`: memory, logs (by length),
bugcheck, the deferred queue, which no snapshot has, and the processor engines,
one of which is installed.  `Restore` puts an engine's registers into whichever
engine is installed then.  Driver code is external: block by block (`RunBlock`)
it may execute any block inside or outside the image, change memory and
registers, log, queue work and stop the kernel.  Buffers are model values;
what a mutation can make of one is the constant `Reach`, and random choices are
any choice.  The restore comes before the loops look at `kernel.bugcheck`, as in
the code; the tests of a dead kernel are kept, and that they never fire is
`CampaignSurvives`.

In `FuzzCampaign` parents come from the rarest third of the corpus by hit count
(`Pool`), and an eviction goes by the counts from before the new entry
(`Evict`).  `ran` and `covered` are history variables.  The branch for a corpus
that is empty after the seeds (fuzz.mjs 329-335) is left out: the first seed is
always kept.  `fuzzFileOp` of `linux-analyzer/src/fuzz-ops.mjs` is the same loop
(`FileOpCampaigns`).

`ConcolicCampaign` has no specification of its own.  `BugCampaign` shares the
kernel and the allocator wrapper with it, starts it (`CallConcolic`), lets it
take its steps (`ConcolicNext`) and takes its corpus (`TakeAnswer`).  A solver
query may have no answer or any input as its answer.  Distances to sinks are
left out: any entry may be a parent, and any child without a bug may be close
enough for a concolic campaign.  `reported` is a history variable.
`LinuxBugCampaign` is that loop around `sendFileOp`: one specification,
`LinuxSpec`, for both systems, with `system` chosen at the start.  What is the Linux
engine's own is the stub policy taken from the input and put back after it, and
the bug a fault is.

## 3. What is checked

| run | question | result |
|---|---|---|
| `driver_build` | does the bridge answer every call, once, with its own object, when compiles do not overlap, and are the drivers linked from the answers in memory as their sources say? | holds: `CallsKept`, `EveryCallAnswered`, `ImplementsService` (refinement of `CompileService`), `DriversAreLinked` |
| `compiler_overlap` | and when compiles overlap? | no: `OwnObject` fails |
| `guest_memory` | do range calls stay in range and do what they say? | holds: `RangeCallsHold`, `GuardFaultsOnce` |
| `heap` | does the heap hand out memory safely? | holds: `NoAliasing`, `BlocksCoherent`, `HeldIsTaken`, `OnlyLocalFreeLeaks` |
| `threads` | are nesting, exits and APCs right, and do slots and events keep their state? | holds: `CallsNest`, `ObjectsKeepState`, `WaitDrains` |
| `driver_run` | is the report complete, the better of two, and the run stopped in time? | holds: `ReportComplete`, `StagesEndWell`, `StagesSeparate` |
| `fuzz_campaign` | do inputs run on a clean kernel, and do corpus, coverage and counts agree? | holds: `CleanRuns`, `CorpusTellsAll`, `CampaignSurvives` |
| `bug_campaign` | do the nested campaigns of both systems keep engines, wrappers, stub policy and bugs straight? | holds: `RunsAreIsolated`, `BugsAreKept` |
| `instrumented` | do taint and constraints belong to the input that runs? | holds: `TaintIsSound`, `ConstraintsHold` |
| `linux_runs` | do events, stops, diffs and the delivered report say what the guest did? | holds: `ReportsExplained`, `BytesAreKept` |
| `pe_run` | do modules, files, sockets and summaries of a PE analysis hold together, over loads, exits, faults and retries? | holds: `DataIsKept`, `RunsSound`, `NoCodeAfterExit` |
| `module_run` | does a module's report have every record and stop, and each operation its turn? | holds: `ReportIsTrue`, `DriveIsComplete` |

Each passing run also checks its module's type invariant (the two of
`instrumented` are conjuncts of its properties).  Several properties are
conjunctions of named parts, which the modules state one by one: `CallsKept`, for
instance, is `OwnObject /\ NoCallDropped /\ ModulesComplete`, and
`RangeCallsHold` says of every call that it is local and does to each address in
range what it says.

### Bounds

* `driver_build`: two compiles, one of a source clang rejects, two warm-ups,
  `MaxOverlap = 1`: enough for three handlers to interleave in `getModules`, and
  for a stale file, a stale reply and a broken session to be met by a later call.
  Six shapes a source's object may have and two libraries, after the objects under
  `compiler-worker/test/fixtures`: calls of an API and of a library, pointers in
  `.data`, a `.bss` without file position, two `.rdata`, a symbol in a dropped
  section, an index that is no symbol's, an unknown relocation, another machine;
  a base in reach of the stubs and one out of reach; one load, alone or with a
  library (`DriversLinked` is about any number of loads, at any bases).  `compiler_overlap` needs two compiles and nothing else.
* `guest_memory`: three pages of two units, up to three regions, of which one
  overlaps the guest's allocations; sizes 0, 1 and 3 at an aligned and an
  unaligned base give every way a range can meet a region (before, after,
  inside, around, across either end).  Calls that would exceed `MaxRegions` or
  `Top` are left out.
* `heap`: three owners, sizes that fill part of a page, a page less its header,
  and more than a page, with room for four pages of blocks: enough for reuse,
  growth, exhaustion and a cursor beyond the end.  `CursorMax` bounds the
  cursor.  Owners are symmetric.
* `threads`: two threads beside main and three APCs, each queued at most once:
  nesting of depth three, APCs behind each other, across threads, and queued
  during a drain; one event name and three calls on objects.
* `driver_run`: every combination of callbacks on or off, automatic IRPs off,
  canned or advanced (fuzzed or driven concolically), no or two scripted IOCTLs,
  unload, self-modification watch and the second attempt on or off, with two
  automatic requests.  `MaxRecords = 1` allows one record in one array per run:
  `ReportComplete` is about each record by itself.  `MCView` drops from the
  results all but what steps and properties read.
* `fuzz_campaign`: three inputs, two of them seeds, a mutation of each leading to
  it or one other, three image blocks, a corpus of two, three iterations: a seed
  phase that ends at the cap, an eviction with stale counts, a success without
  new coverage and an input met again all happen.  `MaxLog = 2` leaves an input
  one record to log.  Blocks are symmetric.
* `bug_campaign`: three inputs, two seeds of which one is run, two blocks, one
  bug, two iterations of which the first may call the concolic campaign, with
  two queries and up to two branches a run: an explored input, an input found
  and explored in turn, and a recheck that overfills the corpus all happen.
* `instrumented`: two inputs; for `BugTaint` three registers of three bytes,
  operands of one byte and of a register, two bytes of input and two others,
  four hooks an input: a fetch, an operation, a store and a sink.  For
  `ConcolicShadow` one register of two bytes of one bit, so that every wrap,
  sign and narrow write shows, four operations of which one has a carry, one
  a comparison and one clears flags, signed and unsigned conditions, four hooks.
* `linux_runs`: four calls, a list of two events: write, copy, close and read back
  is four calls, and the list overflows before they are over; `MaxFile = 2`, so that
  the third write is past the cap.  Four failures: a refusal
  that both patterns name, one that only the first does, Unicorn's, and one that
  none names.  Buffers of three
  bytes with one diff range, of which none, two neighbours, or the first and the last
  change: bytes merge into a range, and the second range is cut off.  Bytes are
  symmetric.  The three harnesses are in one run.
* `pe_run`: an executable and DLLs in every mode (`MCCases`), at their default bases,
  one so large that the first image is mapped over it; `MaxContents = 2`, one byte
  past what the file has; two handles, two
  paths and one scripted host, three loads out of two DLLs that import from and
  forward to each other, one that imports an export which forwards to itself, one
  that is no image and one that is absent.
* `module_run`: three harvested entries, one of them twice, of which `maxOps`
  leaves two; two patterns, one iteration, one query; each mode of the drive, with
  explicit operations and cleanup in the modes that do not multiply with them.

Deadlock checking is off where the system stops of itself: all calls answered,
entry point returned, analysis done, or a bound of the model reached.  It is on
for `linux_runs` and `pe_run`, whose last states stutter by an action.

### Fairness

* `CompilerBridge`: the event loops of page and worker take their messages, the
  worker script loads or fails to, every import, instantiation, fetch and
  request settles.  Nothing is assumed of callers, of loads, or of later
  `onerror` events.
* `GuestThreads`: routines end, because `maxSteps` bounds every call into the
  guest.  `HarnessSteps` as a whole is weakly fair; no guest call is.

All other runs check safety.  Their harnesses are straight lines and bounded
loops of one thread; that they end is the bound of each loop and of the CPU.

### Where the code and its documentation disagree

`compiler_overlap` is kept as a run; `PROJECT.json` quotes the comments.  The
others are stated in the modules, each next to the comment it takes its claim
from; adding the definition to the run's configuration as an INVARIANT (action
formulas as a PROPERTY) shows the counterexample.

| definition | add to | what the code does |
|---|---|---|
| `ReleaseIsLocal` | `guest_memory`, with `Mapped <- MCHarnessAbove`, `Sizes = {0, 1, 4}`, `Pointers = {0, 4}` | `memory.mjs:6-7` promises the states of `VirtualAlloc`; `free` makes of size 0, the one `MEM_RELEASE` takes, a range without end (128), and unmaps the harness's regions above |
| `RefusedOnlyWhenFull` | `heap` | `memory.mjs:13` and 239 say "with coalescing"; nothing coalesces, and the cursor moves before the exhaustion check (263-264) |
| `ExitIsFinal` | `threads` | `index.mjs:630`: "ExitProcess halts the CPU"; `runThread` clears the halt whatever it was for (`threads.mjs:65`), and the thread's creator runs on |
| `DrainedAfterEveryIrp` | `driver_run` | `index.mjs:494-495`: deferred work is drained "after every driven IRP"; for the automatic ones after all of them (548) |
| `CopiesAreLinked` | `driver_build` | `linkdriver.mjs:44-48` locates each object's copy; relocations go where the section would be if its object were alone (92-96) |
| `RefusalIsReported` | `linux_runs`, with `Harnesses = {"elf"}` | `elf-runner/src/index.mjs:64-68` retries a refused instruction; one inside `main` is overwritten by the exit that follows (299) |
| `TraceShowsCalls` | `linux_runs` | `trace.mjs:1-6` decodes events after the run, from memory that later calls have overwritten |
| `ExecveIsTerminal` | `linux_runs` | `shellcode-runner/src/index.mjs:289-298` stops at an execve's event; with the list full there is none, and native syscalls (283-285) take another branch |
| `StopsHaveReason` | `linux_runs` | `shellcode-runner/src/index.mjs:264-265`: "clean stops with a reason (int3 / ud2 / int 2d / hlt)"; only the first three are intercepted, and a `hlt` stops without one |
| `SampleStaysApart` | `pe_run` | `loader.mjs:83-93` maps the first image at 0x1800f0000 and looks at no region; `MODULE_BASE_START` (16) is also the linkers' default base of a DLL, so a DLL sample larger than 0xf0000 bytes is mapped over (`registerMain`, 116-130, only records where it is) |
| `ForwardersResolve` | `pe_run`, with `Image <- MCBareImage` | `loader.mjs:7-9` follows forwarder chains; the part before the dot is looked up as it is (63), and forwarders leave `.dll` out |
| `AssistIsSymbolic` | `bug_campaign` | `linux-engine.mjs:287-289` reuses the driver's concolic campaign, whose input is made symbolic at the driver's allocation (`concolic.mjs:420`): for a module nothing is symbolic |
| `TaintIsPerOp` | `instrumented` | `instrument.mjs:28` calls the pending taint "per-op"; it outlives the input it came from |
| `ShadowFollows` | `instrumented` | `concolic.mjs:5-7`: expressions only accompany execution; `adc`, `sbb` and writes after a comparison leave one that belongs to another value |
| `SignedHold` | `instrumented` | `concolic.mjs:307-318` makes signed conditions from the zero flag alone and takes `l` for `le` |
| `EveryQueryIsPut` | `instrumented` | `solver.mjs:202-203` expects its fallback only without WASM; an expression whose operands' sorts differ makes Z3 throw, and the query counts as unsatisfiable |

## 4. What is proved

Eight modules hold the theorems.  Each names an inductive invariant, proves it of
the initial states and of every step (one lemma per action, or per group of
actions that touch the same part), and derives the properties from it.  The
constants are arbitrary but for the module's own named ASSUMEs, which TLC
evaluates on every instance; a bound such as `MaxCalls` is a constant like the
others, so the theorems hold at every bound.  `CallsAlwaysKept` and
`BridgeImplementsService` have one more hypothesis, `MaxOverlap = 1`, which is
what separates `driver_build` from `compiler_overlap`.

| module | theorem | states |
|---|---|---|
| `MemoryProofs`, heap | `Invariance`, `TypeCorrect`, `Coherent`, `HeldStaysTaken`, `NoOverlap`, `NothingElseLeaks` | `TypeOK`, `BlocksCoherent`, `HeldIsTaken`, `NoAliasing`, `OnlyLocalFreeLeaks` |
| `MemoryProofs`, address space | `MemoryTypeCorrect`, `MemoryRangeCalls`, `MemoryGuardOnce` | `MemoryTypeOK`, `RangeCallsHold`, `GuardFaultsOnce` |
| `FuzzCampaignProofs`, fuzzer | `Invariance`, `RunsAreClean`, `Survives`; `KeptInvariance`, `TypeCorrect`, `NothingIsLost` | `CleanRuns`, `CampaignSurvives`; `TypeOK`, `CorpusTellsAll` |
| `FuzzCampaignProofs`, concolic engine | `ConcolicConstraints` | `ConstraintsHold` |
| `GuestThreadsProofs` | `ObjTypeCorrect`, `CallsAlwaysNest`, `ObjectsAlwaysKeep` | `ObjTypeOK`, `CallsNest`, `ObjectsKeepState` |
| `DriverBuildProofs` | `Invariance`, `BuildTypeCorrect`, `NothingDropped`, `CallsAlwaysKept`, `BridgeImplementsService`, `DriversLinked` | `BuildTypeOK`, two parts of `CallsKept` whatever overlaps, `CallsKept`, `ImplementsService`, `DriversAreLinked` |
| `DriverRunProofs` | `Invariance`, `TypeCorrect`, `ReportsAreComplete`, `EveryStageEndsWell`, `StagesAreSeparate` | `TypeOK`, `ReportComplete`, `StagesEndWell`, `StagesSeparate` |
| `LinuxRunsProofs`, harnesses | `Invariance`, `TypeCorrect`, `BytesAreNeverLost`, `RunsAreExplained` | `ShellTypeOK`, `BytesAreKept`, `ReportsExplained` |
| `LinuxRunsProofs`, modules | `AnalysisTypes`, `AnalysisReports`, `AnalysisDrives` | `KoTypeOK`, `ReportIsTrue`, `DriveIsComplete` |
| `BugEngineProofs`, campaigns | `Invariance`, `TypeCorrect`, `RunsNeverMix`, `NoBugIsLost` | `LinuxTypeOK`, `RunsAreIsolated`, `BugsAreKept` |
| `BugEngineProofs`, taint engine | `TaintInvariance`, `TaintAlwaysSound` | `TaintIsSound` |
| `PeRunProofs` | `Invariance`, `TypeCorrect`, `DataAlwaysKept`, `RunsAlwaysSound`, `NoCodeOnceOver` | `TypeOK`, `DataIsKept`, `RunsSound`, `NoCodeAfterExit` |

### The heap

`NoAliasing` is not inductive: from a state with a stray pointer into a block,
freeing the block and using it again overlaps.  The inductive invariant is

    IInv == TypeOK /\ BlocksCoherent /\ BelowCursor /\ HeldIsTaken /\ OneHolder

where `BelowCursor` says that every block, its header counted, lies below the
cursor (so that a fresh block cannot overlap an old one, whatever a refused
request did to the cursor), and `OneHolder` that no two owners hold the same
pointer.  `NoAliasing` then follows from `HeldIsTaken`, `OneHolder` and the
distance between blocks in `BlocksCoherent`.  A step loses a block only if it was
lost before (`NotLost`), since what a request marks taken it also holds.

### The address space

`MemInv` is small (regions inside the address space, sorted by base); the work is in what
one address shows after a cut.  `SortPermutes` says that the ranks of a sort are a
permutation, `SortShows` that of the regions that hold an address the first in the order
(`Wins`) is the one that shows.  `PiecesShow` then follows the flattened table from
left to right: if the pieces that hold the address begin at places that rise with
the regions they come from (`Ranked`, `KeysRise`), the first region with such a piece
shows.  `ProtectOf`, `ReleaseOf` and `DecommitOf` say for one region which piece holds
the address and where it begins; the three cut lemmas put this together, and
`FaultKeeps` adds what a guard fault takes.

### The fuzzer

`Inv` says that between inputs the kernel is the one the campaign found, but for
its queue (`RestInv`); that during one the snapshot is the snapshot of that
kernel, the kernel differs from it only in what driver code may touch, and the
tracker has what ran (`RunInv`).  The argument is in four lemmas about `Capture`,
`Restore` and `DriverRan`: capturing an untouched kernel gives one value whatever
its queue, driver code keeps the old logs as a prefix, and from such a kernel
`Restore` gives the untouched one.

`Kept` is a second layer on top: seen blocks are the covered ones also in the
middle of a run, an entry's coverage is among them, and in the seed phase the
corpus has room, exact hit counts and no success.  `CorpusTellsAll` needs all
three at once, because an eviction goes by counts that are one entry behind
(`HitsFollowCorpus` allows just that) and must not lose the last entry that
covers a block.  The order of the scores is proved for fractions, with the
products of `TimesOrder`.

### Guest threads

`StackInv` ties each frame to the one below it (`Hangs`: a thread goes back to
its creator's tid and registers, a drain and an APC are their caller's own), the
top frame to `currentTid` and the registers, and each thread to the number of
its routines on the stack: one until it has exited, none later.  Without the
last part a frame could be left whose thread is gone.  `ApcsInOrder` is
inductive with the shape of the queues.  For the slots, whose index is the size
of the map, the invariant needs `NoGap`: as long as slots are freed from the
top, those in use are `0..n-1`, so the size is the index of none of them, and
`reissued` stays empty.

### The compile bridge and the loader

`BridgeInv` follows the one trace each call leaves: a message, a handler at work
or a reply, never two of them (`OneTrace`), and who waits for it (`Waits`).  That
gives `NothingDropped` for any overlap.  `Modules` says that a handler's instance
exists when it is used, `Alone` that with one compile open the file the handler
reads is its own; every `await` is a place where `Alone` could break and the
lemma for that action shows why it does not.  The refinement takes each step
of client and worker to a step of the service or a stutter: the answer of a call
changes only where a reply is taken or the client gives up.  `KernelInv` relates
the kernel's lists to the loads made so far, `LoadsInv` what each load was told to
what the linker makes of its objects, and the stubs to the names it asked for.

### The linked driver

`DriversLinked` is about any objects that are `WellFormed`, one or two in a link as
`Inputs` has them (the lemmas are about any number), with any sections, page size and
alignment, and about any number of loads.  That a link is right hardly depends on the
state, so most of the work is about operators:

* The passes.  `StartsAre`, `ChunksApart`: each chunk of an output section begins
  behind the one before, and all are inside it.  `PassesAgree`: the second pass, which
  counts ends and not starts, finds each chunk where the first put it.  `OutputsApart`:
  no two output sections share a cell of the image.  `Layout` sums these up for a
  link, and `LinkLayout` proves it.
* The relocations.  `FieldIsEncoded`: a relocation that does not throw and has a
  target writes as many cells as its field has.  `HitsAreFields`, `PatchedCells`: a cell
  of the image is patched exactly if it is in a field of its own section, by the one
  relocation of that field.  Here `FieldsLead` is needed, and this is what fails
  without it (`CopiesAreLinked`): a field of a later chunk is patched where the first
  chunk lies.
* Memory.  `LiveInMemory`: the last call that wrote an address left there what a live
  driver had written.
* What a field says.  `TargetIsAddress`: a target is where a definition's section was
  copied, a thunk, a stub that is provisioned, or the slot below the image;
  `NameIsAsked` is why stub and slot exist: an accepted link got as far as every
  relocation.  `DefinitionIs`: of several definitions the last counts, and there is one.

### The driver analysis

`RunInv` says for each step of the harness what is in the kernel's logs and queue
and what the report knows.  The properties speak of the end of a run or of a
step, so the work is in the middle: `Logged` has, per line, which logs are
already spliced; `Stopped` on which lines the kernel may be dead without the
report knowing it, and which one stage may have met it (`late` has at most one
element); `Queued` where a request's work may wait; `Driven` and `StallKept` how
results and stalls begin and end.

### The Linux and shellcode harnesses

`FilesInv` relates a file's bytes to the histories of what was written and got
through its descriptors, copies included, and to the count of what was `missed`:
got, left and missed bytes add up to the written ones, and with none missed the
first two, joined, are those; `OutcomeInv` says why the run ended
and what the attempt before left behind; `TraceInv` says that an event is of a call that
was made, and that main's caller has none before main is back, which is why the
site found at the end of the list is the right one.  The three are inductive one
after the other.  That the diff counts the changed bytes, whatever the cap, is
`DiffFinds`, by induction over the bytes.

### The analysis of a kernel module

`KoInv == ReportsInv /\ DriveInv`.  `ReportsInv` follows the records, the stop and
the attempts: per phase, which logs are spliced (`LogsSpliced`), which phase may
have stopped the kernel without the report knowing it (`StopsKnown`), why there is
a second attempt (`AttemptsKnown`), and of a campaign under way that its kernel runs,
whose turn it is and that fuzzing leaves an entry (`CampKnown`).  `DriveInv` needs
three of these and says what `DriveIsComplete` says at the end in the middle of the
drive: `TodoKnown`, that what is left is the end of what was chosen; `OrderKnown`,
that no result is of an operation behind the one whose turn it is; `CountsKnown`,
how many results the operations before it, it and those after it have; and
`SentDeadKnown`, what a stopped kernel was sent up to each phase.  The lists the
loops make (`Unique`, `Merged`, `TakenOver`) are elements at some places of another
(`Kept`): `KeptIs` says that they are those, each once and in order.

### The bug campaigns

`Isolated` gives for every point of both campaigns the engine installed, the
wrappers in force, and of which kernel the snapshots are; it covers the nested
campaign, which restores snapshots it took under another engine.  `Stubbed` does
the same for the Linux stub policy and adds that for a module the nested campaign
comes back with the child it was given.  `Accounted` says that a raised bug is in
the database or among those of the current iteration, whose witness is the
child; without the second half the invariant would break between a run and the
line that files what it found.

### The concolic engine

`ShadowInv` has three typings and five agreements.  The typings say that whatever is
kept denotes a number of its bits for every input (`OfWord`, `OfTruth`), that it
depends on the bytes it names only (`Depends`), that flags have all three
expressions or none, and that what is kept of a word is never a constant.  The
agreements (`MemHolds`, `RegsHold`, `FlagsHold`, `PendingHold`, `PathHolds`) are wanted
only while `trusted`; `FlagsHold` asks more than the property, for the constant
carry flag as well, since a jump on its negation puts it into the path.

Most of the work is in the arithmetic of cut words: what `mkExtract`, `mkConcat` and
`mkBinop` denote (`mkExtractOf`, ...), against what the processor computes with one bit more
(`DerivedOf`: adding `2^n` or `2^(n+1)` before the cut is the same), and that a sum has
carried exactly if it is below its first operand (`SumWraps`).  A narrow write to a
register keeps the bits above (`WrittenOf`), and an expression of the operand is one of
the register's low bits.  Answers need no agreement: an answer differs from its model only in
bytes that no constraint of the query depends on (`AnswersAreModels`).

### The taint engine

`TaintInv` names one set, `Allowed`: the ids of the input that runs, or every id
handed out so far when an operand was left over from the input before or no input
runs.  All that the engine keeps is taken from it (`Placed`): memory, registers, the
two operands and the ids in bugs, so that each hook need only be shown to move taint,
never to make it.  `Kept` is what nothing stored to still has; `Once` counts the
double fetches among the bugs against the loads of their address, which is why
a hook that raises something else must be shown to raise no fetch.  The step that
matters is the beginning of an input, where `Allowed` changes: all but the
operands has just been cleared, and what they carry is why `carried` is asked for.

### The PE analysis

`PeInv == RunInv /\ ObjectsInv /\ LoaderInv`, three parts that do not depend on
each other.  `RunInv` has where the run stands (`Standing`), how it came there
(`Course`) and the summaries so far (`Listed`).  `ObjectsInv` has a typing of
handles and histories (`Handed`), the agreement of overlay and last writer
(`Written`), and for each object what its own kind needs (`EachSound`): what was
received and what is left of the script, joined, are the script, and once bytes were
lost the three counts still add up to its length.  `LoaderInv` adds
to the two properties that every region mapped so far, also those of loads that failed,
begins at the first base or above it and ends below the next one.  That is why an image
can be put neither into one of them nor into a sample that ends at or below the first base.

### Recursion and sums

Where a model computes with a recursive function or a fold (`FlattenSeq`,
`Chain`, the hit counts, the layout passes, the scan of the diff, powers of two and the digits of a
number), the proof modules derive
induction over a set of numbers (`LeastNumber`, `SetInduction`) from the
library's statement that the order of the natural numbers is well-founded, show
that the recursive definition exists, and get the equations they need from it.  No
induction theorem with an operator parameter is used.

### Only model-checked

* Liveness: `EveryCallAnswered` and `WaitDrains`.  It is out of the proof system's
  reach, as is ENABLED.
* What `compiler_overlap` and section 3's last table show: they are counterexamples.

## 5. Plan

The parts that can be modelled are, and every safety property a passing run checks is
a theorem; what is left to TLC is liveness.  Of models, the registry and the process calls of `win32.mjs` could follow once
something reads back what they record.

## 6. Not modelled, and why

* Triage (`triage/src`): parsers, hashes, YARA rules and strings are pure functions
  over bytes, with unit tests; no state machine.
* Header texts (`linux-headers.mjs`, `wdk-headers.mjs`), state text, activity,
  trace rendering, command lines and build tools: rendering and data.
* Instruction semantics: `aarch64.mjs` and the processors of `@kernelforge/ntsim`
  and `ntsim-unicorn`.  The kernel model and the processors are not in the
  repository; the modules allow them whatever their interface allows.
* `elf.mjs` of the linker: the same passes as the COFF ones for Linux objects,
  which nothing in the repository calls.  The 32-bit spelling `_DriverEntry@8` of
  the entry point.  Addends of relocations; `REL32_1` to
  `REL32_4`, which `linkDriver` applies as `REL32`.
* Win32 calls that record what was tried or answer a constant (registry,
  processes, windows, crypto): they are an action each, without state, because no
  call reads it back.  Of two definitions of `UnhandledExceptionFilter`
  (`win32.mjs` 1178 and 1436) the later one is the one that counts.
* Native system call tables of the Windows harnesses (`nt-syscalls.mjs`,
  `shellcode-runner/src/win`).
* Waits that are not alertable, which change nothing; `callDetach` after a
  DllMain that was never attached (`index.mjs:607`) is in `PeRun`, but no
  property says what should happen.
* Distances and control-flow graphs of the bug engine (`cfg.mjs`,
  `distance.mjs`): they order what is tried first; the models try in any order.
* Loading Z3 and its cached failure, 64-bit constants that go through Number
  (`solver.mjs:57`), and the symbol of an operation's second operand, which
  `concolic.mjs` keeps and never reads.
* Registry, file system and notify lists of the kernel, which no snapshot has;
  exceptions thrown by the campaigns' progress callbacks.
