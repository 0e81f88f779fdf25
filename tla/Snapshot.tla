------------------------------- MODULE Snapshot -------------------------------
(***************************************************************************)
(* captureSnapshot and restoreSnapshot of ntsim-analyzer/src/snapshot.mjs, *)
(* on which the fuzz, concolic and bug campaigns run every input.  The     *)
(* kernel is a record: memory and pool (mem), the log arrays (log, one for *)
(* all of them), bugcheck or crash (dead), what NtKernel has queued for    *)
(* later (queue: work items, DPCs, timers), and the processor engines, of  *)
(* which kernel.cpu names the one installed.  An engine has its registers  *)
(* (regs) and what only a snapshot carries over: step count, fault and     *)
(* control registers (rest).                                               *)
(***************************************************************************)
EXTENDS Naturals, Sequences

Values == {"own", "fresh", "run"}   \* the caller's, a new engine's, a driver run's

\* Of the logs only the lengths are kept, of the engines the installed one.
Capture(k) ==
    [mem |-> k.mem, logLen |-> Len(k.log), dead |-> k.dead, engine |-> k.engine[k.cpu]]

\* Mutant of Restore: the log arrays keep what the input logged.
RestoreKeepsLog(k, snap) ==
    [k EXCEPT !.mem = snap.mem, !.dead = snap.dead, !.engine[k.cpu] = snap.engine]

\* Mutant of Restore: kernel.bugcheck is not put back.
RestoreKeepsBugcheck(k, snap) ==
    [k EXCEPT !.mem = snap.mem, !.log = SubSeq(@, 1, snap.logLen), !.engine[k.cpu] = snap.engine]

\* Everything captured is put back, the engine's part into the engine that is
\* installed now.  The queue is not part of a snapshot.
Restore(k, snap) ==
    [mem |-> snap.mem, log |-> SubSeq(k.log, 1, snap.logLen), dead |-> snap.dead,
     queue |-> k.queue, cpu |-> k.cpu, engine |-> [k.engine EXCEPT ![k.cpu] = snap.engine]]

\* The kernel after a piece of driver code (external): memory and the engine
\* have changed; it may have logged, stopped the kernel or queued work.
DriverRan(k, maxLog) ==
    LET ran == [regs |-> "run", rest |-> "run"] IN
    [mem : {"run"}, log : {k.log} \cup {l \in {Append(k.log, "run")} : Len(l) <= maxLog},
     dead : {k.dead, TRUE}, queue : {k.queue, TRUE}, cpu : {k.cpu},
     engine : {[k.engine EXCEPT ![k.cpu] = ran]}]

\* The kernel as a campaign finds it, but for its queue: alive, with something
\* in its logs.
FreshKernel(engines, installed, queue) ==
    [mem |-> "own", log |-> <<"own">>, dead |-> FALSE, queue |-> queue, cpu |-> installed,
     engine |-> [e \in engines |-> [regs |-> "own", rest |-> "own"]]]

KernelType(engines, maxLog) ==
    [mem : Values, log : UNION {[1..n -> Values] : n \in 0..maxLog}, dead : BOOLEAN,
     queue : BOOLEAN, cpu : engines,
     engine : [engines -> [regs : Values, rest : Values]]]
=============================================================================
