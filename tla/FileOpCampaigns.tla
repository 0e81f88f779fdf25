--------------------------- MODULE FileOpCampaigns ---------------------------
(***************************************************************************)
(* fuzzFileOp and concolicFileOp of linux-analyzer: the campaigns that     *)
(* autoDriveFileOps runs for one file operation of a kernel module.  They  *)
(* are the loops of FuzzCampaign and ConcolicCampaign around sendFileOp;   *)
(* here an input is one step, snapshot, run and restore, and whether it    *)
(* covers new blocks is any answer, so that the run that uses them can be  *)
(* followed from the load of the module to the report.                     *)
(***************************************************************************)
EXTENDS Naturals, Sequences, SequencesExt, FiniteSetsExt

CONSTANTS Inputs,       \* input buffers
          Seeds,        \* inputPatterns and their enrichments
          Cap,          \* fuzz.corpusCap
          Iterations,   \* fuzz.iterations
          SeedCap,      \* corpus entries a concolic campaign starts from: 4
          MaxQueries,   \* concolic.maxQueries
          MaxBranches,  \* bound: branches on input bytes in one run
          Nothing

ASSUME FileOpAssumption ==
    /\ Seeds \in Seq(Inputs) /\ Seeds # <<>>
    /\ {Cap, SeedCap} \subseteq Nat \ {0}
    /\ {Iterations, MaxQueries, MaxBranches} \subseteq Nat

VARIABLES kernel,   \* dbgLog, exceptionTrace, bugcheck or crash, the engine
          camp      \* the campaign under way, or Nothing

\* "ok" stands for "no_handler" too, which is treated alike.
Statuses == {"ok", "fault"}
\* What the text of a bugcheck or crash says: that the engine could not, or anything else.
Stops == {"unsupported", "other"}

\* The kernel after a call into the module (external): it may have logged, taken an
\* exception, or stopped the kernel.
Ran(k, phase) ==
    [log : {k.log, Append(k.log, phase)}, exc : {k.exc, Append(k.exc, phase)},
     dead : IF k.dead = Nothing THEN {Nothing} \cup Stops ELSE {k.dead}, cpu : {k.cpu}]

\* Mutant of Rollback: a bugcheck outlives its input.
RollbackKeepsDead(k, snap) == [k EXCEPT !.log = snap.log, !.exc = snap.exc]

\* restoreSnapshot: what the input did is undone; the engine installed stays.
Rollback(k, snap) == [snap EXCEPT !.cpu = k.cpu]

\* runInput: an input that throws counts as a fault.
RunInput == \E k \in Ran(kernel, "campaign") : kernel' = Rollback(k, kernel)

\* An entry has the result of its run, if there was one.
Entry(buf, res, by) == [buf |-> buf, res |-> res, by |-> by]
Entries == [buf : Inputs, res : {Nothing, "ran"}, by : {"seed", "fuzz", "concolic"}]

\* The campaigns for the operations of a set.
Campaigns(ops) ==
    [pc : {"seed", "loop", "queue", "flip"}, op : ops, corpus : Seq(Entries), done : Nat,
     queue : Seq(Inputs), visited : SUBSET Inputs, flips : 0..MaxBranches]

-----------------------------------------------------------------------------
(* Fuzzing.                                                                *)

FuzzStart(op) ==
    camp' = [pc |-> "seed", op |-> op, corpus |-> <<>>, done |-> 0, queue |-> <<>>,
             visited |-> {}, flips |-> 0]

SeedCount == Min({Len(Seeds), 2 * Cap})

\* A seed is kept for what it covers, the first one always.
FuzzSeed ==
    /\ camp.pc = "seed"
    /\ RunInput
    /\ \E new \in BOOLEAN :
         LET seed == Seeds[camp.done + 1]
             corpus == IF new \/ camp.corpus = <<>>
                       THEN Append(camp.corpus, Entry(seed, "ran", "fuzz")) ELSE camp.corpus
             last == Len(corpus) >= Cap \/ camp.done + 1 = SeedCount
         IN camp' = [camp EXCEPT !.corpus = corpus, !.pc = IF last THEN "loop" ELSE @,
                                 !.done = IF last THEN 0 ELSE @ + 1]

\* Mutant of Evicted: nothing is dropped.
EvictedNone(corpus) == {corpus}
\* Over the cap the entry with the commonest coverage goes, which may be any.
Evicted(corpus) ==
    IF Len(corpus) <= Cap THEN {corpus} ELSE {RemoveAt(corpus, i) : i \in DOMAIN corpus}

\* A child is kept if it covers something new, or if it succeeds and there is room.
FuzzChild ==
    /\ camp.pc = "loop" /\ camp.done < Iterations /\ kernel.dead = Nothing
    /\ RunInput
    /\ \E child \in Inputs, kept \in BOOLEAN :
         \E corpus \in IF kept THEN Evicted(Append(camp.corpus, Entry(child, "ran", "fuzz")))
                       ELSE {camp.corpus} :
            camp' = [camp EXCEPT !.corpus = corpus, !.done = @ + 1]

FuzzOver == camp.pc = "loop" /\ (camp.done = Iterations \/ kernel.dead # Nothing)

-----------------------------------------------------------------------------
(* Concolic execution.                                                     *)

\* The symbolic engine takes the place of the kernel's; the first buffers of the corpus
\* are the seeds.
ConcolicStart(op, corpus) ==
    LET bufs == [i \in DOMAIN corpus |-> corpus[i].buf]
        queue == SubSeq(bufs, 1, Min({SeedCap, Len(bufs)})) IN
    /\ kernel' = [kernel EXCEPT !.cpu = "concolic"]
    /\ camp' = [pc |-> "queue", op |-> op, corpus |-> corpus, done |-> 0, queue |-> queue,
                visited |-> ToSet(queue), flips |-> 0]

\* A seed runs with its bytes symbolic; each branch on them is a query.
ConcolicSeed ==
    /\ camp.pc = "queue" /\ camp.queue # <<>> /\ camp.done < MaxQueries
    /\ RunInput
    /\ \E branches \in 0..MaxBranches :
         camp' = [camp EXCEPT !.queue = Tail(@), !.flips = branches, !.pc = "flip"]

\* A query is spent.
Asked(c) == [c EXCEPT !.flips = c.flips - 1, !.done = c.done + 1]

\* What the input that answers a query adds to the corpus and to the seeds.
Answered(c, child, kept, again) ==
    [c EXCEPT !.corpus = IF kept THEN Append(c.corpus, Entry(child, "ran", "concolic")) ELSE c.corpus,
              !.queue = IF again THEN Append(c.queue, child) ELSE c.queue,
              !.visited = IF again THEN c.visited \cup {child} ELSE c.visited]

\* The solver finds nothing, or an input that takes the branch the other way.  It is run,
\* and kept for new coverage or a result of 0; for new coverage it becomes a seed too, if
\* there are queries left and it was none before.
ConcolicFlip ==
    /\ camp.pc = "flip" /\ camp.flips > 0 /\ camp.done < MaxQueries
    /\ \/ camp' = Asked(camp) /\ UNCHANGED kernel
       \/ /\ RunInput
          /\ \E child \in Inputs, new \in BOOLEAN, kept \in BOOLEAN :
               /\ new => kept
               /\ camp' = Answered(Asked(camp), child, kept,
                                   /\ new /\ camp.done + 1 < MaxQueries
                                   /\ child \notin camp.visited)

FlipsDone ==
    /\ camp.pc = "flip" /\ (camp.flips = 0 \/ camp.done = MaxQueries)
    /\ camp' = [camp EXCEPT !.pc = "queue", !.flips = 0]
    /\ UNCHANGED kernel

ConcolicOver == camp.pc = "queue" /\ (camp.queue = <<>> \/ camp.done = MaxQueries)

CampaignStep == FuzzSeed \/ FuzzChild \/ ConcolicSeed \/ ConcolicFlip \/ FlipsDone
=============================================================================
