--------------------------- MODULE ConcolicCampaign ---------------------------
(***************************************************************************)
(* concolicCampaign of ntsim-analyzer/src/symbolic/concolic.mjs, as a      *)
(* component that a caller starts: a symbolic engine takes the place of    *)
(* the processor; inputs of a queue are run on it, every branch condition  *)
(* they met is flipped by a solver query while the budget lasts, and an    *)
(* input found that way is run once more to confirm what it reaches.       *)
(***************************************************************************)
EXTENDS Snapshot, Corpus

CONSTANTS Inputs,       \* input buffers
          Outside,      \* stands for code outside the image
          MaxQueries,   \* opts.maxQueries
          MaxBranches,  \* bound: symbolic branches of a run
          MaxLog,       \* bound: records in the kernel's logs
          None

ASSUME ConcolicAssumption ==
    /\ {MaxQueries, MaxBranches} \subseteq Nat /\ MaxLog \in Nat \ {0}
    /\ Outside \notin Blocks

VARIABLES
    kernel,     \* the kernel under test
    alloc,      \* whose allocPool wrapper is installed: "own", "bug", "concolic"
    cpc,        \* "idle", "next", "seedrun", "flip", "confirm", "answered"
    under,      \* kernel._savedCpu: the engine replaced
    csnap,      \* the snapshot of the current run
    ctracker,   \* the campaign's coverage tracker
    cqueue,     \* seedQueue: inputs to explore
    visited,    \* visitedHex: inputs ever queued
    seed,       \* the input explored
    flips,      \* its branch conditions not flipped yet
    witness,    \* the input that is confirmed
    queries,    \* queriesDone
    ccorpus,    \* corpus: the caller's entries and the inputs found
    cseen       \* globalSeen

cvars == <<cpc, under, csnap, ctracker, cqueue, visited, seed, flips, witness, queries,
           ccorpus, cseen>>

Engines == {"real", "bug", "concolic"}

Buffers(c) == [i \in DOMAIN c |-> c[i].buf]

ConcolicInit ==
    /\ cpc = "idle"
    /\ under = None
    /\ csnap = None
    /\ ctracker = Paused
    /\ cqueue = <<>>
    /\ visited = {}
    /\ seed = None
    /\ flips = 0
    /\ witness = None
    /\ queries = 0
    /\ ccorpus = <<>>
    /\ cseen = {}

\* The engine that replaces kernel.cpu: from a plain interpreter it copies the
\* registers, from any other engine (the bug engine too) nothing.
SymbolicEngine(k) ==
    [regs |-> IF k.cpu = "real" THEN k.engine[k.cpu].regs ELSE "fresh", rest |-> "fresh"]

\* Starts with the caller's entries, of which the first four are explored.
ConcolicStart(entries) ==
    /\ cpc = "idle"
    /\ cpc' = "next"
    /\ under' = kernel.cpu
    /\ kernel' = [kernel EXCEPT !.cpu = "concolic", !.engine["concolic"] = SymbolicEngine(kernel)]
    /\ cqueue' = SubSeq(Buffers(entries), 1, Min({4, Len(entries)}))
    /\ visited' = {entries[i].buf : i \in 1..Min({4, Len(entries)})}
    /\ queries' = 0
    /\ ccorpus' = entries
    /\ cseen' = UNION {entries[i].cov : i \in DOMAIN entries}
    /\ UNCHANGED <<alloc, csnap, ctracker, seed, flips, witness>>

Explores == cqueue # <<>> /\ queries < MaxQueries

\* runConcolic: the next input of the queue, with its buffer made symbolic when
\* sendIrp allocates it.
ExploreNext ==
    /\ cpc = "next" /\ Explores
    /\ cpc' = "seedrun"
    /\ seed' = Head(cqueue)
    /\ cqueue' = Tail(cqueue)
    /\ csnap' = Capture(kernel)
    /\ alloc' = "concolic"
    /\ ctracker' = Recording
    /\ UNCHANGED <<kernel, under, visited, flips, witness, queries, ccorpus, cseen>>

\* Driver code runs on the symbolic engine.
ConcolicBlock ==
    /\ cpc \in {"seedrun", "confirm"}
    /\ \E b \in Blocks \cup {Outside} : ctracker' = Hooked(ctracker, b)
    /\ kernel' \in DriverRan(kernel, MaxLog)
    /\ UNCHANGED <<alloc, cpc, under, csnap, cqueue, visited, seed, flips, witness, queries,
                   ccorpus, cseen>>

\* The run has met some symbolic branches.  A dead kernel would end the
\* campaign, but the snapshot has just been restored.
Explored ==
    /\ cpc = "seedrun"
    /\ kernel' = Restore(kernel, csnap)
    /\ alloc' = "own"
    /\ csnap' = None
    /\ ctracker' = Paused
    /\ cseen' = cseen \cup ctracker.blocks
    /\ flips' \in 0..MaxBranches
    /\ cqueue' = IF kernel'.dead THEN <<>> ELSE cqueue
    /\ cpc' = IF kernel'.dead THEN "next" ELSE "flip"
    /\ UNCHANGED <<under, visited, seed, witness, queries, ccorpus>>

\* solveConstraints for the next branch: no solution, or an input that is
\* confirmed on the symbolic engine with its symbols switched off.
Flip ==
    /\ cpc = "flip" /\ flips > 0 /\ queries < MaxQueries
    /\ flips' = flips - 1
    /\ queries' = queries + 1
    /\ \/ UNCHANGED <<cpc, csnap, ctracker, witness>>
       \/ /\ cpc' = "confirm"
          /\ witness' \in Inputs
          /\ csnap' = Capture(kernel)
          /\ ctracker' = Recording
    /\ UNCHANGED <<kernel, alloc, under, cqueue, visited, seed, ccorpus, cseen>>

\* New coverage or status 0 is kept; new coverage is explored, once.
Confirmed ==
    /\ cpc = "confirm"
    /\ cpc' = "flip"
    /\ kernel' = Restore(kernel, csnap)
    /\ csnap' = None
    /\ ctracker' = Paused
    /\ witness' = None
    /\ LET new == ctracker.blocks \ cseen # {}
           queued == new /\ queries < MaxQueries /\ witness \notin visited IN
         /\ \E zero \in BOOLEAN :
              ccorpus' = IF new \/ zero
                         THEN Append(ccorpus, [buf |-> witness, cov |-> ctracker.blocks])
                         ELSE ccorpus
         /\ cseen' = cseen \cup ctracker.blocks
         /\ visited' = IF queued THEN visited \cup {witness} ELSE visited
         /\ cqueue' = IF queued THEN Append(cqueue, witness) ELSE cqueue
    /\ UNCHANGED <<alloc, under, seed, flips, queries>>

FlipsDone ==
    /\ cpc = "flip"
    /\ flips = 0 \/ queries = MaxQueries
    /\ cpc' = "next"
    /\ UNCHANGED <<kernel, alloc, under, csnap, ctracker, cqueue, visited, seed, flips, witness,
                   queries, ccorpus, cseen>>

\* The engine put aside is installed again.
Replaced(k) == [k EXCEPT !.cpu = under]

ConcolicEnd ==
    /\ cpc = "next" /\ ~Explores
    /\ cpc' = "answered"
    /\ kernel' = Replaced(kernel)
    /\ under' = None
    /\ seed' = None
    /\ UNCHANGED <<alloc, csnap, ctracker, cqueue, visited, flips, witness, queries, ccorpus,
                   cseen>>

\* The caller takes the corpus; the campaign's local state is gone.
ConcolicReturn ==
    /\ cpc = "answered"
    /\ cpc' = "idle"
    /\ cqueue' = <<>> /\ visited' = {}
    /\ flips' = 0 /\ queries' = 0
    /\ ccorpus' = <<>> /\ cseen' = {}
    /\ UNCHANGED <<under, csnap, ctracker, seed, witness>>

ConcolicNext ==
    \/ ExploreNext \/ ConcolicBlock \/ Explored \/ Flip \/ Confirmed \/ FlipsDone
    \/ ConcolicEnd

ConcolicTypeOK ==
    /\ kernel \in KernelType(Engines, MaxLog)
    /\ alloc \in {"own", "bug", "concolic"}
    /\ cpc \in {"idle", "next", "seedrun", "flip", "confirm", "answered"}
    /\ under \in Engines \cup {None}
    /\ ctracker \in [enabled : BOOLEAN, blocks : SUBSET Blocks]
    /\ cqueue \in Seq(Inputs) /\ visited \subseteq Inputs
    /\ {seed, witness} \subseteq Inputs \cup {None}
    /\ flips \in 0..MaxBranches
    /\ queries \in 0..MaxQueries
    /\ ccorpus \in Seq([buf : Inputs, cov : SUBSET Blocks])
    /\ cseen \subseteq Blocks
=============================================================================
