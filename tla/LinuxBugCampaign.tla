--------------------------- MODULE LinuxBugCampaign ---------------------------
(***************************************************************************)
(* findLinuxBugsCampaign of linux-analyzer/src/bug/linux-engine.mjs: the   *)
(* loop of BugCampaign around sendFileOp.  What it has of its own is the   *)
(* stub policy, by which an input also decides which kernel functions      *)
(* fail, a bug of its own for a run that faults, and the concolic campaign *)
(* of the driver analyzer, borrowed with a shim.  Both systems are checked *)
(* together; which one it is never changes.                                *)
(***************************************************************************)
EXTENDS BugCampaign

CONSTANT NullDeref      \* the key of the bug that a fault is

ASSUME LinuxAssumption == NullDeref \in Bugs

VARIABLES system,       \* "nt" or "linux"
          policy,       \* kernel.stubPolicy: "default", or the input it is made from
          saved,        \* stubSnap: the policy before the current run
          faulted,      \* the current run has come back with "fault"
          symbolic,     \* the last explored input had its buffer made symbolic
          crashed       \* history: some run of this campaign faulted

lvars == <<system, policy, saved, faulted, symbolic, crashed>>
allVars == <<vars, lvars>>

LinuxInit ==
    /\ Init
    /\ system \in {"nt", "linux"}
    /\ policy = "default" /\ saved = None
    /\ faulted = FALSE /\ symbolic = FALSE /\ crashed = FALSE

\* The driver analyzer's campaign has none of it.
NtStep == system = "nt" /\ Next /\ UNCHANGED lvars

Linux == system = "linux" /\ UNCHANGED <<system, symbolic>>

-----------------------------------------------------------------------------
(* One input: runWithBugs.                                                 *)

\* applyStubPolicyFromBuf: two bytes of the input flip six stubs.
PolicyFrom(buf) == buf

RunBegins ==
    /\ saved' = policy
    /\ policy' = PolicyFrom(input')
    /\ faulted' = FALSE
    /\ UNCHANGED crashed

LinuxBlock == Linux /\ ~faulted /\ RunBlock /\ UNCHANGED <<policy, saved, faulted, crashed>>

\* sendFileOp comes back with a fault, or throws.
RunFaults ==
    /\ Linux
    /\ pc \in {"seedrun", "childrun", "rerun"} /\ ~faulted
    /\ faulted' = TRUE /\ crashed' = TRUE
    /\ raised' = raised \cup {NullDeref}
    /\ UNCHANGED <<kernel, alloc, cvars, pc, impls, tracker, first, snap, next, input, child, found,
                   recheck, corpus, seen, hits, db, iters, reported, policy, saved>>

\* Mutant of PolicyBack: what the last input chose stays.
PolicyBackNot == policy
PolicyBack == saved

\* The policy is put back before the kernel is.
RunIsOver ==
    /\ policy' = PolicyBack
    /\ saved' = None
    /\ faulted' = FALSE
    /\ UNCHANGED crashed

-----------------------------------------------------------------------------
(* The loop.                                                               *)

NoRun == UNCHANGED <<policy, saved, faulted, crashed>>

LinuxTakeOver == Linux /\ TakeOver /\ NoRun

LinuxStartSeed == Linux /\ StartSeed /\ RunBegins
LinuxEndSeed == Linux /\ EndSeed /\ RunIsOver
LinuxSeedsDone == Linux /\ SeedsDone /\ NoRun

LinuxStartChild == Linux /\ StartChild /\ RunBegins
LinuxEndChild == Linux /\ EndChild /\ RunIsOver

LinuxCallConcolic == Linux /\ CallConcolic /\ NoRun

\* concolicCampaign makes the buffer symbolic that is allocated as "IrpB"; the one of a file
\* operation is a "UArg", and with no symbolic byte no branch is recorded.
BufferTag == IF system = "linux" THEN "UArg" ELSE "IrpB"

LinuxConcolic ==
    /\ system = "linux" /\ UNCHANGED system
    /\ ConcolicNext /\ UNCHANGED bvars
    /\ symbolic' = IF cpc = "seedrun" THEN BufferTag = "IrpB" ELSE symbolic
    /\ ~symbolic' => flips' = 0
    /\ NoRun

\* The answer holds nothing but the child, so that no input is run again (RunBegins and
\* RunIsOver would hold of those runs too).
LinuxTakeAnswer == Linux /\ TakeAnswer /\ NoRun

LinuxFileChild == Linux /\ FileChild /\ NoRun
LinuxGiveBack == Linux /\ GiveBack /\ NoRun

LinuxNext ==
    \/ NtStep
    \/ LinuxTakeOver \/ LinuxStartSeed \/ LinuxEndSeed \/ LinuxSeedsDone
    \/ LinuxStartChild \/ LinuxEndChild \/ LinuxCallConcolic \/ LinuxConcolic
    \/ LinuxTakeAnswer \/ LinuxFileChild \/ LinuxGiveBack \/ LinuxBlock \/ RunFaults

LinuxSpec == LinuxInit /\ [][LinuxNext]_allVars

-----------------------------------------------------------------------------
(* Properties.                                                             *)

\* The shape of the state.
LinuxTypeOK ==
    /\ TypeOK
    /\ system \in {"nt", "linux"}
    /\ policy \in Inputs \cup {"default"}
    /\ saved \in Inputs \cup {"default", None}
    /\ {faulted, symbolic, crashed} \subseteq BOOLEAN
    /\ system = "nt" => policy = "default" /\ ~crashed
    /\ system = "linux" => recheck = <<>>

\* linux-engine.mjs: the input makes the outcome of the stubs "fuzz-configurable per call".
\* In every run of the bug engine the stubs answer as that run's own input says, however
\* the runs before it ended; between the runs, in the nested concolic campaign and at the
\* end they answer as they did before.  And a fault is a bug: once an input has faulted,
\* the database has it when its iteration is over.
StubsFollowInput ==
    /\ system = "linux" /\ Running => policy = input /\ saved = "default"
    /\ ~Running => policy = "default"
    /\ crashed /\ pc \in {"loop", "done"} => NullDeref \in Keys(db)

\* A run of the bug engine is of its own input alone: processor, wrapped functions, stub
\* policy and kernel are as the run needs them, and as they were once it is over.
RunsAreIsolated == TracedRuns /\ KernelAsFound /\ StubsFollowInput

\* "reuse generic concolic but adapt sendIrp shim to sendFileOp" (linux-engine.mjs): the
\* input that the nested campaign has explored was symbolic, so that there is
\* something to solve for.
AssistIsSymbolic == system = "linux" /\ cpc = "flip" => symbolic
=============================================================================
