---------------------------- MODULE GuestThreads ----------------------------
(***************************************************************************)
(* Guest threads and APCs: createThreadManager of pe-runner/src/threads.mjs*)
(* with the calls pe-runner/src/index.mjs makes into the guest.  There is  *)
(* one CPU and CreateThread runs the new thread's routine to its end       *)
(* before it returns, so what runs is a stack of nested calls: thread      *)
(* routines, alertable waits at work on their APCs, and APC routines.      *)
(* The guest is free to make any call at any time.                         *)
(*                                                                         *)
(* ThreadObjects adds TLS, events and mutexes.  Left out: CreateThread when*)
(* the heap has no room for the stack, which changes nothing.              *)
(***************************************************************************)
EXTENDS Naturals, SequencesExt

CONSTANTS Main,     \* the tid the entry point runs as
          Tids,     \* the tids CreateThread can give out
          Apcs,     \* the APCs the guest queues, each at most once
          None

ASSUME ThreadsAssumption ==
    /\ Main \notin Tids /\ None \notin Tids \cup {Main}

VARIABLES frames,      \* the nested calls, the last one running, each with the tid and
                       \* the registers runThread saved before it
          currentTid,
          regs,        \* the thread whose callee-saved registers the CPU holds
          halted,      \* cpu.halted
          haltedBy,    \* the thread that halted it
          exited,      \* model.exited
          threads,     \* the thread table: tid -> rec.exited
          apcs,        \* tid -> the APCs queued for it
          queued,      \* tid -> every APC ever queued for it
          started      \* tid -> the APCs that were called as that thread

vars == <<frames, currentTid, regs, halted, haltedBy, exited, threads, apcs, queued, started>>

AllTids == Tids \cup {Main}
Frame(kind, tid, prev, saved) == [kind |-> kind, tid |-> tid, prev |-> prev, saved |-> saved]
Top == Last(frames)
Push(f) == frames' = Append(frames, f)
Pop == frames' = Front(frames)

Init ==
    /\ frames = <<Frame("thread", Main, None, None)>>
    /\ currentTid = Main
    /\ regs = Main
    /\ halted = FALSE
    /\ haltedBy = None
    /\ exited = FALSE
    /\ threads = [t \in {} |-> FALSE]
    /\ apcs = [t \in AllTids |-> <<>>]
    /\ queued = [t \in AllTids |-> <<>>]
    /\ started = [t \in AllTids |-> <<>>]

\* Guest code runs: it is in a routine, and the CPU is not halted.
GuestRuns == frames # <<>> /\ Top.kind \in {"thread", "apc"} /\ ~halted

-----------------------------------------------------------------------------
(* What the guest calls.                                                   *)

\* CreateThread, CreateRemoteThread, QueueUserWorkItem: makeThread and the first
\* half of runThread.
CreateThread(t) ==
    /\ GuestRuns
    /\ t \notin DOMAIN threads
    /\ threads' = [u \in DOMAIN threads \cup {t} |-> IF u = t THEN FALSE ELSE threads[u]]
    /\ Push(Frame("thread", t, currentTid, regs))
    /\ currentTid' = t
    /\ regs' = t
    /\ UNCHANGED <<halted, haltedBy, exited, apcs, queued, started>>

ExitThread ==
    /\ GuestRuns
    /\ halted' = TRUE
    /\ haltedBy' = currentTid
    /\ UNCHANGED <<frames, currentTid, regs, exited, threads, apcs, queued, started>>

\* ExitProcess and the CRT's exits.
ExitProcess ==
    /\ GuestRuns
    /\ halted' = TRUE
    /\ haltedBy' = currentTid
    /\ exited' = TRUE
    /\ UNCHANGED <<frames, currentTid, regs, threads, apcs, queued, started>>

\* QueueUserAPC: a handle that is not a thread's stands for the caller.
QueueUserAPC(a, h) ==
    LET t == IF h \in DOMAIN threads THEN h ELSE currentTid IN
    /\ GuestRuns
    /\ \A u \in AllTids : ~Contains(queued[u], a)
    /\ apcs' = [apcs EXCEPT ![t] = Append(@, a)]
    /\ queued' = [queued EXCEPT ![t] = Append(@, a)]
    /\ UNCHANGED <<frames, currentTid, regs, halted, haltedBy, exited, threads, started>>

\* SleepEx, WaitForSingleObjectEx, WaitForMultipleObjectsEx: drainApcs begins,
\* if the caller has any.
AlertableWait ==
    /\ GuestRuns
    /\ apcs[currentTid] # <<>>
    /\ Push(Frame("drain", currentTid, None, None))
    /\ UNCHANGED <<currentTid, regs, halted, haltedBy, exited, threads, apcs, queued, started>>

-----------------------------------------------------------------------------
(* What the harness does around the guest.                                 *)

\* drainApcs calls the next APC of the list.  Whether the CPU, once an APC before
\* it has halted it, runs the routine or comes back at once is up to the CPU.
DrainNext ==
    /\ frames # <<>> /\ Top.kind = "drain" /\ apcs[Top.tid] # <<>>
    /\ apcs' = [apcs EXCEPT ![Top.tid] = Tail(@)]
    /\ started' = [started EXCEPT ![currentTid] = Append(@, Head(apcs[Top.tid]))]
    /\ \/ /\ Push(Frame("apc", currentTid, None, None))
          /\ halted' = FALSE
       \/ halted /\ UNCHANGED <<frames, halted>>
    /\ UNCHANGED <<currentTid, regs, haltedBy, exited, threads, queued>>

\* Mutant of DrainDone: an APC that halts the CPU ends the drain.
DrainDoneOnHalt ==
    /\ frames # <<>> /\ Top.kind = "drain" /\ (halted \/ apcs[Top.tid] = <<>>)
    /\ Pop
    /\ UNCHANGED <<currentTid, regs, halted, haltedBy, exited, threads, apcs, queued, started>>

\* drainApcs is through, and the wait returns.
DrainDone ==
    /\ frames # <<>> /\ Top.kind = "drain" /\ apcs[Top.tid] = <<>>
    /\ Pop
    /\ UNCHANGED <<currentTid, regs, halted, haltedBy, exited, threads, apcs, queued, started>>

\* An APC routine returns, faults or halts; a fault is swallowed.
ApcEnds ==
    /\ frames # <<>> /\ Top.kind = "apc"
    /\ Pop
    /\ UNCHANGED <<currentTid, regs, halted, haltedBy, exited, threads, apcs, queued, started>>

\* Mutant of ThreadEnds: the registers are not restored.
ThreadEndsKeepsRegs ==
    /\ Len(frames) > 1 /\ Top.kind = "thread"
    /\ Pop
    /\ currentTid' = Top.prev
    /\ halted' = FALSE
    /\ threads' = [threads EXCEPT ![Top.tid] = TRUE]
    /\ UNCHANGED <<regs, haltedBy, exited, apcs, queued, started>>

\* runThread's finally: the routine returned, faulted or halted, and the creator
\* goes on with its own registers on a CPU that runs.
ThreadEnds ==
    /\ Len(frames) > 1 /\ Top.kind = "thread"
    /\ Pop
    /\ currentTid' = Top.prev
    /\ regs' = Top.saved
    /\ halted' = FALSE
    /\ threads' = [threads EXCEPT ![Top.tid] = TRUE]
    /\ UNCHANGED <<haltedBy, exited, apcs, queued, started>>

\* Mutant of MainEnds: the entry point is taken off the bottom of the stack,
\* whatever runs on top of it.
MainEndsUnderneath ==
    /\ frames # <<>>
    /\ frames' = Tail(frames)
    /\ UNCHANGED <<currentTid, regs, halted, haltedBy, exited, threads, apcs, queued, started>>

\* The entry point returns, faults or halts: the run is over.
MainEnds ==
    /\ Len(frames) = 1
    /\ frames' = <<>>
    /\ UNCHANGED <<currentTid, regs, halted, haltedBy, exited, threads, apcs, queued, started>>

GuestCalls ==
    \/ \E t \in Tids : CreateThread(t)
    \/ \E a \in Apcs, h \in Tids \cup {None} : QueueUserAPC(a, h)
    \/ ExitThread \/ ExitProcess \/ AlertableWait

HarnessSteps == DrainNext \/ DrainDone \/ ApcEnds \/ ThreadEnds \/ MainEnds

Next == GuestCalls \/ HarnessSteps

Spec == Init /\ [][Next]_vars

\* Routines end: maxSteps bounds every call into the guest.
FairSpec == Spec /\ WF_vars(HarnessSteps)

-----------------------------------------------------------------------------
(* Properties.                                                             *)

\* The shape of the state; a drain or an APC never runs at the bottom.
TypeOK ==
    /\ \A k \in DOMAIN frames : frames[k] \in [kind : {"thread", "drain", "apc"},
                                               tid : AllTids,
                                               prev : AllTids \cup {None},
                                               saved : AllTids \cup {None}]
    /\ frames # <<>> => frames[1] = Frame("thread", Main, None, None)
    /\ currentTid \in AllTids /\ regs \in AllTids
    /\ halted \in BOOLEAN /\ exited \in BOOLEAN
    /\ haltedBy \in AllTids \cup {None}
    /\ DOMAIN threads \subseteq Tids
    /\ \A t \in AllTids : \A k \in DOMAIN apcs[t] : apcs[t][k] \in Apcs

\* Eager scheduling: the threads that have not exited are exactly those with a
\* routine on the stack, once each, so whoever gets a handle from CreateThread
\* finds the thread exited; and the innermost call runs as its thread, with that
\* thread's registers.
EagerNesting ==
    frames # <<>> =>
        /\ \A t \in DOMAIN threads :
             LET on == {k \in DOMAIN frames : frames[k].kind = "thread" /\ frames[k].tid = t}
             IN  IF threads[t] THEN on = {} ELSE \E k \in DOMAIN frames : on = {k}
        /\ currentTid = Top.tid
        /\ regs = Top.tid

\* "a thread calling ExitThread must not kill the world" (threads.mjs): a halted
\* CPU always belongs to the thread that halted it.
ExitStaysInThread == halted /\ frames # <<>> => currentTid = haltedBy

\* Every APC is called at most once, as the thread it was queued for and in the
\* order of the queue, also when APCs queue more, wait again, create threads or
\* exit.
ApcsInOrder == \A t \in AllTids : started[t] \o apcs[t] = queued[t]

\* "alertable waits drain queued APCs": what is queued for a thread that is in an
\* alertable wait is called, whatever the APCs before it do.
WaitDrains ==
    \A t \in AllTids, a \in Apcs :
        (frames # <<>> /\ Top.kind = "drain" /\ Top.tid = t /\ Contains(apcs[t], a))
            ~> Contains(started[t], a)

\* Who runs when: eager nesting, halts that stay with their thread, APCs in order.
CallsNest == EagerNesting /\ ExitStaysInThread /\ ApcsInOrder

\* index.mjs, "ExitProcess halts the CPU": no guest code runs after it.
ExitIsFinal == [][exited => ~GuestRuns']_vars
=============================================================================
