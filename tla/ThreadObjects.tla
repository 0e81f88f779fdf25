---------------------------- MODULE ThreadObjects ----------------------------
(***************************************************************************)
(* The rest of createThreadManager (pe-runner/src/threads.mjs) beside the  *)
(* threads and APCs of GuestThreads: thread-local storage, events and      *)
(* mutexes, used by whatever thread or APC routine is running.  Fiber-     *)
(* local storage is the same code on a map of its own.                     *)
(*                                                                         *)
(* A wait, GetExitCodeThread and the reads change nothing of this and are  *)
(* left out: a wait answers from Signalled, and WAIT_OBJECT_0 whatever it  *)
(* says when its timeout is infinite.                                      *)
(***************************************************************************)
EXTENDS GuestThreads

CONSTANTS Names,     \* names of events
          MaxCalls   \* bound: APCs queued and calls to these functions, together

ASSUME ObjectsAssumption == MaxCalls \in Nat

VARIABLES calls,     \* object calls made
          slots,     \* tlsSlots: index -> the threads with a value in the slot
          events,    \* events: handle -> signalled
          names,     \* names: name -> the handle of its event, 0 without one
          mutexes,   \* mutexes: handle -> owner
          stored,    \* history: index -> the threads that stored since it was allocated
          gap,       \* history: a slot was freed while one above it was in use
          reissued,  \* history: the slots that were in use when TlsAlloc gave them out
          said       \* history: name -> what the last call for its event said

ovars == <<calls, slots, events, names, mutexes, stored, gap, reissued, said>>
allVars == <<vars, ovars>>

ObjInit ==
    /\ Init
    /\ calls = 0
    /\ slots = [i \in {} |-> {}] /\ stored = [i \in {} |-> {}]
    /\ gap = FALSE /\ reissued = {}
    /\ events = <<>>
    /\ names = [n \in Names |-> 0] /\ said = [n \in Names |-> FALSE]
    /\ mutexes = <<>>

QueuedApcs == UNION {ToSet(queued[t]) : t \in AllTids}
InBudget == calls + Cardinality(QueuedApcs) < MaxCalls

Call ==
    /\ GuestRuns /\ InBudget
    /\ calls' = calls + 1
    /\ UNCHANGED vars

-----------------------------------------------------------------------------
(* Thread-local storage.                                                   *)

With(f, i, v) == [j \in DOMAIN f \cup {i} |-> IF j = i THEN v ELSE f[j]]
Without(f, i) == [j \in DOMAIN f \ {i} |-> f[j]]

\* Mutant of NextIndex: the index of the last slot is given out again.
NextIndexLast == IF DOMAIN slots = {} THEN 0 ELSE Cardinality(DOMAIN slots) - 1

\* The index is the size of the map, also when a slot below was freed.
NextIndex == Cardinality(DOMAIN slots)

TlsAlloc ==
    /\ Call
    /\ slots' = With(slots, NextIndex, {})
    /\ stored' = IF NextIndex \in DOMAIN stored THEN stored ELSE With(stored, NextIndex, {})
    /\ reissued' = reissued \cup ({NextIndex} \cap DOMAIN slots)
    /\ UNCHANGED <<events, names, mutexes, gap, said>>

TlsSetValue(i) ==
    /\ Call
    /\ i \in DOMAIN slots
    /\ slots' = [slots EXCEPT ![i] = @ \cup {currentTid}]
    /\ stored' = [stored EXCEPT ![i] = @ \cup {currentTid}]
    /\ UNCHANGED <<events, names, mutexes, gap, reissued, said>>

TlsFree(i) ==
    /\ Call
    /\ i \in DOMAIN slots
    /\ slots' = Without(slots, i)
    /\ stored' = Without(stored, i)
    /\ gap' = (gap \/ \E j \in DOMAIN slots : j > i)
    /\ reissued' = reissued \ {i}
    /\ UNCHANGED <<events, names, mutexes, said>>

-----------------------------------------------------------------------------
(* Events and mutexes.                                                     *)

\* The handle a name has already.
Existing(n) == IF n = None THEN 0 ELSE names[n]

\* A name is what the code reads of it: of a wide string, its first character.
\* CreateEvent and OpenEvent, which makes an event that is not there: one event per name,
\* the others have none.
CreateEvent(n, initial) ==
    /\ Call
    /\ IF Existing(n) # 0
       THEN UNCHANGED <<events, names, said>>
       ELSE /\ events' = Append(events, initial)
            /\ names' = IF n = None THEN names ELSE [names EXCEPT ![n] = Len(events')]
            /\ said' = IF n = None \/ names[n] # 0 THEN said ELSE [said EXCEPT ![n] = initial]
    /\ UNCHANGED <<slots, mutexes, stored, gap, reissued>>

\* SetEvent; ResetEvent and PulseEvent.  No wait resets an event.
SignalEvent(e, on) ==
    /\ Call
    /\ events' = [events EXCEPT ![e] = on]
    /\ said' = [n \in Names |-> IF names[n] = e THEN on ELSE said[n]]
    /\ UNCHANGED <<slots, names, mutexes, stored, gap, reissued>>

\* CreateMutex, and OpenMutex, which makes a new one whatever the name.
CreateMutex(owned) ==
    /\ Call
    /\ mutexes' = Append(mutexes, IF owned THEN currentTid ELSE None)
    /\ UNCHANGED <<slots, events, names, stored, gap, reissued, said>>

\* Anyone may release it.  Nothing but CreateMutex ever takes one.
ReleaseMutex(m) ==
    /\ Call
    /\ mutexes' = [mutexes EXCEPT ![m] = None]
    /\ UNCHANGED <<slots, events, names, stored, gap, reissued, said>>

\* isSignalled of a thread, an event, and of a mutex or any other handle
Signalled(kind, h) ==
    CASE kind = "thread" -> threads[h]
      [] kind = "event" -> events[h]
      [] OTHER -> TRUE

ObjectCalls ==
    \/ TlsAlloc \/ \E i \in DOMAIN slots : TlsSetValue(i) \/ TlsFree(i)
    \/ \E n \in Names \cup {None}, on \in BOOLEAN : CreateEvent(n, on)
    \/ \E e \in DOMAIN events, on \in BOOLEAN : SignalEvent(e, on)
    \/ \E owned \in BOOLEAN : CreateMutex(owned)
    \/ \E m \in DOMAIN mutexes : ReleaseMutex(m)

ObjNext ==
    \/ ObjectCalls
    \/ Next /\ (QueuedApcs' = QueuedApcs \/ InBudget) /\ UNCHANGED ovars

\* Routines end: maxSteps bounds every call into the guest.
ObjSpec == ObjInit /\ [][ObjNext]_allVars /\ WF_allVars(HarnessSteps /\ UNCHANGED ovars)

-----------------------------------------------------------------------------
(* Properties.                                                             *)

\* The shape of the state.
ObjTypeOK ==
    /\ TypeOK
    /\ calls \in 0..MaxCalls
    /\ DOMAIN slots \subseteq Nat /\ \A i \in DOMAIN slots : slots[i] \subseteq AllTids
    /\ events \in Seq(BOOLEAN) /\ mutexes \in Seq(AllTids \cup {None})
    /\ names \in [Names -> 0..Len(events)]

\* A thread finds in a slot what it stored there, whatever threads ran in between and
\* whatever slots were made and freed: but for the slots TlsAlloc gave out a second time,
\* which are emptied, and there are none before one was freed under another.
SlotsKept ==
    /\ DOMAIN slots = DOMAIN stored
    /\ \A i \in DOMAIN slots \ reissued : slots[i] = stored[i]
    /\ reissued # {} => gap

\* An event is one object under its name: whoever asks for the name, it is signalled as
\* the last call on it said, whichever thread made that call.
NamedEventsShared ==
    \A n \in Names : names[n] # 0 => Signalled("event", names[n]) = said[n]

\* Objects of the thread manager keep what threads put into them.
ObjectsKeepState == SlotsKept /\ NamedEventsShared
=============================================================================
