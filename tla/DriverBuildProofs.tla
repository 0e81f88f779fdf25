-------------------------- MODULE DriverBuildProofs --------------------------
(***************************************************************************)
(* For all sets of compile calls and warm-ups: the bridge drops no call,   *)
(* and a compile uses modules that are complete.  When the callers keep    *)
(* one compile open at a time, each gets its own object, and the bridge    *)
(* implements the service its callers see.  The invariant follows the one  *)
(* trace each call leaves: a message, a handler at work, or a reply.       *)
(* The last part is about the linker: for all objects whose fields lie     *)
(* apart, a driver that was loaded is in memory as its sources say.        *)
(***************************************************************************)
EXTENDS DriverBuild, SequenceTheorems, FiniteSetTheorems, NaturalsInduction, WellFoundedInduction, TLAPS

Sent(c) == \E k \in DOMAIN inbox : inbox[k] = c
Replied(c) == \E k \in DOMAIN replies : replies[k].id = c
Working(c) == job[c] \notin {"none", "done"}

\* A call leaves at most one trace, and it moves on from message to handler to reply.
OneTrace ==
    /\ \A i, j \in DOMAIN inbox : inbox[i] = inbox[j] => i = j
    /\ \A i, j \in DOMAIN replies : replies[i].id = replies[j].id => i = j
    /\ \A k \in DOMAIN inbox : job[inbox[k]] = "none"
    /\ \A k \in DOMAIN replies : job[replies[k].id] = "done"

\* Who waits has a trace, and has one as long as the client did not fail only who waits.
Waits ==
    /\ \A c \in Calls : stage[c] = "idle" => job[c] = "none" /\ ~Sent(c)
    /\ \A c \in Calls : stage[c] = "wasm" <=> c \in pending
    /\ \A c \in pending : (job[c] = "none" => Sent(c)) /\ (job[c] = "done" => Replied(c))
    /\ worker = "none" \/ failed => pending = {}
    /\ ~failed => \A c \in Calls : Sent(c) \/ Working(c) \/ Replied(c) => c \in pending

Made == {"lld", "headers", "done"}

\* A clang instance is used when the handler that makes it has it.
Modules ==
    /\ clangMod # None => job[clangMod] \in Made
    /\ \A c \in Calls : inst[c] # None => job[inst[c]] \in Made /\ driverC[inst[c]] # None
    /\ \A c \in Calls : job[c] = "lld" => clangMod # None
    /\ \A c \in Calls : job[c] = "headers" =>
         c \in Compiles /\ inst[c] # None /\ clangMod # None /\ lldMod # None

\* Only a settled call has an outcome, and a reply that settles one has what it asks for.
Settled ==
    /\ \A c \in Calls : stage[c] # "done" => outcome[c] = None
    /\ \A c \in Warmups : stage[c] # "server"
    /\ \A k \in DOMAIN replies : replies[k].ok =>
         IF replies[k].id \in Warmups THEN replies[k].obj = "ready" ELSE replies[k].obj \in Compiles
    /\ IsFiniteSet(Open)

\* With one compile open at a time, what its handler finds in its instance is its own.
Alone == MaxOverlap = 1 =>
    /\ \A c, d \in Open : c = d
    /\ \A c \in pending \cap Compiles : job[c] = "headers" => driverC[inst[c]] = c
    /\ \A k \in DOMAIN replies : replies[k].id \in pending \cap Compiles /\ replies[k].ok =>
         replies[k].obj = replies[k].id
    /\ OwnObject

BridgeInv == TypeOK /\ OneTrace /\ Waits /\ Modules /\ Settled /\ Alone

Replies == [id : Calls, ok : BOOLEAN, obj : Outcomes]

-----------------------------------------------------------------------------
(* Queues.                                                                 *)

LEMMA Element == ASSUME NEW S, NEW s \in Seq(S), NEW k \in DOMAIN s PROVE s[k] \in S
BY LenProperties, ElementOfSeq

\* What is taken from the front of a queue, and where the others are then.
LEMMA Taken ==
    ASSUME NEW S, NEW s \in Seq(S), s # <<>>
    PROVE  /\ Tail(s) \in Seq(S) /\ Head(s) \in S /\ 1 \in DOMAIN s /\ s[1] = Head(s)
           /\ \A k \in DOMAIN Tail(s) : k + 1 \in DOMAIN s /\ Tail(s)[k] = s[k + 1] /\ k \in Nat \ {0}
           /\ \A k \in DOMAIN s : k # 1 => k - 1 \in DOMAIN Tail(s) /\ Tail(s)[k - 1] = s[k]
<1>1. /\ Len(s) \in Nat \ {0} /\ DOMAIN s = 1..Len(s) /\ Head(s) = s[1] /\ Head(s) \in S
      /\ Tail(s) \in Seq(S) /\ Len(Tail(s)) = Len(s) - 1
      /\ \A k \in 1..Len(Tail(s)) : Tail(s)[k] = s[k + 1]
  BY HeadTailProperties, EmptySeq, LenProperties
<1>2. DOMAIN Tail(s) = 1..(Len(s) - 1)
  BY <1>1, LenProperties
<1>3. \A k \in 1..(Len(s) - 1) : k + 1 \in 1..Len(s) /\ Tail(s)[k] = s[k + 1] /\ k \in Nat \ {0}
  BY <1>1
<1>4. ASSUME NEW k \in 1..Len(s), k # 1
      PROVE  k - 1 \in 1..(Len(s) - 1) /\ Tail(s)[k - 1] = s[k]
  <2>1. k - 1 \in 1..(Len(s) - 1) /\ (k - 1) + 1 = k
    BY <1>1, <1>4
  <2> QED BY <2>1, <1>3
<1> QED
  BY <1>1, <1>2, <1>3, <1>4

\* What is put at its end.
LEMMA Put ==
    ASSUME NEW S, NEW s \in Seq(S), NEW e \in S
    PROVE  /\ Append(s, e) \in Seq(S)
           /\ \A k \in DOMAIN s : k \in DOMAIN Append(s, e) /\ Append(s, e)[k] = s[k]
           /\ \A k \in DOMAIN Append(s, e) : k \in DOMAIN s \/ (k = Len(s) + 1 /\ Append(s, e)[k] = e)
           /\ Len(s) + 1 \in DOMAIN Append(s, e) /\ Len(s) + 1 \notin DOMAIN s
           /\ Append(s, e)[Len(s) + 1] = e
<1>1. /\ Append(s, e) \in Seq(S) /\ Len(Append(s, e)) = Len(s) + 1 /\ Len(s) \in Nat
      /\ \A k \in 1..Len(s) : Append(s, e)[k] = s[k]
      /\ Append(s, e)[Len(s) + 1] = e /\ DOMAIN s = 1..Len(s)
  BY AppendProperties, LenProperties
<1>2. DOMAIN Append(s, e) = 1..(Len(s) + 1)
  BY <1>1, LenProperties
<1> QED
  BY <1>1, <1>2

-----------------------------------------------------------------------------
(* Steps of the worker.                                                    *)

\* Every step of a handler moves the trace of its call: it takes the message or is at
\* work already, and it works on or replies.
WorkerStep(c, v, r) ==
    /\ UNCHANGED client
    /\ job' = [job EXCEPT ![c] = v]
    /\ replies' = IF v = "done" THEN Append(replies, r) ELSE replies
    /\ \/ Working(c) /\ UNCHANGED inbox
       \/ inbox # <<>> /\ c = Head(inbox) /\ inbox' = Tail(inbox)

LEMMA TraceMoves ==
    ASSUME CallsAssumption, TypeOK, OneTrace, Waits, NEW c \in Calls,
           NEW v \in {"imports", "clang", "lld", "headers", "done"}, NEW r \in Replies, r.id = c,
           WorkerStep(c, v, r)
    PROVE  /\ inbox' \in Seq(Calls) /\ replies' \in Seq(Replies)
           /\ job' \in [Calls -> {"none", "imports", "clang", "lld", "headers", "done"}]
           /\ OneTrace' /\ Waits'
<1> USE DEF WorkerStep
<1>1. /\ job \in [Calls -> {"none", "imports", "clang", "lld", "headers", "done"}]
      /\ inbox \in Seq(Calls) /\ replies \in Seq(Replies)
  BY DEF TypeOK, Replies
<1>2. /\ job' \in [Calls -> {"none", "imports", "clang", "lld", "headers", "done"}]
      /\ job'[c] = v /\ \A d \in Calls : d # c => job'[d] = job[d]
  BY <1>1
<1>3. job[c] # "done" /\ ~Replied(c)
  <2>1. job[c] # "done"
    BY <1>1, Taken DEF Working, OneTrace
  <2> QED BY <2>1 DEF OneTrace, Replied
<1>4. /\ inbox' \in Seq(Calls) /\ ~Sent(c)' /\ \A d \in Calls : d # c => (Sent(d)' <=> Sent(d))
      /\ \A i, j \in DOMAIN inbox' : inbox'[i] = inbox'[j] => i = j
  <2>1. CASE Working(c) /\ UNCHANGED inbox
    BY <2>1, <1>1 DEF Sent, Working, OneTrace
  <2>2. CASE inbox # <<>> /\ c = Head(inbox) /\ inbox' = Tail(inbox)
    <3>1. /\ inbox' \in Seq(Calls) /\ 1 \in DOMAIN inbox /\ inbox[1] = c
          /\ \A k \in DOMAIN inbox' : k + 1 \in DOMAIN inbox /\ inbox'[k] = inbox[k + 1] /\ k \in Nat \ {0}
          /\ \A k \in DOMAIN inbox : k # 1 => k - 1 \in DOMAIN inbox' /\ inbox'[k - 1] = inbox[k]
      BY <2>2, <1>1, Taken
    <3>2. \A k \in DOMAIN inbox' : inbox'[k] # c
      BY <3>1 DEF OneTrace
    <3>3. \A d \in Calls : d # c => (Sent(d)' <=> Sent(d))
      BY <3>1, SMTT(20) DEF Sent
    <3>4. \A i, j \in DOMAIN inbox' : inbox'[i] = inbox'[j] => i = j
      BY <3>1 DEF OneTrace
    <3> QED BY <3>1, <3>2, <3>3, <3>4 DEF Sent
  <2> QED BY <2>1, <2>2
<1>5. /\ replies' \in Seq(Replies)
      /\ Replied(c)' <=> v = "done"
      /\ \A d \in Calls : d # c => (Replied(d)' <=> Replied(d))
      /\ \A i, j \in DOMAIN replies' : replies'[i].id = replies'[j].id => i = j
  <2>1. CASE v = "done"
    <3>1. /\ replies' \in Seq(Replies)
          /\ \A k \in DOMAIN replies : k \in DOMAIN replies' /\ replies'[k] = replies[k]
          /\ \A k \in DOMAIN replies' : k \in DOMAIN replies \/ (k = Len(replies) + 1 /\ replies'[k] = r)
          /\ Len(replies) + 1 \in DOMAIN replies' /\ replies'[Len(replies) + 1] = r
      BY <2>1, <1>1, Put
    <3>2. \A d \in Calls : d # c => (Replied(d)' <=> Replied(d))
      BY <3>1 DEF Replied
    <3>3. \A i, j \in DOMAIN replies' : replies'[i].id = replies'[j].id => i = j
      BY <3>1, <1>3 DEF OneTrace, Replied
    <3> QED BY <3>1, <3>2, <3>3, <2>1 DEF Replied
  <2>2. CASE v # "done"
    BY <2>2, <1>1, <1>3 DEF Replied, OneTrace
  <2> QED BY <2>1, <2>2
<1>6. \A k \in DOMAIN inbox' : inbox'[k] \in Calls
  BY <1>4, Element
<1>7. \A k \in DOMAIN replies' : replies'[k] \in Replies /\ replies'[k].id \in Calls
  <2>1. ASSUME NEW k \in DOMAIN replies' PROVE replies'[k] \in Replies
    BY <1>5, Element
  <2> QED BY <2>1 DEF Replies
<1>8. \A k \in DOMAIN inbox' : job'[inbox'[k]] = "none"
  <2> SUFFICES ASSUME NEW d \in Calls, Sent(d)' PROVE job'[d] = "none"
    BY <1>6 DEF Sent
  <2> QED BY <1>2, <1>4 DEF OneTrace, Sent
<1>9. \A k \in DOMAIN replies' : job'[replies'[k].id] = "done"
  <2> SUFFICES ASSUME NEW d \in Calls, Replied(d)' PROVE job'[d] = "done"
    BY <1>7 DEF Replied
  <2> QED BY <1>2, <1>5 DEF OneTrace, Replied
<1>10. OneTrace'
  BY <1>4, <1>5, <1>8, <1>9 DEF OneTrace
<1>11. Waits'
  <2>1. stage[c] # "idle" /\ (~failed => c \in pending)
    BY <1>1, Taken DEF Waits, Working, Sent
  <2>2. UNCHANGED <<stage, worker, failed, pending>>
    BY DEF client
  <2>3. ASSUME NEW d \in Calls, stage[d] = "idle" PROVE job'[d] = "none" /\ ~Sent(d)'
    BY <2>1, <2>3, <1>2, <1>4 DEF Waits
  <2>4. ASSUME NEW d \in pending
        PROVE  (job'[d] = "none" => Sent(d)') /\ (job'[d] = "done" => Replied(d)')
    <3>1. d \in Calls
      BY DEF TypeOK
    <3>2. CASE d = c
      BY <3>2, <1>2, <1>5
    <3>3. CASE d # c
      BY <3>1, <3>3, <1>2, <1>4, <1>5 DEF Waits
    <3> QED BY <3>2, <3>3
  <2>5. ASSUME ~failed, NEW d \in Calls, Sent(d)' \/ Working(d)' \/ Replied(d)'
        PROVE  d \in pending
    <3>1. CASE d = c
      BY <3>1, <2>1, <2>5
    <3>2. CASE d # c
      BY <3>2, <2>5, <1>2, <1>4, <1>5 DEF Waits, Working
    <3> QED BY <3>1, <3>2
  <2> QED BY <2>2, <2>3, <2>4, <2>5 DEF Waits
<1> QED
  BY <1>2, <1>4, <1>5, <1>10, <1>11

\* A reply is an old one or the one a handler that ended has put.
LEMMA NewReply ==
    ASSUME TypeOK, NEW c, NEW v, NEW r \in Replies, WorkerStep(c, v, r)
    PROVE  \A k \in DOMAIN replies' :
             \/ k \in DOMAIN replies /\ replies'[k] = replies[k]
             \/ v = "done" /\ replies'[k] = r
<1>1. replies \in Seq(Replies)
  BY DEF TypeOK, Replies
<1>2. CASE v = "done"
  BY <1>1, <1>2, Put DEF WorkerStep
<1>3. CASE v # "done"
  BY <1>3 DEF WorkerStep
<1> QED
  BY <1>2, <1>3

LEMMA ClientUnchanged ==
    ASSUME Settled, UNCHANGED client
    PROVE  /\ \A c \in Calls : stage'[c] # "done" => outcome'[c] = None
           /\ \A c \in Warmups : stage'[c] # "server"
           /\ Open' = Open /\ IsFiniteSet(Open')
BY DEF client, Settled, Open

\* What a step has to show of one open compile when the client does not move.
LEMMA StaysAlone ==
    ASSUME Alone, UNCHANGED client,
           MaxOverlap = 1 =>
             /\ \A c \in pending \cap Compiles : job'[c] = "headers" => driverC'[inst'[c]] = c
             /\ \A k \in DOMAIN replies' : replies'[k].id \in pending \cap Compiles /\ replies'[k].ok =>
                  replies'[k].obj = replies'[k].id
    PROVE  Alone'
<1>1. UNCHANGED <<pending, outcome>> /\ Open' = Open
  BY DEF client, Open
<1>2. MaxOverlap = 1 => OwnObject'
  BY <1>1 DEF Alone, OwnObject
<1> QED
  BY <1>1, <1>2 DEF Alone

\* A handler that waits for the imports, or fails, touches no instance.
LEMMA QuietStep ==
    ASSUME CallsAssumption, BridgeInv, NEW c \in Calls,
           NEW v \in {"imports", "clang", "done"}, v # "done" => job[c] \in {"none", "imports"},
           NEW r \in Replies, r = [id |-> c, ok |-> FALSE, obj |-> None],
           WorkerStep(c, v, r), UNCHANGED <<modules, files>>
    PROVE  BridgeInv'
<1> USE DEF BridgeInv
<1>1. /\ inbox' \in Seq(Calls) /\ replies' \in Seq(Replies)
      /\ job' \in [Calls -> {"none", "imports", "clang", "lld", "headers", "done"}]
      /\ OneTrace' /\ Waits'
  BY TraceMoves
<1>2. UNCHANGED <<stage, outcome, wasmBroken, worker, failed, pending, clangMod, lldMod,
                  inst, driverC, driverObj>>
  BY DEF WorkerStep, client, modules, files
<1>3. job'[c] = v /\ \A d \in Calls : d # c => job'[d] = job[d]
  BY DEF WorkerStep, TypeOK
<1>4. \A k \in DOMAIN replies' : replies'[k].ok => k \in DOMAIN replies /\ replies'[k] = replies[k]
  BY NewReply
<1>5. TypeOK'
  BY <1>1, <1>2 DEF TypeOK, Replies
<1>6. Modules'
  BY <1>2, <1>3 DEF Modules, Made, TypeOK, MaybeCall
<1>7. Settled'
  BY <1>2, <1>4, ClientUnchanged DEF Settled, client
<1>8. Alone'
  <2>1. MaxOverlap = 1 => \A d \in pending \cap Compiles : job'[d] = "headers" => driverC'[inst'[d]] = d
    BY <1>2, <1>3 DEF Alone, TypeOK
  <2>2. MaxOverlap = 1 =>
          \A k \in DOMAIN replies' : replies'[k].id \in pending \cap Compiles /\ replies'[k].ok =>
              replies'[k].obj = replies'[k].id
    BY <1>4 DEF Alone
  <2> QED BY <2>1, <2>2, StaysAlone DEF WorkerStep
<1> QED
  BY <1>1, <1>5, <1>6, <1>7, <1>8

\* A handler that made an instance sets it, also when another one has.
LEMMA ClangStep ==
    ASSUME CallsAssumption, BridgeInv, NEW c \in Calls, NEW r \in Replies, r.id = c,
           WorkerStep(c, "lld", r), job[c] = "clang", clangMod' = c, UNCHANGED <<lldMod, files>>
    PROVE  BridgeInv'
<1> USE DEF BridgeInv
<1>1. /\ inbox' \in Seq(Calls) /\ replies' \in Seq(Replies)
      /\ job' \in [Calls -> {"none", "imports", "clang", "lld", "headers", "done"}]
      /\ OneTrace' /\ Waits'
  BY TraceMoves
<1>2. UNCHANGED <<stage, outcome, wasmBroken, worker, failed, pending, lldMod, replies,
                  inst, driverC, driverObj>>
  BY DEF WorkerStep, client, files
<1>3. job'[c] = "lld" /\ \A d \in Calls : d # c => job'[d] = job[d]
  BY DEF WorkerStep, TypeOK
<1>4. TypeOK'
  BY <1>1, <1>2 DEF TypeOK, Replies, MaybeCall
<1>5. Modules'
  BY <1>2, <1>3, CallsAssumption DEF Modules, Made, TypeOK, MaybeCall, CallsAssumption
<1>6. Settled'
  BY <1>2, ClientUnchanged DEF Settled, client
<1>7. Alone'
  <2>1. MaxOverlap = 1 => \A d \in pending \cap Compiles : job'[d] = "headers" => driverC'[inst'[d]] = d
    BY <1>2, <1>3 DEF Alone, TypeOK
  <2>2. MaxOverlap = 1 =>
          \A k \in DOMAIN replies' : replies'[k].id \in pending \cap Compiles /\ replies'[k].ok =>
              replies'[k].obj = replies'[k].id
    BY <1>2 DEF Alone
  <2> QED BY <2>1, <2>2, StaysAlone DEF WorkerStep
<1> QED
  BY <1>1, <1>4, <1>5, <1>6, <1>7

\* getModules returns to a handler: a warm-up replies, a compile writes its source.
LEMMA ModulesStep ==
    ASSUME CallsAssumption, BridgeInv, NEW c \in Calls,
           clangMod # None, lldMod' # None, lldMod' \in MaybeCall, UNCHANGED clangMod,
           ModulesReturned(c), UNCHANGED client,
           \/ Working(c) /\ UNCHANGED inbox
           \/ inbox # <<>> /\ c = Head(inbox) /\ inbox' = Tail(inbox)
    PROVE  BridgeInv'
<1> USE DEF BridgeInv
<1> DEFINE r == [id |-> c, ok |-> TRUE, obj |-> "ready"]
           v == IF c \in Warmups THEN "done" ELSE "headers"
<1>1. r \in Replies /\ r.id = c
  BY DEF Replies, Outcomes
<1>2. WorkerStep(c, v, r)
  BY DEF WorkerStep, ModulesReturned, Reply
<1>3. /\ inbox' \in Seq(Calls) /\ replies' \in Seq(Replies)
      /\ job' \in [Calls -> {"none", "imports", "clang", "lld", "headers", "done"}]
      /\ OneTrace' /\ Waits'
  BY <1>1, <1>2, TraceMoves
<1>4. job'[c] = v /\ \A d \in Calls : d # c => job'[d] = job[d]
  BY <1>2 DEF WorkerStep, TypeOK
<1>5. UNCHANGED <<stage, outcome, wasmBroken, worker, failed, pending, driverObj>>
  BY DEF client, files, ModulesReturned
<1>6. clangMod \in Calls /\ job[clangMod] \in Made
  BY DEF Modules, TypeOK, MaybeCall
<1>7. \A k \in DOMAIN replies' :
         \/ k \in DOMAIN replies /\ replies'[k] = replies[k]
         \/ c \in Warmups /\ replies'[k] = r
  BY <1>1, <1>2, NewReply
<1> HIDE DEF r, v
<1>8. CASE c \in Warmups
  <2>1. UNCHANGED <<inst, driverC>> /\ v = "done" /\ r.ok /\ r.id = c /\ r.obj = "ready"
    BY <1>8 DEF ModulesReturned, files, v, r
  <2>2. TypeOK'
    BY <1>3, <1>5, <2>1 DEF TypeOK, Replies
  <2>3. Modules'
    BY <1>4, <2>1 DEF Modules, Made, TypeOK, MaybeCall
  <2>4. Settled'
    BY <1>5, <1>7, <1>8, <2>1, ClientUnchanged DEF Settled
  <2>5. Alone'
    <3>1. MaxOverlap = 1 => \A d \in pending \cap Compiles : job'[d] = "headers" => driverC'[inst'[d]] = d
      BY <1>4, <2>1 DEF Alone, TypeOK
    <3>2. MaxOverlap = 1 =>
            \A k \in DOMAIN replies' : replies'[k].id \in pending \cap Compiles /\ replies'[k].ok =>
                replies'[k].obj = replies'[k].id
      BY <1>7, <1>8, <2>1, CallsAssumption DEF Alone, CallsAssumption
    <3> QED BY <3>1, <3>2, StaysAlone
  <2> QED BY <1>3, <2>2, <2>3, <2>4, <2>5
<1>9. CASE c \notin Warmups
  <2>1. c \in Compiles /\ v = "headers"
    BY <1>9 DEF v, Calls
  <2>2. inst' = [inst EXCEPT ![c] = clangMod] /\ driverC' = [driverC EXCEPT ![clangMod] = c]
    BY <1>9 DEF ModulesReturned
  <2>3. /\ inst' \in [Calls -> MaybeCall] /\ inst'[c] = clangMod
        /\ \A d \in Calls : d # c => inst'[d] = inst[d]
        /\ driverC' \in [Calls -> Compiles \cup {None}] /\ driverC'[clangMod] = c
        /\ \A i \in Calls : i # clangMod => driverC'[i] = driverC[i]
    BY <2>1, <2>2, <1>6 DEF TypeOK, MaybeCall
  <2>4. TypeOK'
    BY <1>3, <1>5, <2>3 DEF TypeOK, Replies
  <2>5. Modules'
    <3>1. ASSUME NEW d \in Calls, inst'[d] # None
          PROVE  job'[inst'[d]] \in Made /\ driverC'[inst'[d]] # None
      <4>1. job'[clangMod] \in Made /\ c # None
        BY <1>4, <1>6, <2>1, CallsAssumption DEF Made, CallsAssumption
      <4>2. CASE inst'[d] = clangMod
        BY <4>1, <4>2, <2>3
      <4>3. CASE inst'[d] # clangMod
        <5>1. inst'[d] = inst[d] /\ inst[d] \in Calls
          BY <3>1, <4>3, <2>3 DEF TypeOK, MaybeCall
        <5> QED BY <5>1, <4>3, <3>1, <2>1, <2>3, <1>4 DEF Modules, Made
      <4> QED BY <4>2, <4>3
    <3> QED BY <3>1, <1>4, <1>6, <2>1, <2>3 DEF Modules, Made
  <2>6. Settled'
    BY <1>5, <1>7, <1>9, ClientUnchanged DEF Settled
  <2>7. Alone'
    <3> SUFFICES ASSUME MaxOverlap = 1 PROVE Alone'
      BY DEF Alone
    <3>1. ASSUME NEW d \in pending \cap Compiles, job'[d] = "headers"
          PROVE  driverC'[inst'[d]] = d
      <4>1. d \in Open /\ ~failed
        BY DEF Open, Waits, TypeOK
      <4>2. c \in pending
        BY <4>1, <1>2, Taken DEF Waits, WorkerStep, Sent, TypeOK
      <4>3. c \in Open
        BY <4>2, <2>1 DEF Open, Waits
      <4>4. c = d
        BY <4>1, <4>3 DEF Alone
      <4> QED BY <4>4, <2>3
    <3>2. \A k \in DOMAIN replies' : replies'[k].id \in pending \cap Compiles /\ replies'[k].ok =>
              replies'[k].obj = replies'[k].id
      BY <1>7, <1>9 DEF Alone
    <3> QED BY <3>1, <3>2, StaysAlone
  <2> QED BY <1>3, <2>4, <2>5, <2>6, <2>7
<1> QED
  BY <1>8, <1>9

\* clang compiled what its instance holds.
LEMMA CompileStep ==
    ASSUME CallsAssumption, BridgeInv, NEW c \in Calls, job[c] = "headers",
           driverC[inst[c]] \notin Bad, RunClang(c), UNCHANGED <<client, inbox>>
    PROVE  BridgeInv'
<1> USE DEF BridgeInv
<1> DEFINE i == inst[c]  r == [id |-> c, ok |-> TRUE, obj |-> driverC[i]]
<1>1. /\ c \in Compiles /\ i \in Calls /\ driverC[i] \in Compiles \ Bad
  BY DEF Modules, TypeOK, MaybeCall
<1>2. r \in Replies /\ r.id = c
  BY <1>1 DEF Replies, Outcomes, Calls
<1>3. /\ driverObj' = [driverObj EXCEPT ![i] = driverC[i]]
      /\ replies' = Append(replies, r) /\ job' = [job EXCEPT ![c] = "done"]
      /\ UNCHANGED <<clangMod, lldMod, inst, driverC>>
  BY DEF RunClang, Reply, modules
<1>4. WorkerStep(c, "done", r)
  BY <1>3 DEF WorkerStep, Working
<1>5. /\ inbox' \in Seq(Calls) /\ replies' \in Seq(Replies)
      /\ job' \in [Calls -> {"none", "imports", "clang", "lld", "headers", "done"}]
      /\ OneTrace' /\ Waits'
  BY <1>2, <1>4, TraceMoves
<1>6. job'[c] = "done" /\ \A d \in Calls : d # c => job'[d] = job[d]
  BY <1>3 DEF TypeOK
<1>7. UNCHANGED <<stage, outcome, wasmBroken, worker, failed, pending>>
  BY DEF client
<1>8. \A k \in DOMAIN replies' :
         (k \in DOMAIN replies /\ replies'[k] = replies[k]) \/ replies'[k] = r
  BY <1>2, <1>4, NewReply
<1>9. driverObj' \in [Calls -> (Compiles \ Bad) \cup {None}]
  BY <1>1, <1>3 DEF TypeOK
<1>10. r.ok /\ r.id = c /\ r.obj = driverC[inst[c]]
  OBVIOUS
<1> HIDE DEF i, r
<1>11. TypeOK'
  BY <1>3, <1>5, <1>7, <1>9 DEF TypeOK, Replies
<1>12. Modules'
  BY <1>3, <1>6 DEF Modules, Made, TypeOK, MaybeCall
<1>13. Settled'
  <2>1. c \notin Warmups /\ r.obj \in Compiles
    BY <1>1, <1>10, CallsAssumption DEF i, CallsAssumption
  <2> QED BY <2>1, <1>7, <1>8, <1>10, ClientUnchanged DEF Settled
<1>14. Alone'
  <2>1. MaxOverlap = 1 => \A d \in pending \cap Compiles : job'[d] = "headers" => driverC'[inst'[d]] = d
    BY <1>3, <1>6 DEF Alone, TypeOK
  <2>2. MaxOverlap = 1 =>
          \A k \in DOMAIN replies' : replies'[k].id \in pending \cap Compiles /\ replies'[k].ok =>
              replies'[k].obj = replies'[k].id
    BY <1>8, <1>10 DEF Alone
  <2> QED BY <2>1, <2>2, StaysAlone
<1> QED
  BY <1>5, <1>11, <1>12, <1>13, <1>14

LEMMA JobStepsKeep ==
    ASSUME CallsAssumption, BridgeInv, NEW c \in Calls, JobSteps(c)
    PROVE  BridgeInv'
<1> DEFINE failure == [id |-> c, ok |-> FALSE, obj |-> None]
<1>1. failure \in Replies /\ failure.id = c
  BY DEF Replies, Outcomes
<1>2. Working(c) /\ UNCHANGED <<client, inbox>>
  BY DEF JobSteps, Imported, ClangReady, LldReady, HeadersReady, Working
<1>3. CASE Fails(c)
  <2>1. WorkerStep(c, "done", failure)
    BY <1>2, <1>3 DEF WorkerStep, Fails, Reply
  <2> QED BY <2>1, <1>1, <1>3, QuietStep DEF Fails
<1>4. CASE Imported(c) /\ ~Fails(c)
  <2>1. WorkerStep(c, "clang", failure)
    BY <1>2, <1>4 DEF WorkerStep, Imported
  <2> QED BY <2>1, <1>1, <1>4, QuietStep DEF Imported
<1>5. CASE ClangReady(c) /\ ~Fails(c)
  <2>1. WorkerStep(c, "lld", failure)
    BY <1>2, <1>5 DEF WorkerStep, ClangReady
  <2> QED BY <2>1, <1>1, <1>5, ClangStep DEF ClangReady
<1>6. CASE LldReady(c) /\ ~Fails(c)
  <2>1. clangMod # None /\ c # None /\ c \in MaybeCall
    BY <1>6, CallsAssumption DEF BridgeInv, Modules, LldReady, CallsAssumption, MaybeCall
  <2> QED BY <2>1, <1>2, <1>6, ModulesStep DEF LldReady
<1>7. CASE HeadersReady(c) /\ ~Fails(c)
  BY <1>2, <1>7, CompileStep DEF HeadersReady, RunClang
<1> QED
  BY <1>3, <1>4, <1>5, <1>6, <1>7 DEF JobSteps

LEMMA TakeMessageKeeps == ASSUME CallsAssumption, BridgeInv, TakeMessage PROVE BridgeInv'
<1> DEFINE failure == [id |-> Head(inbox), ok |-> FALSE, obj |-> None]
<1>1. /\ inbox # <<>> /\ Head(inbox) \in Calls /\ job[Head(inbox)] = "none"
      /\ inbox' = Tail(inbox) /\ UNCHANGED <<client, modules>>
  BY Taken DEF TakeMessage, BridgeInv, TypeOK, OneTrace
<1>2. PICK c \in Calls : c = Head(inbox)
  BY <1>1
<1>3. failure \in Replies /\ failure.id = c
  BY <1>2 DEF Replies, Outcomes
<1>4. CASE ModulesMissing
  <2>1. WorkerStep(c, "imports", failure) /\ UNCHANGED <<modules, files>>
    BY <1>1, <1>2, <1>4 DEF WorkerStep, TakeMessage
  <2> QED BY <2>1, <1>1, <1>2, <1>3, QuietStep
<1>5. CASE ~ModulesMissing
  BY <1>1, <1>2, <1>5, ModulesStep DEF TakeMessage, ModulesMissing, modules, BridgeInv, TypeOK
<1> QED
  BY <1>4, <1>5

-----------------------------------------------------------------------------
(* Steps of the callers and of the client.                                 *)

\* A call that may be made is the only open compile when there is room for one.
LEMMA OpensOne ==
    ASSUME Settled, NEW c \in Calls, MayCall(c)
    PROVE  /\ stage[c] = "idle" /\ IsFiniteSet(Open \cup {c})
           /\ c \in Compiles /\ MaxOverlap = 1 => Open = {}
<1>1. IsFiniteSet(Open) /\ IsFiniteSet(Open \cup {c}) /\ Cardinality(Open) \in Nat
  BY FS_AddElement, FS_CardinalityType DEF Settled
<1>2. c \in Compiles /\ MaxOverlap = 1 => Cardinality(Open) = 0
  BY <1>1 DEF MayCall
<1> QED
  BY <1>1, <1>2, FS_EmptySet DEF MayCall

\* A call of the server, or one the client refuses, sends nothing to the worker.
LEMMA NothingSent ==
    ASSUME CallsAssumption, BridgeInv, NEW c \in Calls, MayCall(c),
           stage' = [stage EXCEPT ![c] = IF c \in Compiles THEN "server" ELSE "done"],
           outcome' \in [Calls -> Outcomes],
           \A d \in Calls : outcome'[d] = IF d = c /\ c \in Warmups THEN "unavailable" ELSE outcome[d],
           wasmBroken' \in BOOLEAN, failed' \in BOOLEAN, failed => failed', failed' => pending = {},
           UNCHANGED <<worker, pending, inbox, replies, job, modules, files>>
    PROVE  BridgeInv'
<1> USE DEF BridgeInv
<1>1. /\ stage[c] = "idle" /\ IsFiniteSet(Open \cup {c}) /\ (c \in Compiles /\ MaxOverlap = 1 => Open = {})
  BY OpensOne
<1>2. /\ stage'[c] = IF c \in Compiles THEN "server" ELSE "done"
      /\ \A d \in Calls : d # c => stage'[d] = stage[d]
      /\ stage' \in [Calls -> {"idle", "wasm", "server", "done"}]
  BY DEF TypeOK
<1>3. UNCHANGED <<worker, pending, inbox, replies, job, clangMod, lldMod, inst, driverC, driverObj>>
  BY DEF modules, files
<1>4. TypeOK'
  BY <1>2, <1>3 DEF TypeOK
<1>5. OneTrace' /\ Modules'
  BY <1>3 DEF OneTrace, Modules
<1>6. Waits'
  <2>1. \A d \in Calls : Sent(d)' = Sent(d) /\ Replied(d)' = Replied(d) /\ Working(d)' = Working(d)
    BY <1>3 DEF Sent, Replied, Working
  <2>2. \A d \in Calls : stage'[d] = "idle" => stage[d] = "idle"
    BY <1>1
  <2>3. \A d \in Calls : stage'[d] = "wasm" <=> stage[d] = "wasm"
    BY <1>1, <1>2
  <2>4. \A d \in pending : d \in Calls
    BY DEF TypeOK
  <2> QED BY <1>3, <2>1, <2>2, <2>3, <2>4 DEF Waits
<1>7. Open' \subseteq Open \cup {c} /\ (c \notin Compiles => Open' \subseteq Open)
  BY <1>2 DEF Open, Calls
<1>8. Settled'
  <2>1. IsFiniteSet(Open')
    BY <1>1, <1>7, FS_Subset
  <2>2. \A d \in Warmups : stage'[d] # "server"
    BY <1>2, CallsAssumption DEF Settled, Calls, CallsAssumption
  <2>3. \A d \in Calls : stage'[d] # "done" => outcome'[d] = None
    <3>1. c \in Warmups => stage'[c] = "done"
      BY <1>2, CallsAssumption DEF CallsAssumption
    <3> QED BY <3>1, <1>1, <1>2 DEF Settled
  <2> QED BY <2>1, <2>2, <2>3, <1>3 DEF Settled
<1>9. Alone'
  <2>1. MaxOverlap = 1 => \A d, e \in Open' : d = e
    BY <1>1, <1>7 DEF Alone
  <2>2. OwnObject => OwnObject'
    BY CallsAssumption DEF OwnObject, Calls, CallsAssumption
  <2> QED BY <2>1, <2>2, <1>3 DEF Alone
<1> QED
  BY <1>4, <1>5, <1>6, <1>8, <1>9

LEMMA RefusalsKeep ==
    ASSUME CallsAssumption, BridgeInv, NEW c \in Calls,
           CallServer(c) \/ CallRefused(c) \/ CallSpawnFails(c)
    PROVE  BridgeInv'
<1>1. MayCall(c) /\ UNCHANGED <<worker, pending, inbox, replies, job, modules, files>>
  BY DEF CallServer, CallRefused, CallSpawnFails, TriesWorker
<1>2. CASE CallServer(c)
  <2>1. stage' = [stage EXCEPT ![c] = IF c \in Compiles THEN "server" ELSE "done"]
    BY <1>2 DEF CallServer
  <2>2. /\ UNCHANGED <<outcome, wasmBroken, failed>> /\ c \notin Warmups
        /\ outcome \in [Calls -> Outcomes] /\ wasmBroken \in BOOLEAN /\ failed \in BOOLEAN
        /\ failed => pending = {}
    BY <1>2, CallsAssumption DEF CallServer, CallsAssumption, BridgeInv, TypeOK, Waits
  <2> QED BY <1>1, <2>1, <2>2, NothingSent
<1>3. CASE CallRefused(c) \/ CallSpawnFails(c)
  <2>1. Unavailable({c})
    BY <1>3 DEF CallRefused, CallSpawnFails
  <2>2. stage' = [stage EXCEPT ![c] = IF c \in Compiles THEN "server" ELSE "done"]
    BY <2>1 DEF Unavailable, BridgeInv, TypeOK
  <2>3. /\ outcome' \in [Calls -> Outcomes] /\ wasmBroken' \in BOOLEAN
        /\ \A d \in Calls : outcome'[d] = IF d = c /\ c \in Warmups THEN "unavailable" ELSE outcome[d]
    BY <2>1 DEF Unavailable, BridgeInv, TypeOK, Outcomes
  <2>4. failed' \in BOOLEAN /\ (failed => failed') /\ (failed' => pending = {})
    BY <1>3 DEF CallRefused, CallSpawnFails, BridgeInv, TypeOK, Waits
  <2> QED BY <1>1, <2>2, <2>3, <2>4, NothingSent
<1> QED
  BY <1>2, <1>3

LEMMA CallPostsKeeps ==
    ASSUME CallsAssumption, BridgeInv, NEW c \in Calls, CallPosts(c)
    PROVE  BridgeInv'
<1> USE DEF BridgeInv
<1>1. /\ stage[c] = "idle" /\ IsFiniteSet(Open \cup {c}) /\ (c \in Compiles /\ MaxOverlap = 1 => Open = {})
  BY OpensOne DEF CallPosts, TriesWorker
<1>2. /\ stage'[c] = "wasm" /\ \A d \in Calls : d # c => stage'[d] = stage[d]
      /\ stage' \in [Calls -> {"idle", "wasm", "server", "done"}]
  BY DEF TypeOK, CallPosts
<1>3. /\ UNCHANGED <<outcome, wasmBroken, failed, replies, job, clangMod, lldMod, inst, driverC, driverObj>>
      /\ pending' = pending \cup {c} /\ ~failed /\ worker' # "none"
      /\ worker' \in {"none", "loading", "running", "dead"}
  BY DEF modules, files, CallPosts, TypeOK
<1>4. job[c] = "none" /\ ~Sent(c) /\ c \notin pending
  BY <1>1 DEF Waits
<1>5. /\ inbox' \in Seq(Calls)
      /\ \A k \in DOMAIN inbox : k \in DOMAIN inbox' /\ inbox'[k] = inbox[k]
      /\ \A k \in DOMAIN inbox' : k \in DOMAIN inbox \/ (k = Len(inbox) + 1 /\ inbox'[k] = c)
      /\ Len(inbox) + 1 \in DOMAIN inbox' /\ inbox'[Len(inbox) + 1] = c
  BY Put DEF CallPosts, TypeOK
<1>6. TypeOK'
  BY <1>2, <1>3, <1>5 DEF TypeOK
<1>7. OneTrace'
  <2>1. \A i, j \in DOMAIN inbox' : inbox'[i] = inbox'[j] => i = j
    BY <1>4, <1>5 DEF OneTrace, Sent
  <2>2. \A k \in DOMAIN inbox' : job[inbox'[k]] = "none"
    BY <1>4, <1>5 DEF OneTrace
  <2> QED BY <2>1, <2>2, <1>3 DEF OneTrace
<1>8. Waits'
  <2>1. \A d \in Calls : Replied(d)' = Replied(d) /\ Working(d)' = Working(d)
    BY <1>3 DEF Replied, Working
  <2>2. \A d \in Calls : Sent(d)' <=> Sent(d) \/ d = c
    BY <1>5 DEF Sent
  <2>3. \A d \in pending : d \in Calls
    BY DEF TypeOK
  <2>4. \A d \in Calls : stage'[d] = "idle" => job'[d] = "none" /\ ~Sent(d)'
    BY <1>2, <1>3, <2>2 DEF Waits
  <2>5. \A d \in Calls : stage'[d] = "wasm" <=> d \in pending'
    BY <1>2, <1>3, <1>4 DEF Waits
  <2>6. \A d \in pending' : (job'[d] = "none" => Sent(d)') /\ (job'[d] = "done" => Replied(d)')
    BY <1>3, <1>4, <2>1, <2>2, <2>3 DEF Waits
  <2>7. \A d \in Calls : Sent(d)' \/ Working(d)' \/ Replied(d)' => d \in pending'
    BY <1>3, <2>1, <2>2 DEF Waits
  <2> QED BY <1>3, <2>4, <2>5, <2>6, <2>7 DEF Waits
<1>9. Modules'
  BY <1>3 DEF Modules
<1>10. Open' \subseteq Open \cup {c} /\ (c \notin Compiles => Open' \subseteq Open)
  BY <1>2 DEF Open, Calls
<1>11. Settled'
  <2>1. IsFiniteSet(Open')
    BY <1>1, <1>10, FS_Subset
  <2> QED BY <2>1, <1>1, <1>2, <1>3, CallsAssumption DEF Settled, Calls
<1>12. Alone'
  <2>1. MaxOverlap = 1 => \A d, e \in Open' : d = e
    BY <1>1, <1>10 DEF Alone
  <2>2. \A k \in DOMAIN replies : replies[k].id # c
    BY <1>4 DEF OneTrace
  <2>3. \A d \in pending' : job[d] = "headers" => d \in pending
    BY <1>3, <1>4
  <2> QED BY <2>1, <2>2, <2>3, <1>3 DEF Alone, OwnObject
<1> QED
  BY <1>6, <1>7, <1>8, <1>9, <1>11, <1>12

LEMMA OnErrorKeeps == ASSUME CallsAssumption, BridgeInv, OnError PROVE BridgeInv'
<1> USE DEF BridgeInv
<1>1. /\ UNCHANGED <<inbox, replies, job, clangMod, lldMod, inst, driverC, driverObj>>
      /\ pending' = {} /\ failed' = TRUE /\ worker' \in {"none", "loading", "running", "dead"}
  BY DEF OnError, modules, files, TypeOK
<1>2. \A d \in Calls : /\ d \in pending <=> stage[d] = "wasm"
                       /\ d \notin pending => stage'[d] = stage[d] /\ outcome'[d] = outcome[d]
                       /\ d \in pending /\ d \in Compiles => stage'[d] = "server" /\ outcome'[d] = outcome[d]
                       /\ d \in pending /\ d \notin Compiles => stage'[d] = "done" /\ outcome'[d] = "unavailable"
  BY CallsAssumption DEF OnError, Unavailable, Waits, Calls, CallsAssumption
<1>3. /\ stage' \in [Calls -> {"idle", "wasm", "server", "done"}] /\ outcome' \in [Calls -> Outcomes]
      /\ wasmBroken' \in BOOLEAN
  BY DEF OnError, Unavailable, TypeOK, Outcomes
<1>4. TypeOK'
  BY <1>1, <1>3 DEF TypeOK
<1>5. OneTrace' /\ Modules'
  BY <1>1 DEF OneTrace, Modules
<1>6. Waits'
  <2>1. \A d \in Calls : Sent(d)' = Sent(d)
    BY <1>1 DEF Sent
  <2>2. \A d \in Calls : stage'[d] # "wasm" /\ (stage'[d] = "idle" => stage[d] = "idle")
    BY <1>2
  <2> QED BY <1>1, <2>1, <2>2 DEF Waits
<1>7. Open' = Open
  BY <1>2 DEF Open, Calls
<1>8. Settled'
  BY <1>1, <1>2, <1>7, CallsAssumption DEF Settled, Calls, CallsAssumption
<1>9. Alone'
  <2>1. OwnObject => OwnObject'
    BY <1>2 DEF OwnObject, Calls
  <2> QED BY <1>1, <1>7, <2>1 DEF Alone
<1> QED
  BY <1>4, <1>5, <1>6, <1>8, <1>9

LEMMA ServerAnswersKeeps ==
    ASSUME CallsAssumption, BridgeInv, NEW c \in Calls, ServerAnswers(c)
    PROVE  BridgeInv'
<1> USE DEF BridgeInv
<1>1. /\ UNCHANGED <<worker, failed, pending, wasmBroken, inbox, replies, job, clangMod, lldMod,
                     inst, driverC, driverObj>>
      /\ stage[c] = "server" /\ c \in Compiles
  BY DEF ServerAnswers, modules, files, Settled, Calls
<1>2. /\ stage'[c] = "done" /\ outcome'[c] \in {c, "error"}
      /\ \A d \in Calls : d # c => stage'[d] = stage[d] /\ outcome'[d] = outcome[d]
      /\ stage' \in [Calls -> {"idle", "wasm", "server", "done"}] /\ outcome' \in [Calls -> Outcomes]
  BY <1>1 DEF ServerAnswers, TypeOK, Outcomes
<1>3. TypeOK'
  BY <1>1, <1>2 DEF TypeOK
<1>4. OneTrace' /\ Modules'
  BY <1>1 DEF OneTrace, Modules
<1>5. Waits'
  <2>1. \A d \in Calls : Sent(d)' = Sent(d) /\ Replied(d)' = Replied(d) /\ Working(d)' = Working(d)
    BY <1>1 DEF Sent, Replied, Working
  <2>2. \A d \in Calls : /\ stage'[d] = "wasm" <=> stage[d] = "wasm"
                         /\ stage'[d] = "idle" => stage[d] = "idle"
    BY <1>1, <1>2
  <2>3. \A d \in pending : d \in Calls
    BY DEF TypeOK
  <2> QED BY <1>1, <2>1, <2>2, <2>3 DEF Waits
<1>6. Open' \subseteq Open
  BY <1>2 DEF Open, Calls
<1>7. Settled'
  <2>1. IsFiniteSet(Open')
    BY <1>6, FS_Subset DEF Settled
  <2> QED BY <2>1, <1>1, <1>2 DEF Settled, Calls
<1>8. Alone'
  <2>1. OwnObject => OwnObject'
    BY <1>2, CallsAssumption DEF OwnObject, Calls, CallsAssumption
  <2> QED BY <1>1, <1>6, <2>1 DEF Alone
<1> QED
  BY <1>3, <1>4, <1>5, <1>7, <1>8

LEMMA WorkerLoadsKeeps == ASSUME BridgeInv, WorkerLoads PROVE BridgeInv'
<1> USE DEF BridgeInv
<1>1. /\ UNCHANGED <<stage, outcome, wasmBroken, failed, pending, inbox, replies, job,
                     clangMod, lldMod, inst, driverC, driverObj>>
      /\ worker' = "running"
  BY DEF WorkerLoads, modules, files
<1>2. TypeOK' /\ OneTrace' /\ Modules'
  BY <1>1 DEF TypeOK, OneTrace, Modules
<1>3. Waits'
  BY <1>1 DEF Waits, Sent, Replied, Working
<1>4. Settled' /\ Alone'
  BY <1>1 DEF Settled, Alone, Open, OwnObject
<1> QED
  BY <1>2, <1>3, <1>4

LEMMA OnMessageKeeps == ASSUME CallsAssumption, BridgeInv, OnMessage PROVE BridgeInv'
<1> USE DEF BridgeInv
<1> DEFINE r0 == Head(replies)
<1>1. /\ UNCHANGED <<worker, failed, inbox, job, clangMod, lldMod, inst, driverC, driverObj>>
      /\ replies' = Tail(replies) /\ replies # <<>> /\ replies \in Seq(Replies)
  BY DEF OnMessage, modules, files, TypeOK, Replies
<1>2. /\ replies' \in Seq(Replies) /\ r0 \in Replies /\ 1 \in DOMAIN replies /\ replies[1] = r0
      /\ \A k \in DOMAIN replies' : k + 1 \in DOMAIN replies /\ replies'[k] = replies[k + 1] /\ k \in Nat \ {0}
      /\ \A k \in DOMAIN replies : k # 1 => k - 1 \in DOMAIN replies' /\ replies'[k - 1] = replies[k]
  BY <1>1, Taken
<1>3. PICK r \in Replies : r = r0
  BY <1>2
<1>4. PICK c \in Calls : c = r.id
  BY DEF Replies
<1>5. /\ job[c] = "done" /\ Replied(c) /\ ~Replied(c)' /\ ~Sent(c)
      /\ \A d \in Calls : d # c => (Replied(d)' <=> Replied(d))
      /\ \A i, j \in DOMAIN replies' : replies'[i].id = replies'[j].id => i = j
  <2>1. job[c] = "done" /\ Replied(c)
    BY <1>2, <1>3, <1>4 DEF OneTrace, Replied
  <2>2. ~Replied(c)'
    BY <1>2, <1>3, <1>4 DEF OneTrace, Replied
  <2>3. \A d \in Calls : d # c => (Replied(d)' <=> Replied(d))
    BY <1>2, <1>3, <1>4 DEF Replied
  <2>4. \A i, j \in DOMAIN replies' : replies'[i].id = replies'[j].id => i = j
    BY <1>2 DEF OneTrace
  <2> QED BY <2>1, <2>2, <2>3, <2>4 DEF OneTrace, Sent
<1>6. /\ pending' = pending \ {c} /\ wasmBroken' \in BOOLEAN
      /\ \A d \in Calls : d # c => stage'[d] = stage[d] /\ outcome'[d] = outcome[d]
      /\ stage' \in [Calls -> {"idle", "wasm", "server", "done"}] /\ outcome' \in [Calls -> Outcomes]
      /\ \/ c \notin pending /\ stage'[c] = stage[c] /\ outcome'[c] = outcome[c]
         \/ c \in pending /\ r.ok /\ stage'[c] = "done" /\ outcome'[c] = r.obj
         \/ c \in pending /\ c \in Compiles /\ stage'[c] = "server" /\ outcome'[c] = outcome[c]
         \/ c \in pending /\ c \notin Compiles /\ stage'[c] = "done" /\ outcome'[c] = "unavailable"
  <2>1. CASE c \notin pending
    BY <2>1, <1>3, <1>4 DEF OnMessage, TypeOK
  <2>2. CASE c \in pending /\ r.ok
    <3>1. /\ pending' = pending \ {c} /\ stage' = [stage EXCEPT ![c] = "done"]
          /\ outcome' = [outcome EXCEPT ![c] = r.obj] /\ UNCHANGED wasmBroken /\ r.obj \in Outcomes
      BY <2>2, <1>3, <1>4 DEF OnMessage, Replies
    <3> QED BY <3>1, <2>2 DEF TypeOK
  <2>3. CASE c \in pending /\ ~r.ok
    <3>1. pending' = pending \ {c} /\ Unavailable({c})
      BY <2>3, <1>3, <1>4 DEF OnMessage
    <3> QED BY <3>1, <2>3, CallsAssumption DEF Unavailable, TypeOK, Calls, Outcomes, CallsAssumption
  <2> QED BY <2>1, <2>2, <2>3
<1>7. c \in pending <=> stage[c] = "wasm"
  BY DEF Waits
<1>8. TypeOK'
  BY <1>1, <1>2, <1>6 DEF TypeOK, Replies
<1>9. OneTrace'
  BY <1>1, <1>2, <1>5 DEF OneTrace
<1>10. Modules'
  BY <1>1 DEF Modules
<1>11. Waits'
  <2>1. \A d \in Calls : Sent(d)' = Sent(d) /\ Working(d)' = Working(d)
    BY <1>1 DEF Sent, Working
  <2>2. ~Working(c)
    BY <1>5 DEF Working
  <2>3. \A d \in Calls : stage'[d] = "idle" => stage[d] = "idle"
    BY <1>6
  <2>4. \A d \in Calls : stage'[d] = "wasm" <=> d \in pending'
    BY <1>6, <1>7 DEF Waits
  <2>5. \A d \in pending' : d \in Calls /\ d \in pending /\ d # c
    BY <1>6 DEF TypeOK
  <2>6. \A d \in pending' : (job'[d] = "none" => Sent(d)') /\ (job'[d] = "done" => Replied(d)')
    BY <1>1, <1>5, <2>1, <2>5 DEF Waits
  <2>7. ~failed' => \A d \in Calls : Sent(d)' \/ Working(d)' \/ Replied(d)' => d \in pending'
    BY <1>1, <1>5, <1>6, <2>1, <2>2 DEF Waits
  <2>8. \A d \in Calls : stage'[d] = "idle" => job'[d] = "none" /\ ~Sent(d)'
    BY <2>1, <2>3, <1>1 DEF Waits
  <2>9. worker' = "none" \/ failed' => pending' = {}
    BY <1>1, <1>6 DEF Waits
  <2> QED BY <2>4, <2>6, <2>7, <2>8, <2>9 DEF Waits
<1>12. Open' \subseteq Open
  BY <1>6, <1>7 DEF Open, Calls
<1>13. Settled'
  <2>1. IsFiniteSet(Open')
    BY <1>12, FS_Subset DEF Settled
  <2>2. \A d \in Calls : stage'[d] # "done" => outcome'[d] = None
    BY <1>6, <1>7 DEF Settled
  <2>3. \A d \in Warmups : stage'[d] # "server"
    BY <1>6, CallsAssumption DEF Settled, Calls, CallsAssumption
  <2>4. \A k \in DOMAIN replies' : replies'[k].ok =>
          IF replies'[k].id \in Warmups THEN replies'[k].obj = "ready" ELSE replies'[k].obj \in Compiles
    BY <1>2 DEF Settled
  <2> QED BY <2>1, <2>2, <2>3, <2>4 DEF Settled
<1>14. Alone'
  <2> SUFFICES ASSUME MaxOverlap = 1 PROVE Alone'
    BY DEF Alone
  <2>1. c \in pending \cap Compiles /\ r.ok => r.obj = c
    BY <1>2, <1>3, <1>4 DEF Alone
  <2>2. OwnObject'
    BY <1>6, <2>1, CallsAssumption DEF Alone, OwnObject, Calls, CallsAssumption
  <2>3. \A d \in pending' \cap Compiles : job'[d] = "headers" => driverC'[inst'[d]] = d
    BY <1>1, <1>6 DEF Alone
  <2>4. \A k \in DOMAIN replies' : replies'[k].id \in pending' \cap Compiles /\ replies'[k].ok =>
          replies'[k].obj = replies'[k].id
    BY <1>2, <1>6 DEF Alone
  <2>5. \A d, e \in Open' : d = e
    BY <1>12 DEF Alone
  <2> QED BY <2>2, <2>3, <2>4, <2>5 DEF Alone
<1> QED
  BY <1>8, <1>9, <1>10, <1>11, <1>13, <1>14

-----------------------------------------------------------------------------
(* The invariant.                                                          *)

LEMMA InitBridge == ASSUME CallsAssumption, Init PROVE BridgeInv
<1> USE DEF Init
<1>1. TypeOK
  <2>1. <<>> \in Seq(Calls) /\ <<>> \in Seq([id : Calls, ok : BOOLEAN, obj : Outcomes])
    OBVIOUS
  <2>2. /\ [c \in Calls |-> "idle"] \in [Calls -> {"idle", "wasm", "server", "done"}]
        /\ [c \in Calls |-> "none"] \in [Calls -> {"none", "imports", "clang", "lld", "headers", "done"}]
        /\ [c \in Calls |-> None] \in [Calls -> Outcomes] /\ [c \in Calls |-> None] \in [Calls -> MaybeCall]
        /\ [i \in Calls |-> None] \in [Calls -> Compiles \cup {None}]
        /\ [i \in Calls |-> None] \in [Calls -> (Compiles \ Bad) \cup {None}]
    BY DEF MaybeCall, Outcomes
  <2> QED BY <2>1, <2>2 DEF TypeOK, MaybeCall
<1>2. OneTrace /\ Waits /\ Modules
  BY DEF OneTrace, Waits, Modules, Sent, Replied, Working, TypeOK
<1>3. Open = {}
  BY DEF Open, Calls
<1>4. Settled /\ Alone
  BY <1>3, FS_EmptySet, CallsAssumption DEF Settled, Alone, OwnObject, Calls, CallsAssumption
<1> QED
  BY <1>1, <1>2, <1>4 DEF BridgeInv

LEMMA NextKeeps == ASSUME CallsAssumption, BridgeInv, [Next]_vars PROVE BridgeInv'
<1>1. CASE \E c \in Calls : CallServer(c) \/ CallRefused(c) \/ CallSpawnFails(c)
  BY <1>1, RefusalsKeep
<1>2. CASE \E c \in Calls : CallPosts(c)
  BY <1>2, CallPostsKeeps
<1>3. CASE \E c \in Calls : ServerAnswers(c)
  BY <1>3, ServerAnswersKeeps
<1>4. CASE \E c \in Calls : JobSteps(c)
  BY <1>4, JobStepsKeep
<1>5. CASE OnMessage
  BY <1>5, OnMessageKeeps
<1>6. CASE OnError
  BY <1>6, OnErrorKeeps
<1>7. CASE WorkerLoads
  BY <1>7, WorkerLoadsKeeps
<1>8. CASE TakeMessage
  BY <1>8, TakeMessageKeeps
<1>9. CASE UNCHANGED vars
  <2>1. UNCHANGED <<stage, outcome, wasmBroken, worker, failed, pending, inbox, replies, job,
                    clangMod, lldMod, inst, driverC, driverObj>>
    BY <1>9 DEF vars, client, modules, files
  <2>2. TypeOK' = TypeOK /\ OneTrace' = OneTrace /\ Modules' = Modules
    BY <2>1 DEF TypeOK, OneTrace, Modules
  <2>3. Waits' = Waits
    BY <2>1 DEF Waits, Sent, Replied, Working
  <2>4. Settled' = Settled /\ Alone' = Alone
    BY <2>1 DEF Settled, Alone, Open, OwnObject
  <2> QED BY <2>2, <2>3, <2>4 DEF BridgeInv
<1> QED
  BY <1>1, <1>2, <1>3, <1>4, <1>5, <1>6, <1>7, <1>8, <1>9 DEF Next

\* A pending call has one trace, and the trace that is not there counts for nothing.
LEMMA TraceCounted == ASSUME CallsAssumption, BridgeInv PROVE NoCallDropped
<1> USE DEF BridgeInv
<1> SUFFICES ASSUME NEW c \in pending PROVE OnItsWay(c) = 1
  BY DEF NoCallDropped, Waits
<1> DEFINE M == {k \in DOMAIN inbox : inbox[k] = c}
           R == {k \in DOMAIN replies : replies[k].id = c}
<1>1. job[c] \in {"none", "imports", "clang", "lld", "headers", "done"}
  BY DEF TypeOK
<1>2. Cardinality(M) = IF Sent(c) THEN 1 ELSE 0
  <2>1. CASE Sent(c)
    <3>1. PICK k : M = {k}
      BY <2>1 DEF Sent, OneTrace
    <3> QED BY <3>1, <2>1, FS_Singleton
  <2>2. CASE ~Sent(c)
    <3>1. M = {}
      BY <2>2 DEF Sent
    <3> QED BY <3>1, <2>2, FS_EmptySet
  <2> QED BY <2>1, <2>2
<1>3. Cardinality(R) = IF Replied(c) THEN 1 ELSE 0
  <2>1. CASE Replied(c)
    <3>1. PICK k : R = {k}
      BY <2>1 DEF Replied, OneTrace
    <3> QED BY <3>1, <2>1, FS_Singleton
  <2>2. CASE ~Replied(c)
    <3>1. R = {}
      BY <2>2 DEF Replied
    <3> QED BY <3>1, <2>2, FS_EmptySet
  <2> QED BY <2>1, <2>2
<1>4. OnItsWay(c) = Cardinality(M) + Cardinality(R) + IF job[c] \in {"none", "done"} THEN 0 ELSE 1
  BY DEF OnItsWay
<1>5. /\ job[c] = "none" <=> Sent(c)
      /\ job[c] = "done" <=> Replied(c)
  BY DEF Waits, OneTrace, Sent, Replied
<1> HIDE DEF M, R
<1> QED
  BY <1>1, <1>2, <1>3, <1>4, <1>5

-----------------------------------------------------------------------------
(* Loads.                                                                  *)

LoadRecords == [ids : Inputs, base : Bases, name : Names, ok : {l.result.ok : l \in Linkings}]
Entries == [name : Names, base : Bases]
Loaded == {l.name : l \in {l \in ToSet(loads) : l.ok}}

Named(list) == {list[i].name : i \in DOMAIN list}
Once(list) == \A i, j \in DOMAIN list : list[i].name = list[j].name => i = j

\* A list names every driver that was loaded, once.
Lists(list) == list \in Seq(Entries) /\ Named(list) = Loaded /\ Once(list)

KernelInv ==
    /\ stubs \subseteq DOMAIN Stub
    /\ loads \in Seq(LoadRecords) /\ Len(loads) <= MaxLoads
    /\ Lists(loadedModules) /\ Lists(loadedDrivers)

LEMMA ListedOnce ==
    ASSUME NEW list \in Seq(Entries), NEW name \in Names, NEW base \in Bases, Once(list)
    PROVE  /\ Listed(list, name, base) \in Seq(Entries)
           /\ Named(Listed(list, name, base)) = Named(list) \cup {name}
           /\ Once(Listed(list, name, base))
<1>1. CASE \E i \in DOMAIN list : list[i].name = name
  BY <1>1 DEF Listed, Named
<1>2. CASE ~\E i \in DOMAIN list : list[i].name = name
  <2> DEFINE e == [name |-> name, base |-> base]  new == Listed(list, name, base)
  <2>1. new = Append(list, e) /\ e \in Entries /\ e.name = name
    BY <1>2 DEF Listed, Entries
  <2> HIDE DEF e, new
  <2>2. /\ new \in Seq(Entries)
        /\ \A k \in DOMAIN list : k \in DOMAIN new /\ new[k] = list[k]
        /\ \A k \in DOMAIN new : k \in DOMAIN list \/ (k = Len(list) + 1 /\ new[k] = e)
        /\ Len(list) + 1 \in DOMAIN new /\ new[Len(list) + 1] = e
    BY <2>1, Put
  <2>3. Named(new) = Named(list) \cup {name}
    BY <2>1, <2>2 DEF Named
  <2>4. Once(new)
    BY <1>2, <2>1, <2>2 DEF Once
  <2> QED BY <2>2, <2>3, <2>4 DEF new
<1> QED
  BY <1>1, <1>2

LEMMA LoadKeeps ==
    ASSUME BuildAssumption, KernelInv, NEW l \in Linkings, NEW name \in Names, Load(l, name)
    PROVE  KernelInv'
<1> USE DEF KernelInv
<1> DEFINE e == [ids |-> l.ids, base |-> l.base, name |-> name, ok |-> l.result.ok]
<1>1. l.ids \in Inputs /\ l.base \in Bases
  BY DEF Linkings
<1>2. e \in LoadRecords /\ e.ok = l.result.ok /\ e.name = name
  BY <1>1 DEF LoadRecords
<1>3. loads' = Append(loads, e) /\ Len(loads) < MaxLoads
  BY DEF Load
<1> HIDE DEF e
<1>4. /\ loads' \in Seq(LoadRecords) /\ Len(loads') = Len(loads) + 1 /\ Len(loads) \in Nat
      /\ \A k \in DOMAIN loads : k \in DOMAIN loads' /\ loads'[k] = loads[k]
      /\ \A k \in DOMAIN loads' : k \in DOMAIN loads \/ (k = Len(loads) + 1 /\ loads'[k] = e)
      /\ Len(loads) + 1 \in DOMAIN loads' /\ loads'[Len(loads) + 1] = e
  BY <1>2, <1>3, Put, AppendProperties, LenProperties
<1>5. Len(loads') <= MaxLoads
  BY <1>3, <1>4 DEF BuildAssumption
<1>6. ToSet(loads') = ToSet(loads) \cup {e}
  BY <1>4 DEF ToSet
<1>7. Loaded' = IF l.result.ok THEN Loaded \cup {name} ELSE Loaded
  BY <1>2, <1>6 DEF Loaded
<1>8. CASE l.result.ok
  <2>1. loadedModules' = Listed(loadedModules, name, l.base) /\ loadedDrivers' = Listed(loadedDrivers, name, l.base)
    BY <1>8 DEF Load
  <2>2. Lists(loadedModules)' /\ Lists(loadedDrivers)'
    BY <2>1, <1>1, <1>7, <1>8, ListedOnce DEF Lists
  <2> QED BY <2>2, <1>4, <1>5 DEF Load
<1>9. CASE ~l.result.ok
  BY <1>4, <1>5, <1>7, <1>9 DEF Load, Lists
<1> QED
  BY <1>8, <1>9

BuildInv == BridgeInv /\ KernelInv

LEMMA InitBuild == ASSUME CallsAssumption, BuildAssumption, BInit PROVE BuildInv
<1>1. BridgeInv
  BY InitBridge DEF BInit
<1>2. <<>> \in Seq(LoadRecords) /\ <<>> \in Seq(Entries) /\ Len(<<>>) = 0 /\ DOMAIN <<>> = {}
  OBVIOUS
<1>3. Loaded = {}
  BY <1>2 DEF BInit, Loaded, ToSet
<1>4. KernelInv
  BY <1>2, <1>3 DEF BInit, KernelInv, Lists, Named, Once, BuildAssumption
<1> QED
  BY <1>1, <1>4 DEF BuildInv

LEMMA NextBuild == ASSUME CallsAssumption, BuildAssumption, BuildInv, [BNext]_bvars PROVE BuildInv'
<1>1. CASE [Next]_vars /\ UNCHANGED kernel
  <2>1. KernelInv'
    BY <1>1 DEF BuildInv, KernelInv, kernel, Lists, Loaded
  <2> QED BY <1>1, <2>1, NextKeeps DEF BuildInv
<1>2. CASE \E c \in Compiles : LabLoads(c)
  <2>1. KernelInv'
    BY <1>2, LoadKeeps DEF LabLoads, BuildInv
  <2>2. [Next]_vars
    BY <1>2 DEF LabLoads
  <2> QED BY <2>1, <2>2, NextKeeps DEF BuildInv
<1> QED
  BY <1>1, <1>2 DEF BNext, bvars

\* BuildInv is an invariant of the driver build.
THEOREM Invariance == BFairSpec => []BuildInv
<1>1. BInit => BuildInv
  BY InitBuild, CallsAssumption, BuildAssumption
<1>2. BuildInv /\ [BNext]_bvars => BuildInv'
  BY NextBuild, CallsAssumption, BuildAssumption
<1> QED
  BY <1>1, <1>2, PTL DEF BFairSpec, BSpec

-----------------------------------------------------------------------------
(* The theorems.                                                           *)

\* The state keeps its shape: no object is ever made of a rejected source, and the
\* kernel's lists name each driver that was loaded once.
THEOREM BuildTypeCorrect == BFairSpec => []BuildTypeOK
<1>1. ASSUME NEW list, Lists(list)
      PROVE  /\ {list[i].name : i \in DOMAIN list} = {l.name : l \in {l \in ToSet(loads) : l.ok}}
             /\ \A i, j \in DOMAIN list : list[i].name = list[j].name => i = j
  BY <1>1, Zenon DEF Lists, Named, Once, Loaded
<1>2. ASSUME BuildInv PROVE BuildTypeOK
  <2>1. TypeOK /\ stubs \subseteq DOMAIN Stub /\ Len(loads) <= MaxLoads
    BY <1>2 DEF BuildInv, BridgeInv, KernelInv
  <2>2. \A list \in {loadedModules, loadedDrivers} : Lists(list)
    BY <1>2 DEF BuildInv, KernelInv
  <2> QED BY <1>1, <2>1, <2>2, Zenon DEF BuildTypeOK
<1> QED
  BY <1>2, Invariance, PTL

\* However many calls are open, the bridge drops none of them, and no compile uses a
\* module that is not there yet.
THEOREM NothingDropped == BFairSpec => [](NoCallDropped /\ ModulesComplete)
<1>1. BuildInv => NoCallDropped
  BY TraceCounted, CallsAssumption DEF BuildInv
<1>2. BuildInv => ModulesComplete
  BY DEF BuildInv, BridgeInv, Modules, Made, ModulesComplete, TypeOK, MaybeCall
<1> QED
  BY <1>1, <1>2, Invariance, PTL

\* Callers that keep one compile open at a time get each the object of their source.
THEOREM CallsAlwaysKept == ASSUME MaxOverlap = 1 PROVE BFairSpec => []CallsKept
<1>1. BuildInv => OwnObject
  BY DEF BuildInv, BridgeInv, Alone
<1>2. [](NoCallDropped /\ ModulesComplete) /\ []OwnObject => []CallsKept
  BY PTL DEF CallsKept
<1> QED
  BY <1>1, <1>2, NothingDropped, Invariance, PTL

-----------------------------------------------------------------------------
(* The service.  asked is the calls that are not idle; a call is asked when it *)
(* leaves idle and answered when its promise is settled.                       *)

AskedCalls == {c \in Calls : stage[c] # "idle"}

\* A step that makes no call and settles none is invisible.
LEMMA ServiceStutters ==
    ASSUME UNCHANGED <<AskedCalls, outcome>>
    PROVE  UNCHANGED Service!svars
BY DEF Service!svars, AskedCalls

\* A call that is made, and perhaps refused.
LEMMA ServiceAsks ==
    ASSUME CallsAssumption, BridgeInv, NEW c \in Calls,
           CallServer(c) \/ CallRefused(c) \/ CallSpawnFails(c) \/ CallPosts(c)
    PROVE  Service!Ask(c)
<1> USE DEF BridgeInv
<1>1. stage[c] = "idle" /\ stage'[c] # "idle" /\ \A d \in Calls : d # c => stage'[d] = stage[d]
  BY DEF CallServer, CallRefused, CallSpawnFails, CallPosts, TriesWorker, MayCall, Unavailable, TypeOK
<1>2. AskedCalls' = AskedCalls \cup {c} /\ c \notin AskedCalls
  BY <1>1 DEF AskedCalls
<1>3. outcome[c] = None /\ outcome \in [Calls -> Outcomes]
  BY <1>1 DEF Settled, TypeOK
<1>4. outcome' = [outcome EXCEPT ![c] = IF c \in Warmups /\ outcome'[c] # None THEN "unavailable" ELSE None]
  BY <1>3, CallsAssumption DEF CallServer, CallRefused, CallSpawnFails, CallPosts, Unavailable, CallsAssumption
<1>5. c \in Warmups => "unavailable" \in Service!Answers(c)
  BY CallsAssumption DEF Service!Answers, CallsAssumption
<1> QED
  BY <1>2, <1>4, <1>5 DEF Service!Ask, AskedCalls

\* A promise that is settled after the call was made; a compile that falls back to the
\* server is not settled yet.
LEMMA ServiceAnswers ==
    ASSUME CallsAssumption, BridgeInv, MaxOverlap = 1,
           NEW C \in SUBSET Calls, AskedCalls' = AskedCalls, C \subseteq AskedCalls,
           \A c \in C : outcome[c] = None /\ outcome'[c] \in Service!Answers(c),
           \A c \in Calls \ C : outcome'[c] = outcome[c],
           outcome' \in [Calls -> Outcomes]
    PROVE  [Service!SNext]_Service!svars
<1>1. outcome \in [Calls -> Outcomes] /\ DOMAIN outcome = Calls
  BY DEF BridgeInv, TypeOK
<1>2. CASE C = {}
  <2>1. outcome' = outcome
    BY <1>1, <1>2
  <2> QED BY <2>1, ServiceStutters
<1>3. CASE C # {}
  BY <1>1, <1>3 DEF Service!SNext, Service!Answer, AskedCalls
<1> QED
  BY <1>2, <1>3

LEMMA ServiceAnswersOne ==
    ASSUME CallsAssumption, BridgeInv, MaxOverlap = 1,
           NEW c \in AskedCalls, AskedCalls' = AskedCalls, outcome[c] = None, outcome'[c] \in Service!Answers(c),
           \A d \in Calls : d # c => outcome'[d] = outcome[d], outcome' \in [Calls -> Outcomes]
    PROVE  [Service!SNext]_Service!svars
<1> DEFINE C == {c}
<1>1. C \in SUBSET Calls /\ C \subseteq AskedCalls
  BY DEF AskedCalls
<1>2. \A d \in C : outcome[d] = None /\ outcome'[d] \in Service!Answers(d)
  OBVIOUS
<1>3. \A d \in Calls \ C : outcome'[d] = outcome[d]
  OBVIOUS
<1> HIDE DEF C
<1> QED
  BY <1>1, <1>2, <1>3, ServiceAnswers

LEMMA ServiceStep ==
    ASSUME CallsAssumption, MaxOverlap = 1, BridgeInv, BridgeInv', [Next]_vars
    PROVE  [Service!SNext]_Service!svars
<1> USE DEF BridgeInv
<1>1. outcome \in [Calls -> Outcomes] /\ outcome' \in [Calls -> Outcomes]
  BY DEF TypeOK
<1>2. CASE \E c \in Calls : CallServer(c) \/ CallRefused(c) \/ CallSpawnFails(c) \/ CallPosts(c)
  BY <1>2, ServiceAsks DEF Service!SNext, Calls
<1>3. CASE \E c \in Calls : ServerAnswers(c)
  <2>1. PICK c \in Calls : ServerAnswers(c)
    BY <1>3
  <2>2. /\ stage[c] = "server" /\ c \in Compiles /\ outcome[c] = None
        /\ stage' = [stage EXCEPT ![c] = "done"] /\ outcome'[c] \in {c, "error"}
        /\ \A d \in Calls : d # c => outcome'[d] = outcome[d]
    BY <2>1 DEF ServerAnswers, Settled, Calls, TypeOK
  <2>3. AskedCalls' = AskedCalls /\ c \in AskedCalls
    BY <2>2 DEF AskedCalls, TypeOK
  <2> QED BY <1>1, <2>2, <2>3, ServiceAnswersOne DEF Service!Answers
<1>4. CASE OnMessage
  <2>1. replies # <<>> /\ replies \in Seq(Replies)
    BY <1>4 DEF OnMessage, TypeOK, Replies
  <2>2. Head(replies) \in Replies /\ 1 \in DOMAIN replies /\ replies[1] = Head(replies)
    BY <2>1, Taken
  <2>3. PICK r \in Replies : r = Head(replies)
    BY <2>2
  <2>4. PICK c \in Calls : c = r.id
    BY DEF Replies
  <2>5. CASE c \notin pending
    BY <2>5, <2>3, <2>4, <1>4, ServiceStutters DEF OnMessage, AskedCalls
  <2>6. CASE c \in pending /\ r.ok
    <3>1. /\ stage' = [stage EXCEPT ![c] = "done"] /\ outcome' = [outcome EXCEPT ![c] = r.obj]
          /\ stage[c] = "wasm" /\ outcome[c] = None
      BY <2>6, <2>3, <2>4, <1>4 DEF OnMessage, Waits, Settled
    <3>2. AskedCalls' = AskedCalls /\ c \in AskedCalls
      BY <3>1 DEF AskedCalls, TypeOK
    <3>3. r.obj \in Service!Answers(c)
      <4>1. IF c \in Warmups THEN r.obj = "ready" ELSE r.obj \in Compiles
        BY <2>2, <2>3, <2>4, <2>6 DEF Settled
      <4>2. c \in Compiles => r.obj = c
        BY <2>2, <2>3, <2>4, <2>6 DEF Alone
      <4> QED BY <4>1, <4>2, CallsAssumption DEF Service!Answers, Calls, CallsAssumption
    <3> QED BY <1>1, <3>1, <3>2, <3>3, ServiceAnswersOne DEF TypeOK
  <2>7. CASE c \in pending /\ ~r.ok
    <3>1. Unavailable({c}) /\ stage[c] = "wasm" /\ outcome[c] = None
      BY <2>7, <2>3, <2>4, <1>4 DEF OnMessage, Waits, Settled
    <3>2. AskedCalls' = AskedCalls /\ c \in AskedCalls
      BY <3>1 DEF AskedCalls, TypeOK, Unavailable
    <3>3. CASE c \in Compiles
      <4>1. outcome' = outcome
        BY <3>1, <3>3, <1>1, CallsAssumption DEF Unavailable, CallsAssumption
      <4> QED BY <4>1, <3>2, ServiceStutters
    <3>4. CASE c \notin Compiles
      <4>1. c \in Warmups /\ outcome'[c] = "unavailable" /\ \A d \in Calls : d # c => outcome'[d] = outcome[d]
        BY <3>1, <3>4 DEF Unavailable, Calls
      <4>2. outcome'[c] \in Service!Answers(c)
        BY <3>4, <4>1 DEF Service!Answers
      <4> QED BY <1>1, <3>1, <3>2, <4>1, <4>2, ServiceAnswersOne
    <3> QED BY <3>3, <3>4
  <2> QED BY <2>5, <2>6, <2>7
<1>5. CASE OnError
  <2> DEFINE C == pending \cap Warmups
  <2>1. \A d \in Calls : d \in pending <=> stage[d] = "wasm"
    BY DEF Waits
  <2>2. AskedCalls' = AskedCalls /\ C \subseteq AskedCalls /\ C \subseteq Calls
    BY <1>5, <2>1 DEF AskedCalls, OnError, Unavailable, Calls
  <2>3. \A c \in C : outcome[c] = None /\ outcome'[c] = "unavailable" /\ c \notin Compiles
    BY <1>5, <2>1, CallsAssumption DEF OnError, Unavailable, Settled, Calls, CallsAssumption
  <2>4. \A c \in Calls \ C : outcome'[c] = outcome[c]
    BY <1>5 DEF OnError, Unavailable
  <2>5. \A c \in C : outcome'[c] \in Service!Answers(c)
    BY <2>3 DEF Service!Answers
  <2> HIDE DEF C
  <2> QED BY <1>1, <2>2, <2>3, <2>4, <2>5, ServiceAnswers
<1>6. CASE \/ \E c \in Calls : JobSteps(c)
           \/ TakeMessage \/ WorkerLoads \/ UNCHANGED vars
  <2>1. UNCHANGED <<stage, outcome>>
    BY <1>6 DEF JobSteps, Imported, ClangReady, LldReady, HeadersReady, TakeMessage, WorkerLoads, client, vars
  <2> QED BY <2>1, ServiceStutters DEF AskedCalls
<1> QED
  BY <1>2, <1>3, <1>4, <1>5, <1>6 DEF Next

\* Callers that keep one compile open at a time see the service: a call is answered once,
\* a compile with its own object or an error, a warm-up with what is available.
THEOREM BridgeImplementsService == ASSUME MaxOverlap = 1 PROVE BFairSpec => ImplementsService
<1>1. BInit => Service!SInit
  BY DEF BInit, Init, Service!SInit, Calls
<1>2. BuildInv /\ BuildInv' /\ [BNext]_bvars => [Service!SNext]_Service!svars
  <2> SUFFICES ASSUME BuildInv, BuildInv', [BNext]_bvars PROVE [Service!SNext]_Service!svars
    OBVIOUS
  <2>1. [Next]_vars
    BY DEF BNext, bvars, LabLoads
  <2> QED BY <2>1, ServiceStep, CallsAssumption DEF BuildInv
<1> QED
  BY <1>1, <1>2, Invariance, PTL DEF BFairSpec, BSpec, ImplementsService, Service!SSpec

-----------------------------------------------------------------------------
-----------------------------------------------------------------------------
(* The linked driver.  First what the definitions are made of: rounding,   *)
(* functions defined by recursion, sequences that are joined.              *)

\* A set of numbers has a least one.
LEMMA LeastNumber ==
    ASSUME NEW T \in SUBSET Nat, T # {}
    PROVE  \E x \in T : \A y \in T : x <= y
<1>1. \E x \in T : \A y \in T : ~(<<y, x>> \in OpToRel(<, Nat))
  <2> HIDE DEF OpToRel
  <2> QED
    BY NatLessThanWellFounded, WFMin
<1>2. ASSUME NEW x \in Nat, NEW y \in Nat, ~(<<y, x>> \in OpToRel(<, Nat)) PROVE x <= y
  BY <1>2 DEF OpToRel
<1> QED
  BY <1>1, <1>2

\* Induction on a set of numbers.
LEMMA SetInduction ==
    ASSUME NEW S, 0 \in S, \A n \in Nat : n \in S => n + 1 \in S
    PROVE  Nat \subseteq S
<1> DEFINE T == Nat \ S
<1> SUFFICES ASSUME T # {} PROVE FALSE
  OBVIOUS
<1>1. T \in SUBSET Nat
  OBVIOUS
<1> HIDE DEF T
<1>2. PICK x \in T : \A y \in T : x <= y
  BY <1>1, LeastNumber
<1>3. x # 0 /\ x - 1 \in Nat
  BY <1>2 DEF T
<1>4. x - 1 \in S
  BY <1>2, <1>3 DEF T
<1> QED
  BY <1>2, <1>3, <1>4 DEF T

Recursive(g, s0, N, F) == g = [n \in 0..N |-> IF n = 0 THEN s0 ELSE F[<<g[n - 1], n>>]]

\* A function defined by recursion from 0 to N exists.
LEMMA RecursionExists ==
    ASSUME NEW S, NEW s0 \in S, NEW N \in Nat, NEW F,
           \A n \in 1..N : \A s \in S : F[<<s, n>>] \in S
    PROVE  \E g \in [0..N -> S] : Recursive(g, s0, N, F)
<1> DEFINE Upto(g, m) == /\ g \in [0..m -> S]
                         /\ \A n \in 0..m : g[n] = IF n = 0 THEN s0 ELSE F[<<g[n - 1], n>>]
           T == {m \in Nat : m <= N => \E g : Upto(g, m)}
<1>1. 0 \in T
  <2> DEFINE g == [n \in 0..0 |-> s0]
  <2>1. Upto(g, 0)
    OBVIOUS
  <2> QED
    BY <2>1
<1>2. ASSUME NEW m \in Nat, m \in T PROVE m + 1 \in T
  <2> SUFFICES ASSUME m + 1 <= N PROVE \E g : Upto(g, m + 1)
    OBVIOUS
  <2>1. PICK g : Upto(g, m)
    BY <1>2
  <2> DEFINE h == [n \in 0..(m + 1) |-> IF n = m + 1 THEN F[<<g[m], m + 1>>] ELSE g[n]]
  <2>2. F[<<g[m], m + 1>>] \in S
    BY <2>1
  <2>3. h \in [0..(m + 1) -> S]
    BY <2>1, <2>2
  <2>4. ASSUME NEW n \in 0..(m + 1) PROVE h[n] = IF n = 0 THEN s0 ELSE F[<<h[n - 1], n>>]
    <3>1. CASE n = m + 1
      BY <3>1, <2>1
    <3>2. CASE n # m + 1 /\ n # 0
      <4>1. n \in 0..m /\ n - 1 \in 0..(m + 1) /\ n - 1 # m + 1
        BY <3>2
      <4>2. h[n] = g[n] /\ h[n - 1] = g[n - 1]
        BY <3>2, <4>1
      <4> HIDE DEF h
      <4> QED
        BY <3>2, <4>1, <4>2, <2>1
    <3>3. CASE n = 0
      <4>1. 0 \in 0..m /\ 0 \in 0..(m + 1) /\ 0 # m + 1
        OBVIOUS
      <4>2. g[0] = s0
        BY <2>1, <4>1
      <4>3. h[0] = g[0]
        BY <4>1
      <4> HIDE DEF h
      <4> QED
        BY <3>3, <4>2, <4>3
    <3> QED
      BY <3>1, <3>2, <3>3
  <2> QED
    BY <2>3, <2>4
<1>3. N \in T
  <2> HIDE DEF T
  <2> QED
    BY <1>1, <1>2, SetInduction
<1>4. PICK g : Upto(g, N)
  BY <1>3
<1>5. Recursive(g, s0, N, F)
  BY <1>4 DEF Recursive
<1> QED
  BY <1>4, <1>5

Counted(h, s0, N, F) == h = [n \in 1..N |-> IF n = 1 THEN s0 ELSE F[<<h[n - 1], n>>]]

\* The same from 1 on, as the layout passes count.
LEMMA CountedRecursion ==
    ASSUME NEW S, NEW s0 \in S, NEW N \in Nat, NEW F,
           \A n \in 2..N : \A s \in S : F[<<s, n>>] \in S
    PROVE  \E h \in [1..N -> S] : Counted(h, s0, N, F)
<1> DEFINE G == [q \in S \X (1..N) |-> IF q[2] = 1 THEN s0 ELSE F[q]]
<1>0. \A n \in 1..N : \A s \in S : G[<<s, n>>] = IF n = 1 THEN s0 ELSE F[<<s, n>>]
  OBVIOUS
<1>1. \A n \in 1..N : \A s \in S : G[<<s, n>>] \in S
  <2> HIDE DEF G
  <2>1. \A n \in 1..N : n = 1 \/ n \in 2..N
    OBVIOUS
  <2> QED BY <1>0, <2>1
<1> HIDE DEF G
<1>2. PICK g \in [0..N -> S] : Recursive(g, s0, N, G)
  BY <1>1, RecursionExists
<1> DEFINE h == [n \in 1..N |-> g[n]]
<1>3. ASSUME NEW n \in 1..N PROVE g[n] = IF n = 1 THEN s0 ELSE F[<<g[n - 1], n>>]
  <2>1. n \in 0..N /\ n # 0 /\ n - 1 \in 0..N /\ g[n - 1] \in S
    OBVIOUS
  <2>2. g[n] = G[<<g[n - 1], n>>]
    BY <1>2, <2>1 DEF Recursive
  <2> QED BY <1>0, <2>1, <2>2
<1>4. Counted(h, s0, N, F)
  <2>1. \A n \in 1..N : n # 1 => n - 1 \in 1..N
    OBVIOUS
  <2> QED BY <1>3, <2>1 DEF Counted
<1>5. h \in [1..N -> S]
  <2>1. \A n \in 1..N : g[n] \in S
    OBVIOUS
  <2> QED BY <2>1
<1> HIDE DEF h
<1> QED BY <1>4, <1>5

\* Up rounds up.
LEMMA UpRounds ==
    ASSUME NEW n \in Nat, NEW unit \in Nat \ {0}
    PROVE  Up(n, unit) \in Nat /\ Up(n, unit) >= n /\ (n = 0 => Up(n, unit) = 0)
<1>1. PICK q \in Int : q = (n + unit - 1) \div unit
  OBVIOUS
<1>2. n + unit - 1 < (q + 1) * unit /\ q * unit <= n + unit - 1
  BY <1>1
<1>3. (q + 1) * unit = q * unit + unit
  OBVIOUS
<1>4. PICK p \in Int : p = q * unit
  OBVIOUS
<1>5. p >= n
  BY <1>2, <1>3, <1>4
<1>6. n = 0 => q = 0
  BY <1>1
<1>7. n = 0 => p = 0
  BY <1>4, <1>6
<1> QED
  BY <1>1, <1>4, <1>5, <1>7 DEF Up

\* FlattenSeq joins the chunks one after the other.
LEMMA FlattenJoins ==
    ASSUME NEW D, NEW s \in Seq(Seq(D)), s # <<>>
    PROVE  \E f \in [1..Len(s) -> Seq(D)] :
              /\ f[1] = s[1]
              /\ \A i \in 2..Len(s) : f[i] = f[i - 1] \o s[i]
              /\ FlattenSeq(s) = f[Len(s)]
<1>1. PICK N \in Nat \ {0} : N = Len(s) /\ \A i \in 1..N : s[i] \in Seq(D)
  OBVIOUS
<1> DEFINE F == [q \in Seq(D) \X (1..N) |-> IF q[2] = 1 THEN s[q[2]] ELSE q[1] \o s[q[2]]]
           body(g) == [i \in 1..N |-> IF i = 1 THEN s[i] ELSE g[i - 1] \o s[i]]
           ch == CHOOSE g : g = body(g)
<1>2. <<>> \in Seq(D) /\ N \in Nat /\ \A n \in 1..N : \A q \in Seq(D) : F[<<q, n>>] \in Seq(D)
  <2>1. ASSUME NEW n \in 1..N, NEW q \in Seq(D) PROVE F[<<q, n>>] \in Seq(D)
    <3>1. F[<<q, n>>] = IF n = 1 THEN s[n] ELSE q \o s[n]
      OBVIOUS
    <3>2. s[n] \in Seq(D) /\ q \o s[n] \in Seq(D)
      BY <1>1, ConcatProperties
    <3> HIDE DEF F
    <3> QED
      BY <3>1, <3>2
  <2> HIDE DEF F
  <2> QED
    BY <2>1
<1>3. PICK g \in [0..N -> Seq(D)] : Recursive(g, <<>>, N, F)
  <2> HIDE DEF F
  <2> QED
    BY <1>2, RecursionExists
<1> DEFINE h == [i \in 1..N |-> g[i]]
<1>4. \A n \in 1..N : g[n] = IF n = 1 THEN s[n] ELSE g[n - 1] \o s[n]
  <2> TAKE n \in 1..N
  <2>1. g[n] = F[<<g[n - 1], n>>] /\ g[n - 1] \in Seq(D)
    <3>1. g = [m \in 0..N |-> IF m = 0 THEN <<>> ELSE F[<<g[m - 1], m>>]]
      BY <1>3 DEF Recursive
    <3> HIDE DEF F
    <3>2. n \in 0..N /\ n # 0 /\ n - 1 \in 0..N
      OBVIOUS
    <3> QED
      BY <1>3, <3>1, <3>2
  <2> QED
    BY <2>1
<1>5. h = body(h)
  <2>1. \A n \in 1..N : n # 1 => n - 1 \in 1..N
    OBVIOUS
  <2> QED
    BY <1>4, <2>1
<1>6. ch = body(ch)
  <2> HIDE DEF body, h
  <2> QED
    BY <1>5
<1>7. FlattenSeq(s) = ch[N]
  BY <1>1 DEF FlattenSeq
<1> HIDE DEF ch
<1>8. \A n \in 1..N : ch[n] = IF n = 1 THEN s[n] ELSE ch[n - 1] \o s[n]
  BY <1>6
<1>9. \A n \in Nat : n \in 1..N => ch[n] \in Seq(D)
  <2> DEFINE T == {n \in Nat : n \in 1..N => ch[n] \in Seq(D)}
  <2>1. 0 \in T
    OBVIOUS
  <2>2. ASSUME NEW n \in Nat, n \in T PROVE n + 1 \in T
    <3> SUFFICES ASSUME n + 1 \in 1..N PROVE ch[n + 1] \in Seq(D)
      OBVIOUS
    <3>1. CASE n = 0
      BY <1>1, <1>8, <3>1
    <3>2. CASE n # 0
      <4>1. n \in 1..N /\ ch[n] \in Seq(D) /\ s[n + 1] \in Seq(D) /\ (n + 1) - 1 = n
        BY <1>1, <2>2, <3>2
      <4>2. ch[n + 1] = ch[n] \o s[n + 1]
        <5>1. n + 1 \in 1..N /\ n + 1 # 1
          BY <3>2
        <5> QED
          BY <1>8, <4>1, <5>1
      <4> QED
        BY <4>1, <4>2, ConcatProperties
    <3> QED
      BY <3>1, <3>2
  <2> HIDE DEF T
  <2>3. Nat \subseteq T
    BY <2>1, <2>2, SetInduction
  <2> QED
    BY <2>3 DEF T
<1>10. ch \in [1..N -> Seq(D)]
  <2>1. ch = [n \in 1..N |-> ch[n]]
    <3> HIDE DEF body
    <3>1. DOMAIN body(ch) = 1..N /\ body(ch) = [n \in 1..N |-> body(ch)[n]]
      BY DEF body
    <3> QED
      BY <1>6, <3>1
  <2> QED
    BY <1>9, <2>1
<1>11. ch[1] = s[1] /\ \A i \in 2..N : ch[i] = ch[i - 1] \o s[i]
  <2>1. 1 \in 1..N /\ \A i \in 2..N : i \in 1..N /\ i # 1
    OBVIOUS
  <2> QED
    BY <1>8, <2>1
<1> QED
  BY <1>1, <1>7, <1>10, <1>11

\* The elements of two sequences joined.
LEMMA JoinedSet ==
    ASSUME NEW D, NEW a \in Seq(D), NEW b \in Seq(D)
    PROVE  ToSet(a \o b) = ToSet(a) \cup ToSet(b)
<1>1. PICK m \in Nat, n \in Nat : m = Len(a) /\ n = Len(b) /\ DOMAIN a = 1..m /\ DOMAIN b = 1..n
  OBVIOUS
<1>2. PICK c \in Seq(D) : c = a \o b
  BY ConcatProperties
<1>3. /\ DOMAIN c = 1..(m + n)
      /\ \A i \in 1..m : c[i] = a[i]
      /\ \A i \in 1..n : c[m + i] = b[i]
  BY <1>1, <1>2, ConcatProperties
<1>4. \A i \in 1..(m + n) : i \in 1..m \/ (i - m \in 1..n /\ i = m + (i - m))
  BY <1>1
<1>5. ASSUME NEW i \in DOMAIN c PROVE c[i] \in ToSet(a) \cup ToSet(b)
  <2>1. CASE i \in 1..m
    BY <1>1, <1>3, <2>1 DEF ToSet
  <2>2. CASE i \notin 1..m
    <3>1. i - m \in 1..n /\ i = m + (i - m)
      BY <1>3, <1>4, <2>2
    <3>2. c[i] = b[i - m]
      BY <1>3, <3>1
    <3> QED BY <1>1, <3>1, <3>2 DEF ToSet
  <2> QED BY <2>1, <2>2
<1>6. \A i \in 1..m : i \in 1..(m + n)
  BY <1>1
<1>7. \A i \in 1..n : m + i \in 1..(m + n)
  BY <1>1
<1>8. (\A i \in 1..m : a[i] \in ToSet(c)) /\ \A i \in 1..n : b[i] \in ToSet(c)
  <2>1. ASSUME NEW i \in 1..m PROVE a[i] \in ToSet(c)
    <3>1. i \in DOMAIN c /\ a[i] = c[i]
      BY <1>3, <1>6
    <3> QED BY <3>1 DEF ToSet
  <2>2. ASSUME NEW i \in 1..n PROVE b[i] \in ToSet(c)
    <3>1. m + i \in DOMAIN c /\ b[i] = c[m + i]
      BY <1>3, <1>7
    <3> QED BY <3>1 DEF ToSet
  <2> QED BY <2>1, <2>2
<1>9. ToSet(c) \subseteq ToSet(a) \cup ToSet(b)
  <2>1. ToSet(c) = {c[i] : i \in DOMAIN c}
    BY DEF ToSet
  <2> QED BY <1>5, <2>1
<1>10. ToSet(a) \cup ToSet(b) \subseteq ToSet(c)
  <2>1. ToSet(a) = {a[i] : i \in 1..m} /\ ToSet(b) = {b[i] : i \in 1..n}
    BY <1>1 DEF ToSet
  <2> QED BY <1>8, <2>1
<1> QED BY <1>2, <1>9, <1>10

\* What is joined has the elements of what it is joined of.
LEMMA Flattened ==
    ASSUME NEW D, NEW s \in Seq(Seq(D))
    PROVE  /\ FlattenSeq(s) \in Seq(D)
           /\ ToSet(FlattenSeq(s)) = UNION {ToSet(s[i]) : i \in DOMAIN s}
<1>1. CASE s = <<>>
  BY <1>1 DEF FlattenSeq, ToSet
<1>2. CASE s # <<>>
  <2>1. PICK N \in Nat \ {0} : N = Len(s) /\ DOMAIN s = 1..N /\ \A i \in 1..N : s[i] \in Seq(D)
    BY <1>2
  <2>2. PICK f \in [1..N -> Seq(D)] :
              /\ f[1] = s[1]
              /\ \A i \in 2..N : f[i] = f[i - 1] \o s[i]
              /\ FlattenSeq(s) = f[N]
    BY <1>2, <2>1, FlattenJoins
  <2> DEFINE upto(n) == UNION {ToSet(s[i]) : i \in 1..n}
             T == {n \in Nat : n \in 1..N => ToSet(f[n]) = upto(n)}
  <2>3. 0 \in T
    OBVIOUS
  <2>4. ASSUME NEW n \in Nat, n \in T PROVE n + 1 \in T
    <3> SUFFICES ASSUME n + 1 \in 1..N PROVE ToSet(f[n + 1]) = upto(n + 1)
      BY n + 1 \in Nat
    <3>1. CASE n = 0
      <4>1. n + 1 = 1 /\ 1..1 = {1}
        BY <3>1
      <4>2. upto(1) = ToSet(s[1])
        BY <4>1
      <4> QED BY <4>1, <4>2, <2>2
    <3>2. CASE n # 0
      <4>1. n \in 1..N /\ n + 1 \in 2..N /\ (n + 1) - 1 = n
        BY <3>2
      <4>2. f[n + 1] = f[n] \o s[n + 1] /\ f[n] \in Seq(D) /\ s[n + 1] \in Seq(D)
        BY <2>1, <2>2, <4>1
      <4>3. ToSet(f[n + 1]) = ToSet(f[n]) \cup ToSet(s[n + 1])
        BY <4>2, JoinedSet
      <4>4. upto(n + 1) = upto(n) \cup ToSet(s[n + 1])
        <5>1. \A i : i \in 1..(n + 1) <=> i \in 1..n \/ i = n + 1
          BY <4>1
        <5> QED BY <5>1
      <4>5. ToSet(f[n]) = upto(n)
        BY <2>4, <4>1
      <4> QED BY <4>3, <4>4, <4>5
    <3> QED BY <3>1, <3>2
  <2>5. N \in T
    <3> HIDE DEF T
    <3> QED BY <2>3, <2>4, SetInduction
  <2>6. N \in 1..N
    OBVIOUS
  <2> QED BY <2>1, <2>2, <2>5, <2>6
<1> QED BY <1>1, <1>2

\* The parts in order, of sections 1..M(o) of objects 1..N.
LEMMA OrderedParts ==
    ASSUME NEW D, NEW parts \in Seq(Seq(Seq(D)))
    PROVE  /\ InOrder(parts) \in Seq(D)
           /\ \A x : x \in ToSet(InOrder(parts)) <=>
                \E o \in DOMAIN parts : \E s \in DOMAIN parts[o] : x \in ToSet(parts[o][s])
<1>1. PICK N \in Nat : N = Len(parts) /\ DOMAIN parts = 1..N /\ \A o \in 1..N : parts[o] \in Seq(Seq(D))
  OBVIOUS
<1> DEFINE flat == [o \in DOMAIN parts |-> FlattenSeq(parts[o])]
<1>2. \A o \in 1..N : /\ FlattenSeq(parts[o]) \in Seq(D)
                      /\ ToSet(FlattenSeq(parts[o])) = UNION {ToSet(parts[o][s]) : s \in DOMAIN parts[o]}
  BY <1>1, Flattened
<1>3. flat \in Seq(Seq(D)) /\ DOMAIN flat = 1..N
  BY <1>1, <1>2
<1>4. \A o \in 1..N : flat[o] = FlattenSeq(parts[o])
  BY <1>1
<1>5. InOrder(parts) = FlattenSeq(flat)
  BY DEF InOrder
<1> HIDE DEF flat
<1>6. InOrder(parts) \in Seq(D) /\ ToSet(InOrder(parts)) = UNION {ToSet(flat[o]) : o \in 1..N}
  BY <1>3, <1>5, Flattened
<1>7. \A x : x \in ToSet(InOrder(parts)) <=> \E o \in 1..N : x \in ToSet(FlattenSeq(parts[o]))
  BY <1>4, <1>6
<1>8. \A x : \A o \in 1..N : x \in ToSet(FlattenSeq(parts[o])) <=> \E s \in DOMAIN parts[o] : x \in ToSet(parts[o][s])
  <2> TAKE x
  <2> TAKE o \in 1..N
  <2>1. ToSet(FlattenSeq(parts[o])) = UNION {ToSet(parts[o][s]) : s \in DOMAIN parts[o]}
    BY <1>2
  <2> QED BY <2>1
<1> QED BY <1>1, <1>6, <1>7, <1>8

-----------------------------------------------------------------------------
(* The two layout passes.                                                  *)

\* The objects of a link: a sequence of what clang writes.
Linkable(objs) ==
    /\ \E N \in Nat : DOMAIN objs = 1..N
    /\ \A o \in DOMAIN objs : WellFormed(objs[o])

\* What a lab links is what clang writes.
LEMMA ObjsLinkable ==
    ASSUME ObjectAssumption, NEW ids \in Inputs
    PROVE  Linkable(Objs(ids))
<1>1. CASE \E s \in Shapes : ids = <<s>>
  <2>1. PICK s \in Shapes : ids = <<s>>
    BY <1>1
  <2>2. DOMAIN ids = 1..1 /\ ids[1] = s
    BY <2>1
  <2>3. DOMAIN Objs(ids) = 1..1 /\ Objs(ids)[1] = Object[s]
    BY <2>2 DEF Objs
  <2>4. \A o \in 1..1 : o = 1
    OBVIOUS
  <2> QED BY <2>3, <2>4, ObjectAssumption DEF Linkable, ObjectAssumption
<1>2. CASE ids \in Shapes \X Libraries
  <2>1. DOMAIN ids = 1..2 /\ ids[1] \in Shapes \cup Libraries /\ ids[2] \in Shapes \cup Libraries
    BY <1>2
  <2>2. DOMAIN Objs(ids) = 1..2 /\ Objs(ids)[1] = Object[ids[1]] /\ Objs(ids)[2] = Object[ids[2]]
    BY <2>1 DEF Objs
  <2>3. \A o \in 1..2 : o = 1 \/ o = 2
    OBVIOUS
  <2> QED BY <2>1, <2>2, <2>3, ObjectAssumption DEF Linkable, ObjectAssumption
<1> QED BY <1>1, <1>2 DEF Inputs

\* The sections of an object and their relocations are numbered.
LEMMA Sections ==
    ASSUME NEW objs, Linkable(objs), NEW o \in DOMAIN objs
    PROVE  /\ \E M \in Nat : DOMAIN objs[o].sections = 1..M
           /\ \A s \in DOMAIN objs[o].sections :
                /\ Size(objs[o].sections[s]) \in Nat
                /\ \E M \in Nat : DOMAIN objs[o].sections[s].relocs = 1..M
  BY DEF Linkable, WellFormed, Sequential, Size

\* The chunks of a name are the sections that have it.
LEMMA ChunksAre ==
    ASSUME NEW objs, Linkable(objs), NEW name
    PROVE  /\ Chunks(objs, name) \in Seq(Nat \X Nat)
           /\ \A k \in DOMAIN Chunks(objs, name) : \E o \in DOMAIN objs : \E s \in DOMAIN objs[o].sections :
                Chunks(objs, name)[k] = <<o, s>> /\ objs[o].sections[s].name = name
           /\ \A o \in DOMAIN objs : \A s \in DOMAIN objs[o].sections :
                objs[o].sections[s].name = name =>
                  \E k \in DOMAIN Chunks(objs, name) : Chunks(objs, name)[k] = <<o, s>>
<1> DEFINE D == Nat \X Nat
           one(o, s) == IF objs[o].sections[s].name = name THEN <<<<o, s>>>> ELSE <<>>
           part(o) == [s \in DOMAIN objs[o].sections |-> one(o, s)]
           parts == [o \in DOMAIN objs |-> part(o)]
<1>1. PICK N \in Nat : DOMAIN objs = 1..N
  BY DEF Linkable
<1>2. ASSUME NEW o \in 1..N PROVE part(o) \in Seq(Seq(D))
  <2>1. PICK M \in Nat : DOMAIN objs[o].sections = 1..M
    BY <1>1, Sections
  <2>2. ASSUME NEW s \in 1..M PROVE one(o, s) \in Seq(D)
    <3>1. <<o, s>> \in D
      BY <1>1
    <3> HIDE DEF D
    <3>2. <<<<o, s>>>> \in Seq(D) /\ <<>> \in Seq(D)
      BY <3>1
    <3> QED BY <3>2
  <2> HIDE DEF one
  <2> QED BY <2>1, <2>2
<1>3. parts \in Seq(Seq(Seq(D))) /\ DOMAIN parts = 1..N
  <2> HIDE DEF part
  <2> QED BY <1>1, <1>2
<1>4. Chunks(objs, name) = InOrder(parts)
  BY DEF Chunks
<1>5. \A o \in DOMAIN objs : DOMAIN parts[o] = DOMAIN objs[o].sections
                             /\ \A s \in DOMAIN objs[o].sections : parts[o][s] = one(o, s)
  OBVIOUS
<1> HIDE DEF parts
<1>6. /\ InOrder(parts) \in Seq(D)
      /\ \A x : x \in ToSet(InOrder(parts)) <=>
           \E o \in DOMAIN objs : \E s \in DOMAIN objs[o].sections : x \in ToSet(one(o, s))
  <2> HIDE DEF one, part, D
  <2>1. /\ InOrder(parts) \in Seq(D)
        /\ \A x : x \in ToSet(InOrder(parts)) <=>
             \E o \in DOMAIN parts : \E s \in DOMAIN parts[o] : x \in ToSet(parts[o][s])
    BY <1>3, OrderedParts
  <2> QED BY <2>1, <1>1, <1>3, <1>5
<1>7. \A o, s, x : x \in ToSet(one(o, s)) <=> objs[o].sections[s].name = name /\ x = <<o, s>>
  <2>1. \A y : ToSet(<<y>>) = {y}
    BY DEF ToSet
  <2>2. ToSet(<<>>) = {}
    BY DEF ToSet
  <2> QED BY <2>1, <2>2
<1> HIDE DEF one
<1>8. \A x : x \in ToSet(Chunks(objs, name)) <=> \E k \in DOMAIN Chunks(objs, name) : Chunks(objs, name)[k] = x
  BY DEF ToSet
<1>9. \A x : x \in ToSet(Chunks(objs, name)) <=>
           \E o \in DOMAIN objs : \E s \in DOMAIN objs[o].sections : objs[o].sections[s].name = name /\ x = <<o, s>>
  BY <1>4, <1>6, <1>7
<1>10. \A k \in DOMAIN Chunks(objs, name) : Chunks(objs, name)[k] \in ToSet(Chunks(objs, name))
  BY DEF ToSet
<1>11. \A k \in DOMAIN Chunks(objs, name) : \E o \in DOMAIN objs : \E s \in DOMAIN objs[o].sections :
         Chunks(objs, name)[k] = <<o, s>> /\ objs[o].sections[s].name = name
  BY <1>9, <1>10
<1>12. \A o \in DOMAIN objs : \A s \in DOMAIN objs[o].sections :
         objs[o].sections[s].name = name => <<o, s>> \in ToSet(Chunks(objs, name))
  BY <1>9
<1>13. Chunks(objs, name) \in Seq(Nat \X Nat)
  BY <1>4, <1>6
<1> QED BY <1>8, <1>11, <1>12, <1>13

\* A kept section <<object, number>>.
IsKept(l, o, s) == o \in DOMAIN l.objs /\ s \in DOMAIN l.objs[o].sections /\ Kept(l, o, s)

\* The relocations are those of the sections that are kept.
RelocationsOf(l, rels) ==
    /\ \E N \in Nat : DOMAIN rels = 1..N
    /\ \A k \in DOMAIN rels : \E o, s : \E rel \in ToSet(Section(l, o, s).relocs) :
         IsKept(l, o, s) /\ rels[k] = <<o, s, rel>>
    /\ \A o, s : \A rel \in ToSet(Section(l, o, s).relocs) :
         IsKept(l, o, s) => \E k \in DOMAIN rels : rels[k] = <<o, s, rel>>

\* Every relocation of a kept section is applied, and no other.
LEMMA RelocationsAre ==
    ASSUME NEW l, Linkable(l.objs)
    PROVE  RelocationsOf(l, Relocations(l))
<1> DEFINE recs(o, s) == [r \in DOMAIN Section(l, o, s).relocs |-> <<o, s, Section(l, o, s).relocs[r]>>]
           one(o, s) == IF Kept(l, o, s) THEN recs(o, s) ELSE <<>>
           part(o) == [s \in DOMAIN l.objs[o].sections |-> one(o, s)]
           parts == [o \in DOMAIN l.objs |-> part(o)]
           D == UNION {UNION {ToSet(recs(o, s)) : s \in DOMAIN l.objs[o].sections} : o \in DOMAIN l.objs}
<1>1. PICK N \in Nat : DOMAIN l.objs = 1..N
  BY DEF Linkable
<1>2. ASSUME NEW o \in 1..N PROVE part(o) \in Seq(Seq(D))
  <2>1. PICK M \in Nat : DOMAIN l.objs[o].sections = 1..M
    BY <1>1, Sections
  <2>2. ASSUME NEW s \in 1..M PROVE one(o, s) \in Seq(D)
    <3>1. PICK R \in Nat : DOMAIN Section(l, o, s).relocs = 1..R
      BY <1>1, <2>1, Sections DEF Section
    <3>2. \A r \in 1..R : recs(o, s)[r] \in ToSet(recs(o, s))
      BY <3>1 DEF ToSet
    <3>3. ToSet(recs(o, s)) \subseteq D
      <4> HIDE DEF recs
      <4> QED BY <1>1, <2>1
    <3>4. recs(o, s) = [r \in 1..R |-> recs(o, s)[r]]
      BY <3>1
    <3> HIDE DEF recs, D
    <3>5. recs(o, s) \in Seq(D)
      BY <3>2, <3>3, <3>4
    <3> QED BY <3>5
  <2> HIDE DEF one, D
  <2> QED BY <2>1, <2>2
<1>3. parts \in Seq(Seq(Seq(D))) /\ DOMAIN parts = 1..N
  <2> HIDE DEF part, D
  <2> QED BY <1>1, <1>2
<1>4. Relocations(l) = InOrder(parts)
  BY DEF Relocations
<1>5. \A o \in DOMAIN l.objs : DOMAIN parts[o] = DOMAIN l.objs[o].sections
                             /\ \A s \in DOMAIN l.objs[o].sections : parts[o][s] = one(o, s)
  OBVIOUS
<1> HIDE DEF parts
<1>6. /\ InOrder(parts) \in Seq(D)
      /\ \A x : x \in ToSet(InOrder(parts)) <=>
           \E o \in DOMAIN l.objs : \E s \in DOMAIN l.objs[o].sections : x \in ToSet(one(o, s))
  <2> HIDE DEF one, part, D
  <2>1. /\ InOrder(parts) \in Seq(D)
        /\ \A x : x \in ToSet(InOrder(parts)) <=>
             \E o \in DOMAIN parts : \E s \in DOMAIN parts[o] : x \in ToSet(parts[o][s])
    BY <1>3, OrderedParts
  <2> QED BY <2>1, <1>1, <1>3, <1>5
<1>7. \A o, s, x : x \in ToSet(one(o, s)) <=>
                     Kept(l, o, s) /\ \E rel \in ToSet(Section(l, o, s).relocs) : x = <<o, s, rel>>
  <2>1. \A o, s, x : x \in ToSet(recs(o, s)) <=> \E rel \in ToSet(Section(l, o, s).relocs) : x = <<o, s, rel>>
    BY DEF ToSet
  <2>2. ToSet(<<>>) = {}
    BY DEF ToSet
  <2> HIDE DEF recs
  <2> QED BY <2>1, <2>2
<1> HIDE DEF one, D
<1>8. \A x : x \in ToSet(Relocations(l)) <=> \E k \in DOMAIN Relocations(l) : Relocations(l)[k] = x
  BY DEF ToSet
<1>9. \E M \in Nat : DOMAIN Relocations(l) = 1..M
  BY <1>4, <1>6
<1>10. \A x : x \in ToSet(Relocations(l)) <=>
          \E o \in DOMAIN l.objs : \E s \in DOMAIN l.objs[o].sections :
            Kept(l, o, s) /\ \E rel \in ToSet(Section(l, o, s).relocs) : x = <<o, s, rel>>
  BY <1>4, <1>6, <1>7
<1>11. \A k \in DOMAIN Relocations(l) : Relocations(l)[k] \in ToSet(Relocations(l))
  BY DEF ToSet
<1>12. \A k \in DOMAIN Relocations(l) : \E o \in DOMAIN l.objs : \E s \in DOMAIN l.objs[o].sections :
         \E rel \in ToSet(Section(l, o, s).relocs) : Kept(l, o, s) /\ Relocations(l)[k] = <<o, s, rel>>
  BY <1>10, <1>11
<1>13. \A o \in DOMAIN l.objs : \A s \in DOMAIN l.objs[o].sections :
         \A rel \in ToSet(Section(l, o, s).relocs) : Kept(l, o, s) => <<o, s, rel>> \in ToSet(Relocations(l))
  BY <1>10
<1>14. \A o, s : \A rel \in ToSet(Section(l, o, s).relocs) :
         IsKept(l, o, s) => \E k \in DOMAIN Relocations(l) : Relocations(l)[k] = <<o, s, rel>>
  BY <1>8, <1>13 DEF IsKept
<1>15. \A k \in DOMAIN Relocations(l) : \E o, s : \E rel \in ToSet(Section(l, o, s).relocs) :
         IsKept(l, o, s) /\ Relocations(l)[k] = <<o, s, rel>>
  BY <1>12 DEF IsKept
<1> QED BY <1>9, <1>14, <1>15 DEF RelocationsOf

ChunkSize(objs, chunks, k) == Size(SectionOf(objs, chunks[k]))

\* linkSections puts each chunk behind the one before, aligned.
LEMMA StartsAre ==
    ASSUME LinkAssumption, NEW objs, NEW chunks, NEW N \in Nat, DOMAIN chunks = 1..N,
           \A k \in 1..N : ChunkSize(objs, chunks, k) \in Nat
    PROVE  /\ Starts(objs, chunks) \in [1..N -> Nat]
           /\ \A k \in 1..N : Starts(objs, chunks)[k] =
                IF k = 1 THEN 0
                ELSE Up(Starts(objs, chunks)[k - 1] + ChunkSize(objs, chunks, k - 1), Alignment)
<1> DEFINE size(k) == ChunkSize(objs, chunks, k)
           F == [q \in Nat \X (1..N) |-> Up(q[1] + size(q[2] - 1), Alignment)]
           body(g) == [k \in 1..N |-> IF k = 1 THEN 0 ELSE Up(g[k - 1] + size(k - 1), Alignment)]
           start == CHOOSE g : g = body(g)
<1> HIDE DEF size
<1>1. \A n \in 1..N, s \in Nat : F[<<s, n>>] = Up(s + size(n - 1), Alignment)
  OBVIOUS
<1>2. \A n \in 2..N : \A s \in Nat : F[<<s, n>>] \in Nat
  <2> SUFFICES ASSUME NEW n \in 2..N, NEW s \in Nat PROVE F[<<s, n>>] \in Nat
    OBVIOUS
  <2>1. n \in 1..N /\ n - 1 \in 1..N
    OBVIOUS
  <2>2. size(n - 1) \in Nat /\ Alignment \in Nat \ {0}
    BY <2>1, LinkAssumption DEF size, LinkAssumption
  <2>3. PICK u \in Nat : u = s + size(n - 1)
    BY <2>2
  <2>4. Up(u, Alignment) \in Nat
    BY <2>2, UpRounds
  <2> HIDE DEF F
  <2> QED BY <1>1, <2>1, <2>3, <2>4
<1> HIDE DEF F
<1>3. PICK h \in [1..N -> Nat] : h = [n \in 1..N |-> IF n = 1 THEN 0 ELSE F[<<h[n - 1], n>>]]
  <2> DEFINE S == Nat  zero == 0
  <2>1. zero \in S /\ \A n \in 2..N : \A s \in S : F[<<s, n>>] \in S
    BY <1>2
  <2> HIDE DEF S, zero
  <2>2. \E h \in [1..N -> S] : Counted(h, zero, N, F)
    BY <2>1, CountedRecursion
  <2> QED BY <2>2 DEF S, zero, Counted
<1>4. h = body(h)
  <2>1. \A n \in 1..N : n # 1 => n - 1 \in 1..N
    OBVIOUS
  <2>2. \A n \in 1..N : n # 1 => F[<<h[n - 1], n>>] = Up(h[n - 1] + size(n - 1), Alignment)
    BY <1>1, <2>1
  <2> QED BY <1>3, <2>2
<1>5. start = body(start)
  <2> HIDE DEF body
  <2> QED BY <1>4
<1>6. Starts(objs, chunks) = [k \in 1..N |-> start[k]]
  BY DEF Starts, ChunkSize, size
<1> HIDE DEF start
<1>7. \A k \in 1..N : start[k] = IF k = 1 THEN 0 ELSE Up(start[k - 1] + size(k - 1), Alignment)
  BY <1>5
<1>8. \A k \in 1..N : start[k] \in Nat
  <2> DEFINE T == {n \in Nat : n \in 1..N => start[n] \in Nat}
  <2>1. 0 \in T
    OBVIOUS
  <2>2. ASSUME NEW n \in Nat, n \in T PROVE n + 1 \in T
    <3> SUFFICES ASSUME n + 1 \in 1..N PROVE start[n + 1] \in Nat
      BY n + 1 \in Nat
    <3>1. CASE n = 0
      BY <1>7, <3>1
    <3>2. CASE n # 0
      <4>1. n \in 1..N /\ (n + 1) - 1 = n /\ n + 1 # 1
        BY <3>2
      <4>2. start[n] \in Nat /\ size(n) \in Nat /\ Alignment \in Nat \ {0}
        BY <2>2, <4>1, LinkAssumption DEF size, LinkAssumption
      <4>3. PICK u \in Nat : u = start[n] + size(n)
        BY <4>2
      <4>4. start[n + 1] = Up(u, Alignment)
        BY <1>7, <4>1, <4>3
      <4> QED BY <4>2, <4>4, UpRounds
    <3> QED BY <3>1, <3>2
  <2> HIDE DEF T
  <2>3. Nat \subseteq T
    BY <2>1, <2>2, SetInduction
  <2> QED BY <2>3 DEF T
<1>9. Starts(objs, chunks) \in [1..N -> Nat] /\ \A k \in 1..N : Starts(objs, chunks)[k] = start[k]
  BY <1>6, <1>8
<1>10. ASSUME NEW k \in 1..N
       PROVE  Starts(objs, chunks)[k] = IF k = 1 THEN 0 ELSE Up(Starts(objs, chunks)[k - 1] + size(k - 1), Alignment)
  <2>1. k # 1 => k - 1 \in 1..N
    OBVIOUS
  <2> QED BY <1>7, <1>9, <2>1
<1> QED BY <1>9, <1>10 DEF size

\* Chunks lie apart, and inside their output section.
LEMMA ChunksApart ==
    ASSUME LinkAssumption, NEW objs, NEW chunks \in Seq(Nat \X Nat), NEW N \in Nat, DOMAIN chunks = 1..N,
           \A k \in 1..N : ChunkSize(objs, chunks, k) \in Nat,
           NEW start \in [1..N -> Nat], start = Starts(objs, chunks)
    PROVE  /\ \A j, k \in 1..N : j < k => start[j] + ChunkSize(objs, chunks, j) <= start[k]
           /\ Total(objs, chunks, start) \in Nat
           /\ \A k \in 1..N : start[k] + ChunkSize(objs, chunks, k) <= Total(objs, chunks, start)
<1>0. PICK size \in [1..N -> Nat] : \A k \in 1..N : size[k] = ChunkSize(objs, chunks, k)
  <2> DEFINE f == [k \in 1..N |-> ChunkSize(objs, chunks, k)]
  <2>1. f \in [1..N -> Nat] /\ \A k \in 1..N : f[k] = ChunkSize(objs, chunks, k)
    OBVIOUS
  <2> QED BY <2>1
<1>1. \A k \in 1..N : start[k] \in Nat /\ size[k] \in Nat
  OBVIOUS
<1>2. ASSUME NEW k \in 2..N PROVE k - 1 \in 1..N /\ start[k] >= start[k - 1] + size[k - 1]
  <2>1. k - 1 \in 1..N /\ k \in 1..N /\ k # 1
    OBVIOUS
  <2>2. PICK u \in Nat : u = start[k - 1] + size[k - 1]
    BY <1>1, <2>1
  <2>3. start[k] = Up(start[k - 1] + ChunkSize(objs, chunks, k - 1), Alignment)
    BY <2>1, StartsAre
  <2>5. start[k] = Up(u, Alignment)
    BY <1>0, <2>1, <2>2, <2>3
  <2>4. Alignment \in Nat \ {0}
    BY LinkAssumption DEF LinkAssumption
  <2> QED BY <2>1, <2>2, <2>4, <2>5, UpRounds
<1>3. \A n \in Nat : \A j \in 1..N : j < n /\ n <= N => start[j] + size[j] <= start[n]
  <2> DEFINE T == {n \in Nat : \A j \in 1..N : j < n /\ n <= N => start[j] + size[j] <= start[n]}
  <2>1. 0 \in T
    OBVIOUS
  <2>2. ASSUME NEW n \in Nat, n \in T PROVE n + 1 \in T
    <3> SUFFICES ASSUME NEW j \in 1..N, j < n + 1, n + 1 <= N PROVE start[j] + size[j] <= start[n + 1]
      BY n + 1 \in Nat
    <3>1. n \in 1..N /\ n + 1 \in 2..N /\ (n + 1) - 1 = n /\ n + 1 \in 1..N
      OBVIOUS
    <3>2. start[n + 1] >= start[n] + size[n]
      BY <1>2, <3>1
    <3>3. CASE j = n
      BY <3>2, <3>3, <1>1, <3>1
    <3>4. CASE j < n
      <4>1. start[j] + size[j] <= start[n]
        BY <2>2, <3>1, <3>4
      <4>2. start[n] \in Nat /\ size[n] \in Nat /\ start[n + 1] \in Nat /\ start[j] \in Nat /\ size[j] \in Nat
        BY <1>1, <3>1
      <4>3. \A a, b, c, d, e \in Nat : a + b <= c /\ e >= c + d => a + b <= e
        OBVIOUS
      <4> QED BY <3>2, <4>1, <4>2, <4>3
    <3> QED BY <3>3, <3>4
  <2> HIDE DEF T
  <2>3. Nat \subseteq T
    BY <2>1, <2>2, SetInduction
  <2> QED BY <2>3 DEF T
<1>4. \A j, k \in 1..N : j < k => start[j] + size[j] <= start[k]
  BY <1>3
<1>5. CASE N = 0
  <2>1. chunks = <<>>
    BY <1>5
  <2>2. Total(objs, chunks, start) = 0
    BY <2>1 DEF Total
  <2>3. \A k \in 1..N : FALSE
    BY <1>5
  <2>4. \A j, k \in 1..N : j < k => start[j] + ChunkSize(objs, chunks, j) <= start[k]
    BY <1>0, <1>4
  <2>5. Total(objs, chunks, start) \in Nat
    BY <2>2
  <2>6. \A k \in 1..N : start[k] + ChunkSize(objs, chunks, k) <= Total(objs, chunks, start)
    BY <2>3
  <2> QED BY <2>4, <2>5, <2>6
<1>6. CASE N # 0
  <2>1. chunks # <<>> /\ Len(chunks) = N /\ Len(start) = N /\ N \in 1..N
    BY <1>6
  <2>2. Total(objs, chunks, start) = start[N] + size[N]
    BY <2>1, <1>0 DEF Total, Last, ChunkSize
  <2>3. \A k \in 1..N : k = N \/ k < N
    OBVIOUS
  <2>4. \A k \in 1..N : start[k] + size[k] <= start[N] + size[N]
    <3> TAKE k \in 1..N
    <3>1. CASE k < N
      <4>1. start[k] + size[k] <= start[N]
        BY <1>4, <2>1, <3>1
      <4>2. start[N] \in Nat /\ size[N] \in Nat /\ start[k] \in Nat /\ size[k] \in Nat
        BY <1>1, <2>1
      <4>3. \A a, b, c, d \in Nat : a + b <= c => a + b <= c + d
        OBVIOUS
      <4> QED BY <4>1, <4>2, <4>3
    <3> QED BY <3>1, <2>3, <1>1
  <2>5. start[N] + size[N] \in Nat
    BY <1>1, <2>1
  <2>6. Total(objs, chunks, start) \in Nat /\ \A k \in 1..N : start[k] + size[k] <= Total(objs, chunks, start)
    BY <2>2, <2>4, <2>5
  <2>7. \A j, k \in 1..N : j < k => start[j] + ChunkSize(objs, chunks, j) <= start[k]
    BY <1>0, <1>4
  <2> QED BY <1>0, <2>6, <2>7
<1> QED BY <1>5, <1>6

\* The second pass finds each chunk where the first one put it.
LEMMA PassesAgree ==
    ASSUME LinkAssumption, NEW objs, NEW chunks \in Seq(Nat \X Nat), NEW N \in Nat, DOMAIN chunks = 1..N,
           \A k \in 1..N : ChunkSize(objs, chunks, k) \in Nat
    PROVE  Retraced(objs, chunks) = Starts(objs, chunks)
<1> DEFINE start == Starts(objs, chunks)
           F == [q \in Nat \X (1..N) |-> Up(q[1], Alignment) + ChunkSize(objs, chunks, q[2])]
           body(g) == [k \in 0..N |-> IF k = 0 THEN 0
                                      ELSE Up(g[k - 1], Alignment) + Size(SectionOf(objs, chunks[k]))]
           end == CHOOSE g : g = body(g)
<1>0. PICK size \in [1..N -> Nat] : \A k \in 1..N : size[k] = ChunkSize(objs, chunks, k)
  <2> DEFINE f == [k \in 1..N |-> ChunkSize(objs, chunks, k)]
  <2>1. f \in [1..N -> Nat] /\ \A k \in 1..N : f[k] = ChunkSize(objs, chunks, k)
    OBVIOUS
  <2> QED BY <2>1
<1>1. Alignment \in Nat \ {0} /\ Len(chunks) = N
  BY LinkAssumption DEF LinkAssumption
<1>2. \A n \in 1..N, q \in Nat : F[<<q, n>>] = Up(q, Alignment) + size[n]
  BY <1>0
<1> HIDE DEF F
<1>3. \A n \in 1..N : \A q \in Nat : F[<<q, n>>] \in Nat
  <2> SUFFICES ASSUME NEW n \in 1..N, NEW q \in Nat PROVE F[<<q, n>>] \in Nat
    OBVIOUS
  <2>1. PICK u \in Nat : u = Up(q, Alignment)
    BY <1>1, UpRounds
  <2>2. PICK z \in Nat : z = size[n]
    OBVIOUS
  <2>3. F[<<q, n>>] = u + z
    BY <1>2, <2>1, <2>2
  <2>4. u + z \in Nat
    OBVIOUS
  <2> QED BY <2>3, <2>4
<1>4. PICK h \in [0..N -> Nat] : Recursive(h, 0, N, F)
  <2> DEFINE S == Nat  zero == 0
  <2>1. zero \in S /\ \A n \in 1..N : \A q \in S : F[<<q, n>>] \in S
    BY <1>3
  <2> HIDE DEF S, zero
  <2>2. \E h \in [0..N -> S] : Recursive(h, zero, N, F)
    BY <2>1, RecursionExists
  <2> QED BY <2>2 DEF S, zero
<1>5. h = body(h)
  <2>1. \A n \in 0..N : n # 0 => n - 1 \in 0..N /\ n \in 1..N
    OBVIOUS
  <2>2. \A n \in 0..N : n # 0 => F[<<h[n - 1], n>>] = Up(h[n - 1], Alignment) + Size(SectionOf(objs, chunks[n]))
    BY <1>0, <1>2, <2>1 DEF ChunkSize
  <2> QED BY <1>4, <2>2 DEF Recursive
<1>6. end = body(end)
  <2> HIDE DEF body
  <2> QED BY <1>5
<1>7. Retraced(objs, chunks) = [k \in 1..N |-> Up(end[k - 1], Alignment)]
  BY <1>1 DEF Retraced
<1> HIDE DEF end
<1>8. \A k \in 0..N : end[k] = IF k = 0 THEN 0 ELSE Up(end[k - 1], Alignment) + size[k]
  <2>1. \A k \in 0..N : k # 0 => k \in 1..N
    OBVIOUS
  <2> QED BY <1>0, <1>6, <2>1 DEF ChunkSize
<1>9. start \in [1..N -> Nat] /\ \A k \in 1..N : start[k] = IF k = 1 THEN 0 ELSE Up(start[k - 1] + size[k - 1], Alignment)
  <2>1. /\ start \in [1..N -> Nat]
        /\ \A k \in 1..N : start[k] = IF k = 1 THEN 0
             ELSE Up(start[k - 1] + ChunkSize(objs, chunks, k - 1), Alignment)
    BY StartsAre
  <2> HIDE DEF start
  <2>2. ASSUME NEW k \in 1..N
        PROVE  start[k] = IF k = 1 THEN 0 ELSE Up(start[k - 1] + size[k - 1], Alignment)
    <3>1. k # 1 => k - 1 \in 1..N
      OBVIOUS
    <3>2. k # 1 => size[k - 1] = ChunkSize(objs, chunks, k - 1)
      BY <1>0, <3>1
    <3> QED BY <2>1, <3>2
  <2> QED BY <2>1, <2>2
<1> HIDE DEF start
<1>10. \A n \in Nat : n \in 1..N => Up(end[n - 1], Alignment) = start[n]
  <2> DEFINE T == {n \in Nat : n \in 1..N => Up(end[n - 1], Alignment) = start[n]}
  <2>1. 0 \in T
    OBVIOUS
  <2>2. ASSUME NEW n \in Nat, n \in T PROVE n + 1 \in T
    <3> SUFFICES ASSUME n + 1 \in 1..N PROVE Up(end[n], Alignment) = start[n + 1]
      BY (n + 1) - 1 = n /\ n + 1 \in Nat
    <3>1. CASE n = 0
      <4>1. end[0] = 0 /\ start[1] = 0
        <5>1. 0 \in 0..N /\ 1 \in 1..N
          BY <3>1
        <5> QED BY <1>8, <1>9, <5>1
      <4>2. PICK zero \in Nat : zero = 0
        OBVIOUS
      <4>3. Up(zero, Alignment) = 0
        BY <4>2, <1>1, UpRounds
      <4> QED BY <3>1, <4>1, <4>2, <4>3
    <3>2. CASE n # 0
      <4>1. n \in 1..N /\ n \in 0..N /\ (n + 1) - 1 = n /\ n + 1 # 1
        BY <3>2
      <4>2. end[n] = Up(end[n - 1], Alignment) + size[n]
        BY <1>8, <4>1, <3>2
      <4>3. Up(end[n - 1], Alignment) = start[n]
        BY <2>2, <4>1
      <4>4. start[n + 1] = Up(start[n] + size[n], Alignment)
        BY <1>9, <4>1
      <4> QED BY <4>2, <4>3, <4>4
    <3> QED BY <3>1, <3>2
  <2> HIDE DEF T
  <2>3. Nat \subseteq T
    BY <2>1, <2>2, SetInduction
  <2> QED BY <2>3 DEF T
<1>11. start = [k \in 1..N |-> start[k]]
  BY <1>9
<1>12. \A k \in 1..N : Up(end[k - 1], Alignment) = start[k]
  BY <1>10
<1>13. Retraced(objs, chunks) = start
  BY <1>7, <1>11, <1>12
<1> QED BY <1>13 DEF start

\* The output sections lie apart, inside the image.
LEMMA OutputsApart ==
    ASSUME LinkAssumption, NEW size, \A name \in OutNames : size[name] \in Nat
    PROVE  /\ \A name \in OutNames : Rva(size, name) \in Nat
           /\ \A a, b \in OutNames : a # b =>
                \/ Rva(size, a) + size[a] <= Rva(size, b)
                \/ Rva(size, b) + size[b] <= Rva(size, a)
           /\ \A name \in OutNames :
                Rva(size, name) + size[name] <= Up(Rva(size, ".bss") + size[".bss"], PageSize)
           /\ Up(Rva(size, ".bss") + size[".bss"], PageSize) \in Nat
<1>0. PICK N \in Nat : N = 4
  OBVIOUS
<1>1. /\ DOMAIN Order = 1..N
      /\ Order[1] = ".text" /\ Order[2] = ".rdata" /\ Order[3] = ".data" /\ Order[4] = ".bss"
      /\ \A k \in 1..N : k = 1 \/ k = 2 \/ k = 3 \/ k = 4
      /\ OutNames = {".text", ".rdata", ".data", ".bss"}
  <2>1. DOMAIN Order = 1..N
    BY <1>0 DEF Order
  <2>2. \A k \in 1..N : k = 1 \/ k = 2 \/ k = 3 \/ k = 4
    BY <1>0
  <2>3. Order[1] = ".text" /\ Order[2] = ".rdata" /\ Order[3] = ".data" /\ Order[4] = ".bss"
    BY DEF Order
  <2>4. 1 \in 1..N /\ 2 \in 1..N /\ 3 \in 1..N /\ 4 \in 1..N
    BY <1>0
  <2>5. OutNames = {Order[k] : k \in 1..N}
    BY <2>1 DEF OutNames, ToSet
  <2> QED BY <2>1, <2>2, <2>3, <2>4, <2>5
<1>2. PICK page \in Nat \ {0} : page = PageSize
  BY LinkAssumption DEF LinkAssumption
<1>3. PICK room \in [1..N -> Nat] :
         \A k \in 1..N : /\ room[k] = Up(size[Order[k]], PageSize)
                         /\ size[Order[k]] \in Nat /\ room[k] >= size[Order[k]]
  <2>1. ASSUME NEW k \in 1..N
        PROVE  /\ size[Order[k]] \in Nat /\ Up(size[Order[k]], PageSize) \in Nat
               /\ Up(size[Order[k]], PageSize) >= size[Order[k]]
    <3>1. Order[k] \in OutNames
      BY <1>1
    <3>2. PICK n \in Nat : n = size[Order[k]]
      BY <3>1
    <3> QED BY <3>2, <1>2, UpRounds
  <2> DEFINE f == [k \in 1..N |-> Up(size[Order[k]], PageSize)]
  <2>2. f \in [1..N -> Nat] /\ \A k \in 1..N : f[k] = Up(size[Order[k]], PageSize)
    BY <2>1
  <2> HIDE DEF f
  <2> QED BY <2>1, <2>2
<1> DEFINE F == [q \in Nat \X (1..N) |-> q[1] + room[q[2] - 1]]
           body(g) == [k \in DOMAIN Order |-> IF k = 1 THEN PageSize
                                               ELSE g[k - 1] + Up(size[Order[k - 1]], PageSize)]
           at == CHOOSE g : g = body(g)
<1>4. PICK h \in [1..N -> Nat] : Counted(h, page, N, F)
  <2>1. \A n \in 2..N : \A q \in Nat : F[<<q, n>>] \in Nat
    <3> SUFFICES ASSUME NEW n \in 2..N, NEW q \in Nat PROVE F[<<q, n>>] \in Nat
      OBVIOUS
    <3>1. n \in 1..N /\ n - 1 \in 1..N
      OBVIOUS
    <3>2. F[<<q, n>>] = q + room[n - 1]
      BY <3>1
    <3> HIDE DEF F
    <3> QED BY <1>3, <3>1, <3>2
  <2> DEFINE S == Nat
  <2>2. page \in S /\ \A n \in 2..N : \A q \in S : F[<<q, n>>] \in S
    BY <2>1
  <2> HIDE DEF S, F
  <2>3. \E h \in [1..N -> S] : Counted(h, page, N, F)
    BY <2>2, CountedRecursion
  <2> QED BY <2>3 DEF S
<1>5. h = body(h)
  <2>1. \A n \in 1..N : n # 1 => /\ n - 1 \in 1..N
                                 /\ F[<<h[n - 1], n>>] = h[n - 1] + Up(size[Order[n - 1]], PageSize)
    BY <1>3
  <2> HIDE DEF F
  <2> QED BY <1>1, <1>2, <1>4, <2>1 DEF Counted
<1>6. at = body(at)
  <2> HIDE DEF body
  <2> QED BY <1>5
<1>7. \A name \in OutNames : Rva(size, name) = at[CHOOSE k \in DOMAIN Order : Order[k] = name]
  BY DEF Rva
<1> HIDE DEF at
<1>8. at[1] = page /\ at[2] = at[1] + room[1] /\ at[3] = at[2] + room[2] /\ at[4] = at[3] + room[3]
  <2>1. \A k \in 1..N : at[k] = IF k = 1 THEN page ELSE at[k - 1] + room[k - 1]
    <3>1. \A k \in 1..N : k # 1 => k - 1 \in 1..N
      OBVIOUS
    <3> QED BY <1>1, <1>2, <1>3, <1>6, <3>1
  <2>2. 1 \in 1..N /\ 2 \in 1..N /\ 3 \in 1..N /\ 4 \in 1..N
    BY <1>0
  <2>3. at[1] = page /\ at[2] = at[2 - 1] + room[2 - 1]
    BY <2>1, <2>2
  <2>4. at[3] = at[3 - 1] + room[3 - 1]
    BY <2>1, <2>2
  <2>5. at[4] = at[4 - 1] + room[4 - 1]
    <3>1. 4 \in 1..N /\ 4 # 1
      BY <2>2
    <3> QED BY <2>1, <3>1
  <2>6. 2 - 1 = 1 /\ 3 - 1 = 2 /\ 4 - 1 = 3
    OBVIOUS
  <2> QED BY <2>3, <2>4, <2>5, <2>6
<1>9. /\ Rva(size, ".text") = at[1] /\ Rva(size, ".rdata") = at[2]
      /\ Rva(size, ".data") = at[3] /\ Rva(size, ".bss") = at[4]
  <2>1. 1 \in 1..N /\ 2 \in 1..N /\ 3 \in 1..N /\ 4 \in 1..N
    BY <1>0
  <2>2. (CHOOSE k \in DOMAIN Order : Order[k] = ".text") = 1
    BY <1>1, <2>1
  <2>3. (CHOOSE k \in DOMAIN Order : Order[k] = ".rdata") = 2
    BY <1>1, <2>1
  <2>4. (CHOOSE k \in DOMAIN Order : Order[k] = ".data") = 3
    BY <1>1, <2>1
  <2>5. (CHOOSE k \in DOMAIN Order : Order[k] = ".bss") = 4
    BY <1>1, <2>1
  <2> QED BY <1>1, <1>7, <2>2, <2>3, <2>4, <2>5
<1>10. PICK r1 \in Nat, r2 \in Nat, r3 \in Nat, s1 \in Nat, s2 \in Nat, s3 \in Nat, s4 \in Nat :
         /\ r1 = room[1] /\ r2 = room[2] /\ r3 = room[3]
         /\ s1 = size[".text"] /\ s2 = size[".rdata"] /\ s3 = size[".data"] /\ s4 = size[".bss"]
         /\ r1 >= s1 /\ r2 >= s2 /\ r3 >= s3
  <2>1. 1 \in 1..N /\ 2 \in 1..N /\ 3 \in 1..N /\ 4 \in 1..N
    BY <1>0
  <2> QED BY <1>1, <1>3, <2>1
<1>11. PICK a1 \in Nat, a2 \in Nat, a3 \in Nat, a4 \in Nat :
         /\ a1 = at[1] /\ a2 = at[2] /\ a3 = at[3] /\ a4 = at[4]
         /\ a2 = a1 + r1 /\ a3 = a2 + r2 /\ a4 = a3 + r3
  <2>1. PICK a1 \in Nat : a1 = page
    OBVIOUS
  <2>2. PICK a2 \in Nat : a2 = a1 + r1
    OBVIOUS
  <2>3. PICK a3 \in Nat : a3 = a2 + r2
    OBVIOUS
  <2>4. PICK a4 \in Nat : a4 = a3 + r3
    OBVIOUS
  <2>5. a1 = at[1]
    BY <1>8, <2>1
  <2>6. a2 = at[2]
    BY <1>8, <1>10, <2>2, <2>5
  <2>7. a3 = at[3]
    BY <1>8, <1>10, <2>3, <2>6
  <2>8. a4 = at[4]
    BY <1>8, <1>10, <2>4, <2>7
  <2> QED BY <2>2, <2>3, <2>4, <2>5, <2>6, <2>7, <2>8
<1>12. PICK n \in Nat : n = Rva(size, ".bss") + size[".bss"] /\ n = a4 + s4
  <2>1. Rva(size, ".bss") = a4 /\ size[".bss"] = s4
    BY <1>9, <1>10, <1>11
  <2> QED BY <2>1
<1>13. PICK u \in Nat : u = Up(Rva(size, ".bss") + size[".bss"], PageSize) /\ u >= a4 + s4
  BY <1>2, <1>12, UpRounds
<1>14. /\ Rva(size, ".text") = a1 /\ Rva(size, ".rdata") = a2
       /\ Rva(size, ".data") = a3 /\ Rva(size, ".bss") = a4
  BY <1>9, <1>11
<1>15. \A name \in OutNames : Rva(size, name) \in Nat
  BY <1>1, <1>14
<1>16. a1 + s1 <= a2 /\ a2 + s2 <= a3 /\ a3 + s3 <= a4 /\ a4 + s4 <= u
  <2>1. r1 >= s1 /\ a2 = a1 + r1
    BY <1>10, <1>11
  <2>2. r2 >= s2 /\ a3 = a2 + r2
    BY <1>10, <1>11
  <2>3. r3 >= s3 /\ a4 = a3 + r3
    BY <1>10, <1>11
  <2> QED BY <2>1, <2>2, <2>3, <1>13
<1>17. \A name \in OutNames : Rva(size, name) + size[name] <= u
  <2>1. a1 + s1 <= u /\ a2 + s2 <= u /\ a3 + s3 <= u
    BY <1>16
  <2> QED BY <1>1, <1>10, <1>14, <1>16, <2>1
<1>18. \A a, b \in OutNames : a # b =>
         Rva(size, a) + size[a] <= Rva(size, b) \/ Rva(size, b) + size[b] <= Rva(size, a)
  <2>1. a1 + s1 <= a3 /\ a1 + s1 <= a4 /\ a2 + s2 <= a4
    BY <1>16
  <2> QED BY <1>1, <1>10, <1>14, <1>16, <2>1
<1> QED BY <1>13, <1>15, <1>17, <1>18

-----------------------------------------------------------------------------
(* The layout of a link.                                                   *)

NameOf(l, o, s) == Section(l, o, s).name
SizeOf(l, o, s) == Size(Section(l, o, s))

\* Every kept section has room of its own in its output section, where the merge puts
\* its cells and both passes find it, and the output sections have room of their own.
Layout(l) ==
    /\ Linkable(l.objs) /\ l.base \in Int /\ ImageSize(l) \in Nat
    /\ \A o \in DOMAIN l.objs : l.m.symbols[o] = Primary(l.objs[o].table)
    /\ \A name \in OutNames :
         /\ l.size[name] \in Nat /\ l.rva[name] \in Nat
         /\ l.rva[name] + l.size[name] <= ImageSize(l)
         /\ DOMAIN Merged(l, name) = 0..(l.size[name] - 1)
    /\ \A a, b \in OutNames : a # b =>
         l.rva[a] + l.size[a] <= l.rva[b] \/ l.rva[b] + l.size[b] <= l.rva[a]
    /\ \A o, s : IsKept(l, o, s) =>
         /\ Tracked(l, o, s) \in Nat /\ SizeOf(l, o, s) \in Nat
         /\ Tracked(l, o, s) + SizeOf(l, o, s) <= l.size[NameOf(l, o, s)]
         /\ \A i \in 0..(SizeOf(l, o, s) - 1) :
              Merged(l, NameOf(l, o, s))[Tracked(l, o, s) + i] = Cell(o, Section(l, o, s), i)
    /\ \A o, s, p, t : IsKept(l, o, s) /\ IsKept(l, p, t) /\ NameOf(l, o, s) = NameOf(l, p, t)
                       /\ <<o, s>> # <<p, t>> =>
         \/ Tracked(l, o, s) + SizeOf(l, o, s) <= Tracked(l, p, t)
         \/ Tracked(l, p, t) + SizeOf(l, p, t) <= Tracked(l, o, s)
    /\ \A d : IsKept(l, d[1], SymbolAt(l, d).section) =>
         SymbolRva(l, d) = l.rva[NameOf(l, d[1], SymbolAt(l, d).section)]
                           + Tracked(l, d[1], SymbolAt(l, d).section) + SymbolAt(l, d).value

\* The output section of a name: N chunks, apart and inside it.
Output(objs, chunks, start, N) ==
    /\ chunks \in Seq(Nat \X Nat) /\ DOMAIN chunks = 1..N
    /\ start \in [1..N -> Nat] /\ Retraced(objs, chunks) = start
    /\ \A k \in 1..N : ChunkSize(objs, chunks, k) \in Nat
    /\ \A j, k \in 1..N : j < k => start[j] + ChunkSize(objs, chunks, j) <= start[k]
    /\ Total(objs, chunks, start) \in Nat
    /\ \A k \in 1..N : start[k] + ChunkSize(objs, chunks, k) <= Total(objs, chunks, start)

\* The two passes over the chunks of one name agree and keep them apart.
LEMMA OutputOf ==
    ASSUME LinkAssumption, NEW objs, Linkable(objs), NEW name,
           NEW chunks, chunks = Chunks(objs, name), NEW start, start = Starts(objs, chunks)
    PROVE  \E N \in Nat : Output(objs, chunks, start, N)
<1>1. chunks \in Seq(Nat \X Nat)
  BY ChunksAre
<1>2. PICK N \in Nat : DOMAIN chunks = 1..N
  BY <1>1
<1>3. \A k \in 1..N : ChunkSize(objs, chunks, k) \in Nat
  <2> TAKE k \in 1..N
  <2>1. PICK o \in DOMAIN objs : \E s \in DOMAIN objs[o].sections : chunks[k] = <<o, s>>
    BY <1>2, ChunksAre
  <2>2. PICK s \in DOMAIN objs[o].sections : chunks[k] = <<o, s>>
    BY <2>1
  <2>3. SectionOf(objs, chunks[k]) = objs[o].sections[s]
    BY <2>2 DEF SectionOf
  <2>4. Size(objs[o].sections[s]) \in Nat
    BY Sections
  <2> QED BY <2>3, <2>4 DEF ChunkSize
<1>4. start \in [1..N -> Nat] /\ Retraced(objs, chunks) = start
  BY <1>1, <1>2, <1>3, StartsAre, PassesAgree
<1>5. /\ \A j, k \in 1..N : j < k => start[j] + ChunkSize(objs, chunks, j) <= start[k]
      /\ Total(objs, chunks, start) \in Nat
      /\ \A k \in 1..N : start[k] + ChunkSize(objs, chunks, k) <= Total(objs, chunks, start)
  BY <1>1, <1>2, <1>3, <1>4, ChunksApart
<1> QED BY <1>1, <1>2, <1>3, <1>4, <1>5 DEF Output

\* The fields of a link.
LEMMA LinkIs ==
    ASSUME NEW objs, NEW base, NEW external, NEW l, l = Link(objs, base, external)
    PROVE  /\ l.objs = objs /\ l.base = base /\ l.external = external
           /\ \A o \in DOMAIN objs : l.m.symbols[o] = Primary(objs[o].table)
           /\ \A name \in OutNames :
                /\ l.m.chunks[name] = Chunks(objs, name)
                /\ l.m.starts[name] = Starts(objs, Chunks(objs, name))
                /\ l.size[name] = Total(objs, l.m.chunks[name], l.m.starts[name])
                /\ l.rva[name] = Rva(l.size, name)
<1>1. PICK m : m = LinkSections(objs)
  OBVIOUS
<1>2. /\ \A o \in DOMAIN objs : m.symbols[o] = Primary(objs[o].table)
      /\ \A name \in OutNames : /\ m.chunks[name] = Chunks(objs, name)
                                /\ m.starts[name] = Starts(objs, Chunks(objs, name))
  BY <1>1 DEF LinkSections
<1>3. PICK size : size = [name \in OutNames |-> Total(objs, m.chunks[name], m.starts[name])]
  OBVIOUS
<1>4. l = Placed(objs, base, external, m, size)
  BY <1>1, <1>3 DEF Link, Sized
<1>5. /\ l.objs = objs /\ l.base = base /\ l.external = external /\ l.m = m /\ l.size = size
      /\ \A name \in OutNames : l.rva[name] = Rva(size, name)
  BY <1>4 DEF Placed
<1> QED BY <1>2, <1>3, <1>5

\* What Layout says of one output section.
LEMMA LaidOut ==
    ASSUME LinkAssumption, NEW objs, Linkable(objs), NEW base, NEW external,
           NEW l, l = Link(objs, base, external), NEW name \in OutNames
    PROVE  /\ l.size[name] \in Nat /\ DOMAIN Merged(l, name) = 0..(l.size[name] - 1)
           /\ \A o, s : IsKept(l, o, s) /\ NameOf(l, o, s) = name =>
                /\ Tracked(l, o, s) \in Nat /\ SizeOf(l, o, s) \in Nat
                /\ Tracked(l, o, s) + SizeOf(l, o, s) <= l.size[name]
                /\ \A i \in 0..(SizeOf(l, o, s) - 1) :
                     Merged(l, name)[Tracked(l, o, s) + i] = Cell(o, Section(l, o, s), i)
           /\ \A o, s, p, t : IsKept(l, o, s) /\ IsKept(l, p, t) /\ NameOf(l, o, s) = name /\ NameOf(l, p, t) = name
                              /\ <<o, s>> # <<p, t>> =>
                \/ Tracked(l, o, s) + SizeOf(l, o, s) <= Tracked(l, p, t)
                \/ Tracked(l, p, t) + SizeOf(l, p, t) <= Tracked(l, o, s)
           /\ \A d : IsKept(l, d[1], SymbolAt(l, d).section) /\ NameOf(l, d[1], SymbolAt(l, d).section) = name =>
                SymbolRva(l, d) = l.rva[name] + Tracked(l, d[1], SymbolAt(l, d).section) + SymbolAt(l, d).value
<1>1. PICK chunks : chunks = Chunks(objs, name)
  OBVIOUS
<1>2. PICK start : start = Starts(objs, chunks)
  OBVIOUS
<1>0. PICK N \in Nat : Output(objs, chunks, start, N)
  BY <1>1, <1>2, OutputOf
<1>3. /\ chunks \in Seq(Nat \X Nat) /\ DOMAIN chunks = 1..N
      /\ start \in [1..N -> Nat] /\ Retraced(objs, chunks) = start
      /\ \A k \in 1..N : ChunkSize(objs, chunks, k) \in Nat
      /\ \A j, k \in 1..N : j < k => start[j] + ChunkSize(objs, chunks, j) <= start[k]
      /\ Total(objs, chunks, start) \in Nat
      /\ \A k \in 1..N : start[k] + ChunkSize(objs, chunks, k) <= Total(objs, chunks, start)
  BY <1>0 DEF Output
<1>4. /\ l.objs = objs /\ l.m.chunks[name] = chunks /\ l.m.starts[name] = start
      /\ l.size[name] = Total(objs, chunks, start)
  BY <1>1, <1>2, LinkIs
<1>5. PICK total \in Nat : total = l.size[name]
  BY <1>3, <1>4
<1>6. PICK size \in [1..N -> Nat] : \A k \in 1..N : size[k] = ChunkSize(objs, chunks, k)
  <2> DEFINE f == [k \in 1..N |-> ChunkSize(objs, chunks, k)]
  <2>1. f \in [1..N -> Nat] /\ \A k \in 1..N : f[k] = ChunkSize(objs, chunks, k)
    BY <1>3
  <2> QED BY <2>1
<1>7. /\ \A j, k \in 1..N : j < k => start[j] + size[j] <= start[k]
      /\ \A k \in 1..N : start[k] + size[k] <= total
  BY <1>3, <1>4, <1>5, <1>6
<1>8. DOMAIN Merged(l, name) = 0..(total - 1)
  BY <1>5 DEF Merged
<1> DEFINE at(o, s) == CHOOSE k \in DOMAIN chunks : chunks[k] = <<o, s>>
<1>9. ASSUME NEW o, NEW s, IsKept(l, o, s), NameOf(l, o, s) = name
      PROVE  /\ at(o, s) \in 1..N /\ chunks[at(o, s)] = <<o, s>>
             /\ Tracked(l, o, s) = start[at(o, s)] /\ SizeOf(l, o, s) = size[at(o, s)]
  <2>1. \E k \in DOMAIN chunks : chunks[k] = <<o, s>>
    BY <1>1, <1>4, <1>9, ChunksAre DEF IsKept, NameOf, Section
  <2>2. at(o, s) \in DOMAIN chunks /\ chunks[at(o, s)] = <<o, s>>
    BY <2>1
  <2>3. Tracked(l, o, s) = Retraced(objs, chunks)[at(o, s)]
    BY <1>4, <1>9 DEF Tracked, NameOf
  <2> HIDE DEF at
  <2>4. SizeOf(l, o, s) = ChunkSize(objs, chunks, at(o, s))
    BY <2>2, <1>4 DEF SizeOf, ChunkSize, SectionOf, Section
  <2> QED BY <1>3, <1>6, <2>2, <2>3, <2>4
<1>10. ASSUME NEW o, NEW s, IsKept(l, o, s), NameOf(l, o, s) = name, NEW i \in 0..(SizeOf(l, o, s) - 1)
       PROVE  Merged(l, name)[Tracked(l, o, s) + i] = Cell(o, Section(l, o, s), i)
  <2>1. PICK k \in 1..N : /\ k = at(o, s) /\ chunks[k] = <<o, s>>
                          /\ Tracked(l, o, s) = start[k] /\ SizeOf(l, o, s) = size[k]
    BY <1>9, <1>10
  <2>2. PICK a \in Nat, z \in Nat : a = start[k] /\ z = size[k] /\ a + z <= total
    BY <1>3, <1>7
  <2>3. i \in 0..(z - 1) /\ a + i \in 0..(total - 1)
    <3>1. i \in 0..(z - 1)
      BY <1>10, <2>1, <2>2
    <3>2. \A b, y, c, j \in Nat : b + y <= c /\ j \in 0..(y - 1) => b + j \in 0..(c - 1)
      OBVIOUS
    <3>3. i \in Nat
      BY <3>1
    <3>4. a + i \in 0..(total - 1)
      BY <2>2, <3>1, <3>2, <3>3
    <3> QED BY <3>1, <3>4
  <2> DEFINE in(j) == (a + i) - start[j] \in 0..(size[j] - 1)
  <2>4. \A j \in 1..N : in(j) <=> j = k
    <3> TAKE j \in 1..N
    <3>1. PICK b \in Nat, y \in Nat : b = start[j] /\ y = size[j]
      BY <1>3
    <3>2. CASE j = k
      <4>1. (a + i) - a \in 0..(z - 1)
        BY <2>3
      <4> QED BY <2>2, <3>2, <4>1
    <3>3. CASE j < k
      <4>1. b + y <= a
        BY <1>7, <2>2, <3>1, <3>3
      <4>2. ~((a + i) - b \in 0..(y - 1))
        BY <2>3, <4>1
      <4> QED BY <3>1, <3>3, <4>2
    <3>4. CASE k < j
      <4>1. a + z <= b
        BY <1>7, <2>2, <3>1, <3>4
      <4>2. ~((a + i) - b \in 0..(y - 1))
        BY <2>3, <4>1
      <4> QED BY <3>1, <3>4, <4>2
    <3> QED BY <3>2, <3>3, <3>4
  <2>5. \A j \in 1..N : Size(SectionOf(l.objs, chunks[j])) = size[j]
    BY <1>4, <1>6 DEF ChunkSize
  <2> DEFINE inside(c, j) == c - start[j] \in 0..(Size(SectionOf(l.objs, chunks[j])) - 1)
             cell(j, c) == Cell(chunks[j][1], SectionOf(l.objs, chunks[j]), c - start[j])
  <2>6. Merged(l, name)[a + i] =
          IF \E j \in 1..N : in(j) THEN cell(CHOOSE j \in 1..N : in(j), a + i) ELSE Zero
    <3>1. Merged(l, name) = [c \in 0..(total - 1) |->
            IF \E j \in DOMAIN chunks : inside(c, j) THEN cell(CHOOSE j \in DOMAIN chunks : inside(c, j), c) ELSE Zero]
      BY <1>4, <1>5 DEF Merged
    <3>2. \A j \in 1..N : inside(a + i, j) <=> in(j)
      BY <2>5
    <3> HIDE DEF inside, in, cell
    <3>3. (CHOOSE j \in 1..N : inside(a + i, j)) = CHOOSE j \in 1..N : in(j)
      BY <3>2
    <3>4. Merged(l, name)[a + i] =
            IF \E j \in 1..N : inside(a + i, j) THEN cell(CHOOSE j \in 1..N : inside(a + i, j), a + i) ELSE Zero
      BY <1>3, <2>3, <3>1
    <3> QED BY <3>2, <3>3, <3>4
  <2>7. (CHOOSE j \in 1..N : in(j)) = k /\ \E j \in 1..N : in(j)
    BY <2>4
  <2>8. Merged(l, name)[a + i] = Cell(chunks[k][1], SectionOf(l.objs, chunks[k]), (a + i) - start[k])
    <3>1. Merged(l, name)[a + i] = cell(k, a + i)
      <4> HIDE DEF in, cell
      <4> QED BY <2>6, <2>7
    <3> QED BY <3>1
  <2>9. chunks[k][1] = o /\ SectionOf(l.objs, chunks[k]) = Section(l, o, s)
    BY <2>1 DEF SectionOf, Section
  <2>10. (a + i) - start[k] = i
    BY <2>2, <2>3
  <2> QED BY <2>1, <2>2, <2>8, <2>9, <2>10
<1>11. ASSUME NEW o, NEW s, IsKept(l, o, s), NameOf(l, o, s) = name
       PROVE  /\ Tracked(l, o, s) \in Nat /\ SizeOf(l, o, s) \in Nat
              /\ Tracked(l, o, s) + SizeOf(l, o, s) <= l.size[name]
  <2>1. PICK k \in 1..N : Tracked(l, o, s) = start[k] /\ SizeOf(l, o, s) = size[k]
    BY <1>9, <1>11
  <2> QED BY <2>1, <1>3, <1>5, <1>7
<1>12. ASSUME NEW o, NEW s, NEW p, NEW t, IsKept(l, o, s), IsKept(l, p, t),
              NameOf(l, o, s) = name, NameOf(l, p, t) = name, <<o, s>> # <<p, t>>
       PROVE  \/ Tracked(l, o, s) + SizeOf(l, o, s) <= Tracked(l, p, t)
              \/ Tracked(l, p, t) + SizeOf(l, p, t) <= Tracked(l, o, s)
  <2>1. PICK j \in 1..N : chunks[j] = <<o, s>> /\ Tracked(l, o, s) = start[j] /\ SizeOf(l, o, s) = size[j]
    BY <1>9, <1>12
  <2>2. PICK k \in 1..N : chunks[k] = <<p, t>> /\ Tracked(l, p, t) = start[k] /\ SizeOf(l, p, t) = size[k]
    BY <1>9, <1>12
  <2>3. j < k \/ k < j
    BY <1>12, <2>1, <2>2
  <2> QED BY <1>7, <2>1, <2>2, <2>3
<1>13. ASSUME NEW d, IsKept(l, d[1], SymbolAt(l, d).section), NameOf(l, d[1], SymbolAt(l, d).section) = name
       PROVE  SymbolRva(l, d) = l.rva[name] + Tracked(l, d[1], SymbolAt(l, d).section) + SymbolAt(l, d).value
  <2>1. Tracked(l, d[1], SymbolAt(l, d).section) = start[at(d[1], SymbolAt(l, d).section)]
    BY <1>9, <1>13
  <2>2. SymbolRva(l, d) = l.rva[name] + start[at(d[1], SymbolAt(l, d).section)] + SymbolAt(l, d).value
    BY <1>4, <1>13 DEF SymbolRva, NameOf
  <2> QED BY <2>1, <2>2
<1> HIDE DEF at
<1>14. l.size[name] \in Nat /\ DOMAIN Merged(l, name) = 0..(l.size[name] - 1)
  BY <1>5, <1>8
<1>15. \A o, s : IsKept(l, o, s) /\ NameOf(l, o, s) = name =>
                /\ Tracked(l, o, s) \in Nat /\ SizeOf(l, o, s) \in Nat
                /\ Tracked(l, o, s) + SizeOf(l, o, s) <= l.size[name]
                /\ \A i \in 0..(SizeOf(l, o, s) - 1) :
                     Merged(l, name)[Tracked(l, o, s) + i] = Cell(o, Section(l, o, s), i)
  BY <1>10, <1>11
<1>16. \A o, s, p, t : IsKept(l, o, s) /\ IsKept(l, p, t) /\ NameOf(l, o, s) = name /\ NameOf(l, p, t) = name
                              /\ <<o, s>> # <<p, t>> =>
                \/ Tracked(l, o, s) + SizeOf(l, o, s) <= Tracked(l, p, t)
                \/ Tracked(l, p, t) + SizeOf(l, p, t) <= Tracked(l, o, s)
  BY <1>12
<1>17. \A d : IsKept(l, d[1], SymbolAt(l, d).section) /\ NameOf(l, d[1], SymbolAt(l, d).section) = name =>
         SymbolRva(l, d) = l.rva[name] + Tracked(l, d[1], SymbolAt(l, d).section) + SymbolAt(l, d).value
  BY <1>13
<1> QED BY <1>14, <1>15, <1>16, <1>17

\* Every link of well-formed objects is laid out like this.
LEMMA LinkLayout ==
    ASSUME LinkAssumption, NEW objs, Linkable(objs), NEW base \in Int, NEW external,
           NEW l, l = Link(objs, base, external)
    PROVE  Layout(l)
<1>1. /\ l.objs = objs /\ l.base = base
      /\ \A o \in DOMAIN l.objs : l.m.symbols[o] = Primary(l.objs[o].table)
      /\ \A name \in OutNames : l.rva[name] = Rva(l.size, name)
  BY LinkIs
<1>2. \A name \in OutNames : l.size[name] \in Nat /\ DOMAIN Merged(l, name) = 0..(l.size[name] - 1)
  BY LaidOut
<1>3. /\ \A name \in OutNames : l.rva[name] \in Nat /\ l.rva[name] + l.size[name] <= ImageSize(l)
      /\ \A a, b \in OutNames : a # b =>
           l.rva[a] + l.size[a] <= l.rva[b] \/ l.rva[b] + l.size[b] <= l.rva[a]
      /\ ImageSize(l) \in Nat
  <2>1. PICK size : size = l.size
    OBVIOUS
  <2>2. \A name \in OutNames : size[name] \in Nat
    BY <1>2, <2>1
  <2>3. /\ \A name \in OutNames : Rva(size, name) \in Nat
        /\ \A a, b \in OutNames : a # b =>
             \/ Rva(size, a) + size[a] <= Rva(size, b)
             \/ Rva(size, b) + size[b] <= Rva(size, a)
        /\ \A name \in OutNames :
             Rva(size, name) + size[name] <= Up(Rva(size, ".bss") + size[".bss"], PageSize)
        /\ Up(Rva(size, ".bss") + size[".bss"], PageSize) \in Nat
    BY <2>2, OutputsApart
  <2>4. ".bss" \in OutNames
    BY DEF OutNames, Order, ToSet
  <2>5. ImageSize(l) = Up(Rva(size, ".bss") + size[".bss"], PageSize)
    BY <1>1, <2>1, <2>4 DEF ImageSize
  <2> QED BY <1>1, <2>1, <2>3, <2>5
<1>4. \A o, s : IsKept(l, o, s) => NameOf(l, o, s) \in OutNames
  BY DEF IsKept, Kept, NameOf
<1>5. \A o, s : IsKept(l, o, s) =>
         /\ Tracked(l, o, s) \in Nat /\ SizeOf(l, o, s) \in Nat
         /\ Tracked(l, o, s) + SizeOf(l, o, s) <= l.size[NameOf(l, o, s)]
         /\ \A i \in 0..(SizeOf(l, o, s) - 1) :
              Merged(l, NameOf(l, o, s))[Tracked(l, o, s) + i] = Cell(o, Section(l, o, s), i)
  BY <1>4, LaidOut
<1>6. \A o, s, p, t : IsKept(l, o, s) /\ IsKept(l, p, t) /\ NameOf(l, o, s) = NameOf(l, p, t)
                       /\ <<o, s>> # <<p, t>> =>
         \/ Tracked(l, o, s) + SizeOf(l, o, s) <= Tracked(l, p, t)
         \/ Tracked(l, p, t) + SizeOf(l, p, t) <= Tracked(l, o, s)
  BY <1>4, LaidOut
<1>7. \A d : IsKept(l, d[1], SymbolAt(l, d).section) =>
         SymbolRva(l, d) = l.rva[NameOf(l, d[1], SymbolAt(l, d).section)]
                           + Tracked(l, d[1], SymbolAt(l, d).section) + SymbolAt(l, d).value
  BY <1>4, LaidOut
<1> QED BY <1>1, <1>2, <1>3, <1>5, <1>6, <1>7 DEF Layout

-----------------------------------------------------------------------------
(* The relocations of a link that succeeds.                                *)

\* A bounded set of numbers has a greatest one.
LEMMA GreatestNumber ==
    ASSUME NEW N \in Nat, NEW T \in SUBSET (1..N), T # {}
    PROVE  \E k \in T : \A j \in T : j <= k
<1> DEFINE R == {n \in Nat : \E k \in T : n = N - k}
<1>1. R \in SUBSET Nat
  OBVIOUS
<1>2. R # {}
  <2>1. PICK k \in T : TRUE
    OBVIOUS
  <2>2. N - k \in Nat
    OBVIOUS
  <2> QED BY <2>2
<1> HIDE DEF R
<1>3. PICK n \in R : \A m \in R : n <= m
  BY <1>1, <1>2, LeastNumber
<1>4. PICK k \in T : n = N - k
  BY DEF R
<1>5. ASSUME NEW j \in T PROVE j <= k
  <2>1. N - j \in Nat
    OBVIOUS
  <2>2. N - j \in R
    BY <2>1 DEF R
  <2>3. N - k <= N - j
    BY <1>3, <1>4, <2>2
  <2> QED BY <2>3
<1> QED BY <1>5

Accepted(l) == Accepts(l.objs, Effects(l, Relocations(l)))
Place(l, o, s, rel) == l.base + l.rva[NameOf(l, o, s)] + rel.va

\* A relocation that is accepted has a symbol with an address, and a cell for each one
\* of its field.
LEMMA FieldIsEncoded ==
    ASSUME NEW l, Layout(l), NEW o, NEW s, IsKept(l, o, s), NEW rel,
           NEW e, e = Effect(l, <<o, s, rel>>), e.does \notin {"throw", "unresolved"}
    PROVE  /\ rel.sym \in l.m.symbols[o]
           /\ l.objs[o].table[rel.sym].section > 0 => Kept(l, o, l.objs[o].table[rel.sym].section)
           /\ Target(l, o, rel) # NoAddress
           /\ DOMAIN e.cells = 1..Width(rel.type)
           /\ rel.type = "REL32" => e.cells[1] = Content("rel", Target(l, o, rel) - (Place(l, o, s, rel) + 1), 0)
           /\ rel.type = "ABS" => /\ e.cells[1] = Content("low", Target(l, o, rel) % Span, 0)
                                  /\ e.cells[2] = Content("high", Target(l, o, rel) \div Span, 0)
           /\ rel.type = "ADDR32" => e.cells[1] = Content("low", Target(l, o, rel) % Span, 0)
<1>1. PICK x : x = <<o, s, rel>> /\ x[1] = o /\ x[2] = s /\ x[3] = rel
  OBVIOUS
<1>2. PICK target : target = Target(l, o, rel)
  OBVIOUS
<1>3. PICK place : place = Place(l, o, s, rel)
  OBVIOUS
<1>4. ~IntoDropped(l, o, rel) /\ e = Encoded(rel.type, place, target)
  <2>1. e = IF IntoDropped(l, o, rel) THEN Does("throw") ELSE Encoded(rel.type, place, target)
    BY <1>1, <1>2, <1>3 DEF Effect, Place, NameOf
  <2> QED BY <2>1 DEF Does
<1>5. target # NoAddress
  <2>1. target = NoAddress => e = Does("unresolved")
    BY <1>4 DEF Encoded
  <2> QED BY <2>1 DEF Does
<1>6. rel.sym \in l.m.symbols[o]
  BY <1>2, <1>5 DEF Target
<1>7. l.objs[o].table[rel.sym].section > 0 => Kept(l, o, l.objs[o].table[rel.sym].section)
  BY <1>4, <1>6 DEF IntoDropped
<1>8. CASE rel.type = "REL32"
  <2>1. e = Rel32(place, target)
    BY <1>4, <1>5, <1>8 DEF Encoded
  <2>2. e = Writes(<<Content("rel", target - (place + 1), 0)>>)
    BY <2>1 DEF Rel32, Does
  <2>3. DOMAIN e.cells = 1..1 /\ e.cells[1] = Content("rel", target - (place + 1), 0)
    BY <2>2 DEF Writes
  <2>4. Width(rel.type) = 1
    BY <1>8 DEF Width
  <2> QED BY <1>2, <1>3, <1>5, <1>6, <1>7, <1>8, <2>3, <2>4
<1>9. CASE rel.type = "ABS"
  <2>1. e = Writes(<<Content("low", target % Span, 0), Content("high", target \div Span, 0)>>)
    BY <1>4, <1>5, <1>9 DEF Encoded
  <2>2. DOMAIN e.cells = 1..2 /\ e.cells[1] = Content("low", target % Span, 0)
                              /\ e.cells[2] = Content("high", target \div Span, 0)
    BY <2>1 DEF Writes
  <2>3. Width(rel.type) = 2
    BY <1>9 DEF Width
  <2> QED BY <1>2, <1>3, <1>5, <1>6, <1>7, <1>9, <2>2, <2>3
<1>10. CASE rel.type = "ADDR32"
  <2>1. e = Writes(<<Content("low", target % Span, 0)>>)
    BY <1>4, <1>5, <1>10 DEF Encoded
  <2>2. DOMAIN e.cells = 1..1 /\ e.cells[1] = Content("low", target % Span, 0)
    BY <2>1 DEF Writes
  <2>3. Width(rel.type) = 1
    BY <1>10 DEF Width
  <2> QED BY <1>2, <1>3, <1>5, <1>6, <1>7, <1>10, <2>2, <2>3
<1>11. CASE rel.type \notin {"REL32", "ABS", "ADDR32"}
  <2>1. e = IF rel.type = "SECREL" THEN Does("skip") ELSE Does("throw")
    BY <1>4, <1>5, <1>11 DEF Encoded
  <2>2. e = Does("skip")
    BY <2>1 DEF Does
  <2>3. DOMAIN e.cells = 1..0
    BY <2>2 DEF Does
  <2>4. Width(rel.type) = 0
    BY <1>11 DEF Width
  <2> QED BY <1>2, <1>5, <1>6, <1>7, <1>11, <2>3, <2>4
<1> QED BY <1>8, <1>9, <1>10, <1>11

\* The fields of a kept section lie inside it and apart, and in a leading chunk.
LEMMA FieldsApart ==
    ASSUME NEW l, Layout(l), FieldsLead(l), NEW o, NEW s, IsKept(l, o, s),
           NEW rel \in ToSet(Section(l, o, s).relocs)
    PROVE  /\ rel.va \in Nat /\ Width(rel.type) \in Nat /\ Tracked(l, o, s) = 0
           /\ Field(rel) \subseteq 0..(SizeOf(l, o, s) - 1)
           /\ \A r \in ToSet(Section(l, o, s).relocs) : r # rel => Field(r) \cap Field(rel) = {}
<1>1. /\ rel.va \in Nat /\ Field(rel) \subseteq 0..(SizeOf(l, o, s) - 1)
      /\ \A r \in ToSet(Section(l, o, s).relocs) : r # rel => Field(r) \cap Field(rel) = {}
  BY DEF Layout, Linkable, WellFormed, IsKept, Section, SizeOf
<1>2. Width(rel.type) \in Nat
  BY DEF Width
<1>3. Section(l, o, s).relocs # <<>>
  BY DEF ToSet
<1>4. Tracked(l, o, s) = 0
  BY <1>3 DEF FieldsLead, IsKept
<1> QED BY <1>1, <1>2, <1>4

\* Where relocations are applied: in a field of the section they belong to.
LEMMA HitsAreFields ==
    ASSUME NEW l, Layout(l), FieldsLead(l), Accepted(l), NEW o, NEW s, IsKept(l, o, s),
           NEW i \in 0..(SizeOf(l, o, s) - 1),
           NEW k \in DOMAIN Relocations(l), NEW x, x = Relocations(l)[k]
    PROVE  /\ Section(l, x[1], x[2]).name = NameOf(l, o, s)
              /\ (Tracked(l, o, s) + i) - x[3].va + 1 \in DOMAIN Effects(l, Relocations(l))[k].cells
              <=> /\ x[1] = o /\ x[2] = s /\ x[3] \in ToSet(Section(l, o, s).relocs) /\ i \in Field(x[3])
           /\ Effects(l, Relocations(l))[k] = Effect(l, x)
           /\ Effect(l, x).does \notin {"throw", "unresolved"}
<1>1. Effects(l, Relocations(l))[k] = Effect(l, x) /\ k \in DOMAIN Effects(l, Relocations(l))
  BY DEF Effects
<1>2. Effect(l, x).does \notin {"throw", "unresolved"}
  BY <1>1 DEF Accepted, Accepts
<1>3. PICK p, q, rel : IsKept(l, p, q) /\ rel \in ToSet(Section(l, p, q).relocs) /\ x = <<p, q, rel>>
  BY RelocationsAre DEF Layout, RelocationsOf
<1>4. x[1] = p /\ x[2] = q /\ x[3] = rel
  BY <1>3
<1>5. DOMAIN Effect(l, x).cells = 1..Width(rel.type)
  BY <1>2, <1>3, FieldIsEncoded
<1>6. /\ rel.va \in Nat /\ Width(rel.type) \in Nat /\ Tracked(l, p, q) = 0
      /\ Field(rel) \subseteq 0..(SizeOf(l, p, q) - 1)
  BY <1>3, FieldsApart
<1>7. PICK t \in Nat, n \in Nat : t = Tracked(l, o, s) /\ n = SizeOf(l, o, s) /\ i \in 0..(n - 1)
  BY DEF Layout
<1>8. PICK m \in Nat : m = SizeOf(l, p, q)
  BY <1>3 DEF Layout
<1>9. \A a : a = t + i => (a - rel.va + 1 \in 1..Width(rel.type) <=> a \in Field(rel))
  BY <1>6, <1>7 DEF Field
<1>10. CASE p = o /\ q = s
  <2>1. t = 0 /\ t + i = i
    BY <1>6, <1>7, <1>10
  <2> QED BY <1>1, <1>2, <1>3, <1>4, <1>5, <1>7, <1>9, <1>10, <2>1 DEF NameOf
<1>11. CASE <<p, q>> # <<o, s>>
  <2>1. ASSUME NameOf(l, p, q) = NameOf(l, o, s), t + i \in Field(rel) PROVE FALSE
    <3>1. t + n <= Tracked(l, p, q) \/ Tracked(l, p, q) + m <= t
      BY <1>3, <1>7, <1>8, <1>11, <2>1 DEF Layout
    <3>2. t + i \in 0..(m - 1)
      BY <1>6, <1>8, <2>1
    <3> QED BY <1>6, <1>7, <3>1, <3>2
  <2> QED BY <1>1, <1>2, <1>4, <1>5, <1>7, <1>9, <1>11, <2>1 DEF NameOf
<1> QED BY <1>10, <1>11

\* The output section after the relocations: a cell in no field is the section's own, one
\* in a field is what its relocation makes of it.
LEMMA PatchedCells ==
    ASSUME NEW l, Layout(l), FieldsLead(l), Accepted(l), NEW o, NEW s, IsKept(l, o, s),
           NEW i \in 0..(SizeOf(l, o, s) - 1),
           NEW cells, cells = Patched(l, Relocations(l), Effects(l, Relocations(l)), NameOf(l, o, s))
    PROVE  /\ (\A rel \in ToSet(Section(l, o, s).relocs) : i \notin Field(rel)) =>
                cells[Tracked(l, o, s) + i] = Cell(o, Section(l, o, s), i)
           /\ \A rel \in ToSet(Section(l, o, s).relocs) : i \in Field(rel) =>
                cells[Tracked(l, o, s) + i] = Effect(l, <<o, s, rel>>).cells[i - rel.va + 1]
<1> DEFINE rels == Relocations(l)
           effects == Effects(l, rels)
           name == NameOf(l, o, s)
<1>1. rels = Relocations(l)
  OBVIOUS
<1>2. effects = Effects(l, rels)
  OBVIOUS
<1>3. PICK a : a = Tracked(l, o, s) + i
  OBVIOUS
<1>4. name = NameOf(l, o, s)
  OBVIOUS
<1>5. a \in DOMAIN Merged(l, name) /\ Merged(l, name)[a] = Cell(o, Section(l, o, s), i)
  <2>1. PICK t \in Nat, n \in Nat, z \in Nat :
           t = Tracked(l, o, s) /\ n = SizeOf(l, o, s) /\ z = l.size[name] /\ t + n <= z
    BY <1>4 DEF Layout, IsKept, Kept, NameOf
  <2>2. i \in 0..(n - 1)
    BY <2>1
  <2>3. t + i \in 0..(z - 1)
    BY <2>1, <2>2
  <2>4. name \in OutNames
    BY <1>4 DEF IsKept, Kept, NameOf
  <2>5. DOMAIN Merged(l, name) = 0..(z - 1)
    BY <2>1, <2>4 DEF Layout
  <2>6. Merged(l, name)[a] = Cell(o, Section(l, o, s), i)
    BY <1>3, <1>4 DEF Layout
  <2> QED BY <1>3, <2>1, <2>3, <2>5, <2>6
<1> DEFINE hits == {k \in DOMAIN rels : /\ Section(l, rels[k][1], rels[k][2]).name = name
                                        /\ a - rels[k][3].va + 1 \in DOMAIN effects[k].cells}
           last == CHOOSE k \in hits : \A j \in hits : j <= k
<1>6. cells[a] = IF hits = {} THEN Merged(l, name)[a] ELSE effects[last].cells[a - rels[last][3].va + 1]
  <2> DEFINE at(c) == {k \in DOMAIN rels : /\ Section(l, rels[k][1], rels[k][2]).name = name
                                           /\ c - rels[k][3].va + 1 \in DOMAIN effects[k].cells}
             end(c) == CHOOSE k \in at(c) : \A j \in at(c) : j <= k
  <2>2. cells = [c \in DOMAIN Merged(l, name) |->
                   IF at(c) = {} THEN Merged(l, name)[c]
                   ELSE effects[end(c)].cells[c - rels[end(c)][3].va + 1]]
    BY DEF Patched
  <2>3. at(a) = hits /\ end(a) = last
    OBVIOUS
  <2> HIDE DEF at, end, hits, last
  <2> QED BY <1>5, <2>2, <2>3
<1> HIDE DEF rels, effects, name
<1>7. \A k \in DOMAIN rels :
        k \in hits <=> /\ rels[k][1] = o /\ rels[k][2] = s
                       /\ rels[k][3] \in ToSet(Section(l, o, s).relocs) /\ i \in Field(rels[k][3])
  <2> TAKE k \in DOMAIN rels
  <2>1. PICK x : x = rels[k]
    OBVIOUS
  <2>2. k \in hits <=> /\ Section(l, x[1], x[2]).name = NameOf(l, o, s)
                       /\ (Tracked(l, o, s) + i) - x[3].va + 1 \in DOMAIN Effects(l, Relocations(l))[k].cells
    BY <1>1, <1>2, <1>3, <1>4, <2>1
  <2> HIDE DEF hits
  <2> QED BY <1>1, <2>1, <2>2, HitsAreFields
<1>8. \A k \in DOMAIN rels : effects[k] = Effect(l, rels[k])
  BY <1>2 DEF Effects
<1>9. ASSUME \A rel \in ToSet(Section(l, o, s).relocs) : i \notin Field(rel)
      PROVE  cells[a] = Cell(o, Section(l, o, s), i)
  <2>1. hits = {}
    <3>1. hits \subseteq DOMAIN rels
      OBVIOUS
    <3> HIDE DEF hits
    <3> QED BY <1>7, <1>9, <3>1
  <2> HIDE DEF hits, last
  <2> QED BY <1>5, <1>6, <2>1
<1>12. /\ \E N \in Nat : DOMAIN rels = 1..N
       /\ \A k \in DOMAIN rels : \E p, q, r : rels[k] = <<p, q, r>>
       /\ \A r \in ToSet(Section(l, o, s).relocs) : \E k \in DOMAIN rels : rels[k] = <<o, s, r>>
  <2>1. Linkable(l.objs)
    BY DEF Layout
  <2>2. RelocationsOf(l, rels)
    BY <1>1, <2>1, RelocationsAre
  <2>3. \E N \in Nat : DOMAIN rels = 1..N
    BY <2>2 DEF RelocationsOf
  <2>4. \A k \in DOMAIN rels : \E p, q, r : rels[k] = <<p, q, r>>
    BY <2>2 DEF RelocationsOf
  <2>5. ASSUME NEW r \in ToSet(Section(l, o, s).relocs) PROVE \E k \in DOMAIN rels : rels[k] = <<o, s, r>>
    BY <2>2 DEF RelocationsOf
  <2> QED BY <2>3, <2>4, <2>5
<1>10. ASSUME NEW rel \in ToSet(Section(l, o, s).relocs), i \in Field(rel)
       PROVE  cells[a] = Effect(l, <<o, s, rel>>).cells[i - rel.va + 1]
  <2>1. PICK N \in Nat : DOMAIN rels = 1..N
    BY <1>12
  <2>2. hits \in SUBSET (1..N)
    BY <2>1
  <2>3. PICK k \in DOMAIN rels : rels[k] = <<o, s, rel>>
    BY <1>12
  <2> HIDE DEF hits
  <2>4. k \in hits
    BY <1>7, <1>10, <2>3
  <2>5. \E j \in hits : \A m \in hits : m <= j
    BY <2>2, <2>4, GreatestNumber
  <2>6. last \in hits
    BY <2>5
  <2> HIDE DEF last
  <2>7. /\ last \in DOMAIN rels /\ rels[last][1] = o /\ rels[last][2] = s
        /\ rels[last][3] \in ToSet(Section(l, o, s).relocs) /\ i \in Field(rels[last][3])
    BY <1>7, <2>1, <2>2, <2>6
  <2>8. rels[last][3] = rel
    BY <1>10, <2>7, FieldsApart
  <2>9. \E p, q, r : rels[last] = <<p, q, r>>
    BY <1>12, <2>7
  <2>10. rels[last] = <<o, s, rel>>
    BY <2>7, <2>8, <2>9
  <2>11. Tracked(l, o, s) = 0
    BY FieldsApart
  <2>12. a = i
    BY <1>3, <2>11
  <2> QED BY <1>6, <1>8, <2>4, <2>7, <2>8, <2>10, <2>12
<1> HIDE DEF hits, last
<1> QED BY <1>3, <1>9, <1>10

\* The output sections have their sizes.
Filled(l, cells) == \A name \in OutNames : DOMAIN cells[name] = 0..(l.size[name] - 1)

\* The image has every cell of every output section.
LEMMA ImageCells ==
    ASSUME NEW l, Layout(l), NEW cells, Filled(l, cells),
           NEW name \in OutNames, NEW c \in 0..(l.size[name] - 1)
    PROVE  /\ l.rva[name] + c \in 0..(ImageSize(l) - 1)
           /\ Image(l, cells)[l.rva[name] + c] = cells[name][c]
<1>1. PICK r \in Nat, z \in Nat, m \in Nat : r = l.rva[name] /\ z = l.size[name] /\ m = ImageSize(l) /\ r + z <= m
  BY DEF Layout
<1>2. c \in 0..(z - 1)
  BY <1>1
<1>3. r + c \in 0..(m - 1) /\ (r + c) - r = c
  <2>1. \A b, y, d, j \in Nat : b + y <= d /\ j \in 0..(y - 1) => b + j \in 0..(d - 1) /\ (b + j) - b = j
    OBVIOUS
  <2>2. PICK j \in Nat : j = c /\ j \in 0..(z - 1)
    BY <1>2
  <2>3. r + z <= m
    BY <1>1
  <2>4. r + j \in 0..(m - 1) /\ (r + j) - r = j
    BY <2>1, <2>2, <2>3
  <2> QED BY <2>2, <2>4
<1> DEFINE in(n, i) == i - l.rva[n] \in DOMAIN cells[n]
<1>4. ASSUME NEW n \in OutNames PROVE in(n, r + c) <=> n = name
  <2>1. PICK b \in Nat, y \in Nat : b = l.rva[n] /\ y = l.size[n] /\ DOMAIN cells[n] = 0..(y - 1)
    BY DEF Layout, Filled
  <2>2. CASE n = name
    <3>1. b = r /\ y = z
      BY <1>1, <2>1, <2>2
    <3>2. (r + c) - b \in 0..(y - 1)
      BY <1>2, <1>3, <3>1
    <3> QED BY <2>1, <2>2, <3>2
  <2>3. CASE n # name
    <3>1. r + z <= b \/ b + y <= r
      BY <1>1, <2>1, <2>3 DEF Layout
    <3>2. ~((r + c) - b \in 0..(y - 1))
      BY <1>2, <2>1, <3>1
    <3> QED BY <2>1, <2>3, <3>2
  <2> QED BY <2>2, <2>3
<1>5. Image(l, cells)[r + c] =
        IF \E n \in OutNames : in(n, r + c)
        THEN LET n == CHOOSE n \in OutNames : in(n, r + c) IN cells[n][(r + c) - l.rva[n]]
        ELSE Zero
  BY <1>1, <1>3 DEF Image
<1>6. (CHOOSE n \in OutNames : in(n, r + c)) = name /\ \E n \in OutNames : in(n, r + c)
  BY <1>4
<1> HIDE DEF in
<1> QED BY <1>1, <1>3, <1>5, <1>6

\* The cells of a kept section in the image of a link that succeeds.
LEMMA LinkedCells ==
    ASSUME NEW l, Layout(l), FieldsLead(l), Accepted(l), NEW o, NEW s, IsKept(l, o, s),
           NEW i \in 0..(SizeOf(l, o, s) - 1),
           NEW at, at = l.rva[NameOf(l, o, s)] + Tracked(l, o, s)
    PROVE  /\ at + i \in 0..(ImageSize(l) - 1)
           /\ (\A rel \in ToSet(Section(l, o, s).relocs) : i \notin Field(rel)) =>
                LinkDriver(l).image[at + i] = Cell(o, Section(l, o, s), i)
           /\ \A rel \in ToSet(Section(l, o, s).relocs) : i \in Field(rel) =>
                LinkDriver(l).image[at + i] = Effect(l, <<o, s, rel>>).cells[i - rel.va + 1]
<1>1. PICK rels : rels = Relocations(l)
  OBVIOUS
<1>2. PICK effects : effects = Effects(l, rels)
  OBVIOUS
<1>3. PICK name \in OutNames : name = NameOf(l, o, s)
  BY DEF IsKept, Kept, NameOf
<1>4. PICK cells : cells = [n \in OutNames |-> Patched(l, rels, effects, n)]
  OBVIOUS
<1>5. Filled(l, cells)
  <2>1. \A n \in OutNames : DOMAIN Patched(l, rels, effects, n) = DOMAIN Merged(l, n)
    BY DEF Patched
  <2> QED BY <1>4, <2>1 DEF Layout, Filled
<1>6. LinkDriver(l).image = Image(l, cells)
  BY <1>1, <1>2, <1>4 DEF LinkDriver, Outcome, Accepted
<1>7. PICK t \in Nat, r \in Nat, n \in Nat, z \in Nat :
        t = Tracked(l, o, s) /\ r = l.rva[name] /\ n = SizeOf(l, o, s) /\ z = l.size[name] /\ t + n <= z
  BY <1>3 DEF Layout
<1>8. i \in 0..(n - 1) /\ at = r + t
  BY <1>3, <1>7
<1>9. t + i \in 0..(z - 1) /\ r + (t + i) = at + i
  BY <1>7, <1>8
<1>10. /\ r + (t + i) \in 0..(ImageSize(l) - 1)
       /\ Image(l, cells)[r + (t + i)] = cells[name][t + i]
  <2>1. PICK c \in 0..(l.size[name] - 1) : c = t + i
    BY <1>7, <1>9
  <2>2. /\ l.rva[name] + c \in 0..(ImageSize(l) - 1)
        /\ Image(l, cells)[l.rva[name] + c] = cells[name][c]
    BY <1>5, ImageCells
  <2> QED BY <1>7, <2>1, <2>2
<1>11. cells[name] = Patched(l, Relocations(l), Effects(l, Relocations(l)), NameOf(l, o, s))
  BY <1>1, <1>2, <1>3, <1>4
<1>12. /\ (\A rel \in ToSet(Section(l, o, s).relocs) : i \notin Field(rel)) =>
                cells[name][Tracked(l, o, s) + i] = Cell(o, Section(l, o, s), i)
       /\ \A rel \in ToSet(Section(l, o, s).relocs) : i \in Field(rel) =>
                cells[name][Tracked(l, o, s) + i] = Effect(l, <<o, s, rel>>).cells[i - rel.va + 1]
  BY <1>11, PatchedCells
<1> QED BY <1>6, <1>7, <1>9, <1>10, <1>12

-----------------------------------------------------------------------------
(* The driver in memory.                                                   *)

\* Memory holds the image, and the pointer the objects asked for.
InMemory(mem, l) ==
    /\ \A c \in 0..(ImageSize(l) - 1) : Holds(mem, l.base + c, LinkDriver(l).image[c])
    /\ DataExport \in LinkDriver(l).asked => Holds(mem, l.base - SlotGap, SystemPointer)

Start(l, o, s) == l.base + l.rva[NameOf(l, o, s)] + Tracked(l, o, s)

\* The cells of a section in memory: its own, or what a relocation makes of them.
LEMMA CellsInMemory ==
    ASSUME NEW l, Layout(l), FieldsLead(l), Accepted(l), NEW mem, InMemory(mem, l),
           NEW o, NEW s, IsKept(l, o, s), NEW i \in 0..(SizeOf(l, o, s) - 1)
    PROVE  /\ (\A rel \in ToSet(Section(l, o, s).relocs) : i \notin Field(rel)) =>
                Holds(mem, Start(l, o, s) + i, Cell(o, Section(l, o, s), i))
           /\ \A rel \in ToSet(Section(l, o, s).relocs) : i \in Field(rel) =>
                Holds(mem, Start(l, o, s) + i, Effect(l, <<o, s, rel>>).cells[i - rel.va + 1])
<1>1. PICK t \in Nat, r \in Nat, b \in Int, n \in Nat :
        t = Tracked(l, o, s) /\ r = l.rva[NameOf(l, o, s)] /\ b = l.base /\ n = SizeOf(l, o, s)
  BY DEF Layout, IsKept, Kept, NameOf
<1>2. i \in 0..(n - 1)
  BY <1>1
<1>3. PICK at \in Nat : at = r + t
  BY <1>1
<1>4. Start(l, o, s) + i = b + (at + i)
  BY <1>1, <1>2, <1>3 DEF Start
<1>5. /\ at + i \in 0..(ImageSize(l) - 1)
      /\ (\A rel \in ToSet(Section(l, o, s).relocs) : i \notin Field(rel)) =>
                LinkDriver(l).image[at + i] = Cell(o, Section(l, o, s), i)
      /\ \A rel \in ToSet(Section(l, o, s).relocs) : i \in Field(rel) =>
                LinkDriver(l).image[at + i] = Effect(l, <<o, s, rel>>).cells[i - rel.va + 1]
  BY <1>1, <1>3, LinkedCells
<1>6. Holds(mem, b + (at + i), LinkDriver(l).image[at + i])
  BY <1>1, <1>5 DEF InMemory
<1> QED BY <1>4, <1>5, <1>6

\* A kept section is where the relocation pass looks for it.
LEMMA CopyInMemory ==
    ASSUME NEW l, Layout(l), FieldsLead(l), Accepted(l), NEW mem, InMemory(mem, l),
           NEW o, NEW s, IsKept(l, o, s)
    PROVE  CopyAt(mem, l, o, s, Start(l, o, s))
<1>1. ASSUME NEW i \in 0..(SizeOf(l, o, s) - 1)
      PROVE  \/ \E rel \in ToSet(Section(l, o, s).relocs) : i \in Field(rel)
             \/ Holds(mem, Start(l, o, s) + i, Cell(o, Section(l, o, s), i))
  BY CellsInMemory
<1> QED BY <1>1 DEF CopyAt, SizeOf

\* A symbol of a kept section is in its copy.
LEMMA SymbolInMemory ==
    ASSUME NEW l, Layout(l), FieldsLead(l), Accepted(l), NEW mem, InMemory(mem, l),
           NEW d, IsKept(l, d[1], SymbolAt(l, d).section)
    PROVE  Start(l, d[1], SymbolAt(l, d).section) + SymbolAt(l, d).value \in InCopies(mem, l, d)
<1>1. PICK o, s : o = d[1] /\ s = SymbolAt(l, d).section
  OBVIOUS
<1>2. NameOf(l, o, s) \in OutNames /\ IsKept(l, o, s)
  BY <1>1 DEF IsKept, Kept, NameOf
<1>3. PICK t \in Nat, r \in Nat, b \in Int, n \in Nat, z \in Nat, m \in Nat :
        /\ t = Tracked(l, o, s) /\ r = l.rva[NameOf(l, o, s)] /\ b = l.base /\ n = SizeOf(l, o, s)
        /\ z = l.size[NameOf(l, o, s)] /\ m = ImageSize(l) /\ t + n <= z /\ r + z <= m
  BY <1>2 DEF Layout
<1>4. Start(l, o, s) \in b..(b + m)
  <2>1. r + t <= m
    BY <1>3
  <2> QED BY <1>3, <2>1 DEF Start
<1>5. CopyAt(mem, l, o, s, Start(l, o, s))
  BY <1>2, CopyInMemory
<1> QED BY <1>1, <1>3, <1>4, <1>5 DEF InCopies

-----------------------------------------------------------------------------
(* What a field stands for.                                                *)

\* The last of a set of slots, object by object.
LEMMA LastIsOne ==
    ASSUME NEW T, T # {}, NEW N \in Nat,
           \A d \in T : \E o \in 1..N : \E k \in Nat : d = <<o, k>>,
           \A o \in 1..N : \E M \in Nat : \A d \in T : d[1] = o => d[2] \in 1..M
    PROVE  LastOf(T) \in T
<1> DEFINE A == {o \in 1..N : \E d \in T : d[1] = o}
<1>1. PICK o \in A : \A p \in A : p <= o
  <2>1. A # {}
    <3>1. PICK d \in T : TRUE
      OBVIOUS
    <3>2. PICK p \in 1..N : \E k \in Nat : d = <<p, k>>
      BY <3>1
    <3>3. p \in A
      BY <3>2
    <3> QED BY <3>3
  <2>2. A \in SUBSET (1..N)
    OBVIOUS
  <2> HIDE DEF A
  <2> QED BY <2>1, <2>2, GreatestNumber
<1>2. PICK M \in Nat : \A d \in T : d[1] = o => d[2] \in 1..M
  OBVIOUS
<1> DEFINE B == {k \in 1..M : <<o, k>> \in T}
<1>3. \A d \in T : d[1] = o => d = <<o, d[2]>> /\ d[2] \in B
  <2> TAKE d \in T
  <2>1. PICK p \in 1..N, k \in Nat : d = <<p, k>>
    OBVIOUS
  <2> QED BY <1>2, <2>1
<1>4. PICK k \in B : \A j \in B : j <= k
  <2>1. B # {}
    BY <1>3
  <2>2. B \in SUBSET (1..M)
    OBVIOUS
  <2> HIDE DEF B
  <2> QED BY <2>1, <2>2, GreatestNumber
<1>5. <<o, k>> \in T
  OBVIOUS
<1>6. ASSUME NEW e \in T PROVE e[1] < o \/ (e[1] = o /\ e[2] <= k)
  <2>1. PICK p \in 1..N, j \in Nat : e = <<p, j>>
    OBVIOUS
  <2>2. p \in A
    BY <2>1
  <2>3. p <= o
    BY <1>1, <2>2
  <2>4. CASE p = o
    BY <1>3, <1>4, <2>1, <2>4
  <2>5. CASE p # o
    <3>1. p \in Nat /\ o \in Nat
      OBVIOUS
    <3>2. p < o
      BY <2>3, <2>5, <3>1
    <3> QED BY <2>1, <3>2
  <2> QED BY <2>4, <2>5
<1>7. \E d \in T : \A e \in T : e[1] < d[1] \/ (e[1] = d[1] /\ e[2] <= d[2])
  <2>1. PICK d \in T : d = <<o, k>> /\ d[1] = o /\ d[2] = k
    BY <1>5
  <2> HIDE DEF A, B
  <2> QED BY <1>6, <2>1
<1> HIDE DEF A, B
<1> QED BY <1>7 DEF LastOf

\* A symbol the link has is external and in a section that is kept.
LEMMA DefinitionIs ==
    ASSUME NEW l, Layout(l), NEW name, Definitions(l, name) # {}, NEW d, d = LastOf(Definitions(l, name))
    PROVE  /\ d \in Definitions(l, name)
           /\ IsKept(l, d[1], SymbolAt(l, d).section)
           /\ SymbolAt(l, d).value \in Nat
<1>1. PICK N \in Nat : DOMAIN l.objs = 1..N
  BY DEF Layout, Linkable
<1>2. ASSUME NEW o \in 1..N
      PROVE  /\ l.m.symbols[o] = Primary(l.objs[o].table) /\ WellFormed(l.objs[o])
             /\ \E M \in Nat : l.m.symbols[o] \subseteq 1..M
  <2>1. l.m.symbols[o] = Primary(l.objs[o].table) /\ WellFormed(l.objs[o])
    BY <1>1 DEF Layout, Linkable
  <2>2. PICK M \in Nat : DOMAIN l.objs[o].table = 1..M
    BY <2>1 DEF WellFormed, Sequential
  <2>3. Primary(l.objs[o].table) \subseteq DOMAIN l.objs[o].table
    BY DEF Primary
  <2> QED BY <2>1, <2>2, <2>3
<1>3. ASSUME NEW e \in Definitions(l, name)
      PROVE  \E o \in 1..N : \E k \in l.m.symbols[o] : e = <<o, k>>
  BY <1>1 DEF Definitions
<1>4. d \in Definitions(l, name)
  <2> DEFINE T == Definitions(l, name)
  <2>1. ASSUME NEW e \in T PROVE \E o \in 1..N : \E k \in Nat : e = <<o, k>>
    BY <1>2, <1>3
  <2>2. ASSUME NEW o \in 1..N PROVE \E M \in Nat : \A e \in T : e[1] = o => e[2] \in 1..M
    <3>1. PICK M \in Nat : l.m.symbols[o] \subseteq 1..M
      BY <1>2
    <3>2. ASSUME NEW e \in T, e[1] = o PROVE e[2] \in 1..M
      <4>1. PICK p \in 1..N : \E k \in l.m.symbols[p] : e = <<p, k>>
        BY <1>3
      <4> QED BY <3>1, <3>2, <4>1
    <3> QED BY <3>2
  <2>3. T # {}
    OBVIOUS
  <2> HIDE DEF T
  <2>4. LastOf(T) \in T
    BY <2>1, <2>2, <2>3, LastIsOne
  <2> QED BY <2>4 DEF T
<1>5. PICK o \in 1..N : \E k \in l.m.symbols[o] : d = <<o, k>>
  BY <1>3, <1>4
<1>6. PICK k \in l.m.symbols[o] : d[1] = o /\ d[2] = k /\ SymbolAt(l, d) = l.objs[o].table[k]
  BY <1>5 DEF SymbolAt
<1>7. Kept(l, d[1], SymbolAt(l, d).section)
  BY <1>4 DEF Definitions
<1>8. SymbolAt(l, d).value \in Nat
  BY <1>2, <1>5, <1>6 DEF WellFormed
<1>9. IsKept(l, d[1], SymbolAt(l, d).section)
  BY <1>1, <1>6, <1>7 DEF IsKept, Kept
<1> QED BY <1>4, <1>8, <1>9

\* A definition is an address of its name, in its section's copy.
LEMMA DefinitionInMemory ==
    ASSUME NEW l, Layout(l), FieldsLead(l), Accepted(l), NEW mem, InMemory(mem, l),
           NEW name, Definitions(l, name) # {}, NEW d, d = LastOf(Definitions(l, name))
    PROVE  d \in Definitions(l, name) /\ l.base + SymbolRva(l, d) \in InCopies(mem, l, d)
<1>1. /\ d \in Definitions(l, name) /\ IsKept(l, d[1], SymbolAt(l, d).section)
      /\ SymbolAt(l, d).value \in Nat
  BY DefinitionIs
<1>2. Start(l, d[1], SymbolAt(l, d).section) + SymbolAt(l, d).value \in InCopies(mem, l, d)
  BY <1>1, SymbolInMemory
<1>3. PICK o, s, v : o = d[1] /\ s = SymbolAt(l, d).section /\ v = SymbolAt(l, d).value
  OBVIOUS
<1>4. NameOf(l, o, s) \in OutNames
  BY <1>1, <1>3 DEF IsKept, Kept, NameOf
<1>5. PICK t \in Nat, r \in Nat, b \in Int :
        t = Tracked(l, o, s) /\ r = l.rva[NameOf(l, o, s)] /\ b = l.base
  BY <1>1, <1>3, <1>4 DEF Layout
<1>6. SymbolRva(l, d) = l.rva[NameOf(l, o, s)] + Tracked(l, o, s) + v
  BY <1>1, <1>3 DEF Layout
<1>7. v \in Nat /\ Start(l, o, s) = b + r + t /\ SymbolRva(l, d) = r + t + v
  BY <1>1, <1>3, <1>5, <1>6 DEF Start
<1>8. b + SymbolRva(l, d) = Start(l, o, s) + v
  BY <1>5, <1>7
<1> QED BY <1>1, <1>2, <1>3, <1>5, <1>8

\* Every relocation of a link that succeeds has been applied.
LEMMA FieldAccepted ==
    ASSUME NEW l, Layout(l), Accepted(l), NEW o, NEW s, IsKept(l, o, s),
           NEW rel \in ToSet(Section(l, o, s).relocs)
    PROVE  /\ Effect(l, <<o, s, rel>>).does \notin {"throw", "unresolved"}
           /\ \E k \in DOMAIN Relocations(l) : Relocations(l)[k] = <<o, s, rel>>
<1>1. PICK k \in DOMAIN Relocations(l) : Relocations(l)[k] = <<o, s, rel>>
  <2>1. Linkable(l.objs)
    BY DEF Layout
  <2>2. RelocationsOf(l, Relocations(l))
    BY <2>1, RelocationsAre
  <2> QED BY <2>2 DEF RelocationsOf
<1>2. Effects(l, Relocations(l))[k] = Effect(l, <<o, s, rel>>) /\ k \in DOMAIN Effects(l, Relocations(l))
  BY <1>1 DEF Effects
<1> QED BY <1>1, <1>2 DEF Accepted, Accepts

\* A link that succeeds has asked for every name it does not define.
LEMMA NameIsAsked ==
    ASSUME NEW l, Layout(l), Accepted(l), NEW o, NEW s, IsKept(l, o, s),
           NEW rel \in ToSet(Section(l, o, s).relocs), rel.sym \in l.m.symbols[o],
           NEW sym, sym = l.objs[o].table[rel.sym], sym.section = 0, Definitions(l, sym.name) = {}
    PROVE  sym.name \in LinkDriver(l).asked
<1>1. PICK rels : rels = Relocations(l)
  OBVIOUS
<1>2. PICK effects : effects = Effects(l, rels)
  OBVIOUS
<1>3. LinkDriver(l).asked = Asked(l, rels, effects)
  BY <1>1, <1>2 DEF LinkDriver, Outcome
<1>4. PICK k \in DOMAIN rels : rels[k] = <<o, s, rel>>
  <2>1. Linkable(l.objs)
    BY DEF Layout
  <2>2. RelocationsOf(l, rels)
    BY <1>1, <2>1, RelocationsAre
  <2> QED BY <2>2 DEF RelocationsOf
<1>5. PICK N \in Nat : DOMAIN rels = 1..N
  <2>1. Linkable(l.objs)
    BY DEF Layout
  <2>2. RelocationsOf(l, rels)
    BY <1>1, <2>1, RelocationsAre
  <2> QED BY <2>2 DEF RelocationsOf
<1>6. \A j \in 1..(k - 1) : effects[j].does # "throw"
  <2>1. \A j \in 1..(k - 1) : j \in DOMAIN effects
    BY <1>2, <1>4, <1>5 DEF Effects
  <2> QED BY <1>1, <1>2, <2>1 DEF Accepted, Accepts
<1>7. OnlyX64(l.objs)
  BY DEF Accepted, Accepts
<1>8. rels[k][1] = o /\ rels[k][3] = rel
  BY <1>4
<1> DEFINE T == {j \in {j \in DOMAIN rels : \A i \in 1..(j - 1) : effects[i].does # "throw"} :
                  /\ OnlyX64(l.objs)
                  /\ rels[j][3].sym \in l.m.symbols[rels[j][1]]
                  /\ l.objs[rels[j][1]].table[rels[j][3].sym].section = 0
                  /\ Definitions(l, l.objs[rels[j][1]].table[rels[j][3].sym].name) = {}}
<1>9. Asked(l, rels, effects) = {l.objs[rels[j][1]].table[rels[j][3].sym].name : j \in T}
  BY DEF Asked
<1>10. l.objs[rels[k][1]].table[rels[k][3].sym] = sym
  BY <1>8
<1>11. k \in T
  BY <1>4, <1>6, <1>7, <1>8, <1>10
<1> HIDE DEF T
<1> QED BY <1>3, <1>9, <1>10, <1>11

\* A relocation points to an address its symbol may stand for.
LEMMA TargetIsAddress ==
    ASSUME BuildAssumption, NEW l, Layout(l), FieldsLead(l), Accepted(l),
           l.external = External(l.base), LinkDriver(l).asked \cap DOMAIN Stub \subseteq stubs,
           NEW mem, InMemory(mem, l), NEW o, NEW s, IsKept(l, o, s),
           NEW rel \in ToSet(Section(l, o, s).relocs)
    PROVE  Target(l, o, rel) \in AddressesOf(mem, l, <<o, rel.sym>>)
<1>1. /\ rel.sym \in l.m.symbols[o]
      /\ l.objs[o].table[rel.sym].section > 0 => Kept(l, o, l.objs[o].table[rel.sym].section)
      /\ Target(l, o, rel) # NoAddress
  <2>1. PICK e : e = Effect(l, <<o, s, rel>>) /\ e.does \notin {"throw", "unresolved"}
    BY FieldAccepted
  <2> QED BY <2>1, FieldIsEncoded
<1>2. PICK d : d = <<o, rel.sym>> /\ d[1] = o
  <2>1. <<o, rel.sym>>[1] = o
    OBVIOUS
  <2> QED BY <2>1
<1>3. PICK sym : sym = SymbolAt(l, d) /\ sym = l.objs[o].table[rel.sym]
  BY <1>2 DEF SymbolAt
<1>4. sym.section \in Nat /\ sym.value \in Nat
  <2>1. l.m.symbols[o] = Primary(l.objs[o].table) /\ WellFormed(l.objs[o])
    BY DEF Layout, Linkable, IsKept
  <2> QED BY <1>1, <1>3, <2>1 DEF WellFormed
<1>5. CASE sym.section > 0
  <2>1. IsKept(l, o, sym.section)
    BY <1>1, <1>3, <1>5 DEF IsKept, Kept
  <2>2. Start(l, o, sym.section) + sym.value \in InCopies(mem, l, d)
    BY <1>2, <1>3, <2>1, SymbolInMemory
  <2>3. Target(l, o, rel) = Start(l, o, sym.section) + sym.value
    BY <1>1, <1>3, <1>5 DEF Target, Start, NameOf
  <2> QED BY <1>2, <1>3, <1>5, <2>2, <2>3 DEF AddressesOf
<1>6. CASE sym.section = 0
  <2>1. Target(l, o, rel) = SymAddr(l, sym.name) /\ ~(sym.section > 0)
    BY <1>1, <1>3, <1>6 DEF Target
  <2>2. CASE Definitions(l, sym.name) # {}
    <3>1. PICK e : e = LastOf(Definitions(l, sym.name))
      OBVIOUS
    <3>2. e \in Definitions(l, sym.name) /\ l.base + SymbolRva(l, e) \in InCopies(mem, l, e)
      BY <2>2, <3>1, DefinitionInMemory
    <3>3. Target(l, o, rel) = l.base + SymbolRva(l, e)
      BY <2>1, <2>2, <3>1 DEF SymAddr
    <3> QED BY <1>2, <1>3, <2>1, <2>2, <3>2, <3>3 DEF AddressesOf
  <2>3. CASE Definitions(l, sym.name) = {}
    <3>1. sym.name \in DOMAIN External(l.base) /\ Target(l, o, rel) = External(l.base)[sym.name]
      BY <1>1, <2>1, <2>3 DEF SymAddr
    <3>2. sym.name \in LinkDriver(l).asked
      BY <1>1, <1>3, <1>6, <2>3, NameIsAsked
    <3>3. /\ DataExport \notin DOMAIN Thunk \cup DOMAIN Stub
          /\ DOMAIN Thunk \cap DOMAIN Stub = {}
      BY DEF BuildAssumption
    <3>4. CASE sym.name = DataExport
      <4>1. Target(l, o, rel) = l.base - SlotGap
        BY <3>1, <3>3, <3>4 DEF External
      <4>2. Holds(mem, l.base - SlotGap, SystemPointer)
        BY <3>2, <3>4 DEF InMemory
      <4> QED BY <1>2, <1>3, <2>1, <2>3, <3>4, <4>1, <4>2 DEF AddressesOf
    <3>5. CASE sym.name # DataExport /\ sym.name \in DOMAIN Thunk
      <4>1. Target(l, o, rel) = Thunk[sym.name]
        BY <3>1, <3>5 DEF External
      <4> QED BY <1>2, <1>3, <2>1, <2>3, <3>5, <4>1 DEF AddressesOf
    <3>6. CASE sym.name # DataExport /\ sym.name \notin DOMAIN Thunk
      <4>1. sym.name \in DOMAIN Stub /\ Target(l, o, rel) = Stub[sym.name]
        BY <3>1, <3>6 DEF External
      <4>2. sym.name \in stubs
        BY <3>2, <4>1
      <4> QED BY <1>2, <1>3, <2>1, <2>3, <3>6, <4>1, <4>2 DEF AddressesOf
    <3> QED BY <3>4, <3>5, <3>6
  <2> QED BY <2>2, <2>3
<1> QED BY <1>4, <1>5, <1>6

\* Each field of a copy stands for what its relocation points to.
LEMMA FieldMeans ==
    ASSUME NEW l, Layout(l), FieldsLead(l), Accepted(l), NEW mem, InMemory(mem, l),
           NEW o, NEW s, IsKept(l, o, s), NEW rel \in ToSet(Section(l, o, s).relocs)
    PROVE  Means(mem, Start(l, o, s) + rel.va, rel.type, Target(l, o, rel))
<1>1. PICK e : e = Effect(l, <<o, s, rel>>) /\ e.does \notin {"throw", "unresolved"}
  BY FieldAccepted
<1>2. PICK target : target = Target(l, o, rel)
  OBVIOUS
<1>3. /\ rel.type = "REL32" => e.cells[1] = Content("rel", target - (Place(l, o, s, rel) + 1), 0)
      /\ rel.type = "ABS" => /\ e.cells[1] = Content("low", target % Span, 0)
                             /\ e.cells[2] = Content("high", target \div Span, 0)
      /\ rel.type = "ADDR32" => e.cells[1] = Content("low", target % Span, 0)
  BY <1>1, <1>2, FieldIsEncoded
<1>4. /\ rel.va \in Nat /\ Tracked(l, o, s) = 0
      /\ Field(rel) \subseteq 0..(SizeOf(l, o, s) - 1)
  BY FieldsApart
<1>5. PICK v \in Nat : v = rel.va
  BY <1>4
<1>6. PICK b \in Int, r \in Nat : b = l.base /\ r = l.rva[NameOf(l, o, s)]
  BY DEF Layout, IsKept, Kept, NameOf
<1>7. PICK p \in Int : p = b + r + v
  OBVIOUS
<1>8. PICK start \in Int : start = Start(l, o, s) /\ start + v = p /\ Place(l, o, s, rel) = p
  BY <1>4, <1>5, <1>6, <1>7 DEF Start, Place
<1>9. ASSUME NEW i \in Field(rel) PROVE Holds(mem, start + i, e.cells[i - v + 1])
  BY <1>1, <1>4, <1>5, <1>8, CellsInMemory
<1>10. rel.type \in {"REL32", "ABS", "ADDR32"} => Holds(mem, p, e.cells[1])
  <2>1. rel.type \in {"REL32", "ABS", "ADDR32"} => v \in Field(rel)
    BY <1>5 DEF Field, Width
  <2>2. v - v + 1 = 1
    OBVIOUS
  <2> QED BY <1>8, <1>9, <2>1, <2>2
<1>11. rel.type = "ABS" => Holds(mem, p + 1, e.cells[2])
  <2>1. rel.type = "ABS" => v + 1 \in Field(rel)
    BY <1>5 DEF Field, Width
  <2>2. (v + 1) - v + 1 = 2 /\ start + (v + 1) = p + 1
    BY <1>8
  <2> QED BY <1>9, <2>1, <2>2
<1>12. Means(mem, p, rel.type, target)
  BY <1>3, <1>8, <1>10, <1>11 DEF Means
<1> QED BY <1>2, <1>5, <1>8, <1>12

\* A driver in memory is as its sources say.
LEMMA LinkIsSound ==
    ASSUME BuildAssumption, NEW l, Layout(l), FieldsLead(l), Accepted(l),
           l.external = External(l.base), LinkDriver(l).asked \cap DOMAIN Stub \subseteq stubs,
           NEW mem, InMemory(mem, l)
    PROVE  CopiesAreSound(mem, l) /\ EntersDriverEntry(mem, l)
<1>1. ASSUME NEW o \in DOMAIN l.objs, NEW s \in DOMAIN l.objs[o].sections, Kept(l, o, s)
      PROVE  CopyIsSound(mem, l, o, s, l.base + l.rva[Section(l, o, s).name] + Tracked(l, o, s))
  <2>1. IsKept(l, o, s)
    BY <1>1 DEF IsKept
  <2>2. CopyAt(mem, l, o, s, Start(l, o, s))
    BY <2>1, CopyInMemory
  <2>3. ASSUME NEW rel \in ToSet(Section(l, o, s).relocs)
        PROVE  \E a \in AddressesOf(mem, l, <<o, rel.sym>>) :
                 Means(mem, Start(l, o, s) + rel.va, rel.type, a)
    <3>1. Target(l, o, rel) \in AddressesOf(mem, l, <<o, rel.sym>>)
      BY <2>1, TargetIsAddress
    <3>2. Means(mem, Start(l, o, s) + rel.va, rel.type, Target(l, o, rel))
      BY <2>1, FieldMeans
    <3> QED BY <3>1, <3>2
  <2>4. CopyIsSound(mem, l, o, s, Start(l, o, s))
    BY <2>2, <2>3 DEF CopyIsSound
  <2> QED BY <2>4 DEF Start, NameOf
<1>2. EntersDriverEntry(mem, l)
  <2>1. SUFFICES ASSUME Definitions(l, "DriverEntry") # {}
                 PROVE  \E d \in Definitions(l, "DriverEntry") : l.base + EntryRva(l) \in InCopies(mem, l, d)
    BY DEF EntersDriverEntry
  <2>2. PICK d : d = LastOf(Definitions(l, "DriverEntry"))
    OBVIOUS
  <2>3. d \in Definitions(l, "DriverEntry") /\ l.base + SymbolRva(l, d) \in InCopies(mem, l, d)
    BY <2>1, <2>2, DefinitionInMemory
  <2>4. EntryRva(l) = SymbolRva(l, d)
    BY <2>1, <2>2 DEF EntryRva
  <2> QED BY <2>3, <2>4
<1> QED BY <1>1, <1>2 DEF CopiesAreSound

-----------------------------------------------------------------------------
(* Kernel memory.                                                          *)

\* What a load wrote is what the linker makes of its objects.
LEMMA LinkingIs ==
    ASSUME NEW load, load.ids \in Inputs, load.base \in Bases,
           NEW linking, linking = LinkingOf(load)
    PROVE  /\ linking.base = load.base
           /\ linking.result = LinkDriver(LinkOf(load))
<1>1. PICK l \in Linkings : l.ids = load.ids /\ l.base = load.base
  <2> DEFINE l == [ids |-> load.ids, base |-> load.base,
                   result |-> LinkDriver(Link(Objs(load.ids), load.base, External(load.base)))]
  <2>1. l \in Linkings
    BY DEF Linkings
  <2>2. l.ids = load.ids /\ l.base = load.base
    OBVIOUS
  <2> HIDE DEF l
  <2> QED BY <2>1, <2>2
<1>2. linking \in Linkings /\ linking.ids = load.ids /\ linking.base = load.base
  BY <1>1 DEF LinkingOf
<1>3. PICK ids \in Inputs, base \in Bases : linking =
        [ids |-> ids, base |-> base, result |-> LinkDriver(Link(Objs(ids), base, External(base)))]
  BY <1>2 DEF Linkings
<1>4. linking.ids = ids /\ linking.base = base
      /\ linking.result = LinkDriver(Link(Objs(ids), base, External(base)))
  BY <1>3
<1> QED BY <1>2, <1>4 DEF LinkOf

\* What nothing was loaded over is in memory.
LEMMA LiveInMemory ==
    ASSUME NEW N \in Nat, DOMAIN loads = 1..N, Len(loads) = N, NEW i \in 1..N, Live(i),
           NEW mine, mine = Written(LinkingOf(loads[i])), NEW a \in DOMAIN mine
    PROVE  Holds(Memory, a, mine[a])
<1> DEFINE written == [k \in DOMAIN loads |-> Written(LinkingOf(loads[k]))]
           writers == {k \in DOMAIN loads : a \in DOMAIN written[k]}
<1>1. written[i] = mine /\ i \in writers
  OBVIOUS
<1>2. PICK k \in writers : \A j \in writers : j <= k
  <2>1. writers \in SUBSET (1..N) /\ writers # {}
    BY <1>1
  <2> HIDE DEF writers
  <2> QED BY <2>1, GreatestNumber
<1>3. Max(writers) = k
  <2>1. writers \subseteq Nat
    OBVIOUS
  <2>2. \A j \in writers : k >= j
    BY <1>2, <2>1
  <2> HIDE DEF writers
  <2>3. \A m \in writers : (\A j \in writers : m >= j) => m = k
    BY <2>1, <2>2
  <2> QED BY <2>2, <2>3 DEF Max
<1>4. a \in DOMAIN Memory /\ Memory[a] = written[k][a]
  <2> DEFINE at(c) == {j \in DOMAIN loads : c \in DOMAIN written[j]}
  <2>1. a \in UNION {DOMAIN written[j] : j \in DOMAIN loads}
    BY <1>1
  <2>2. Memory = [c \in UNION {DOMAIN written[j] : j \in DOMAIN loads} |-> written[Max(at(c))][c]]
    BY DEF Memory
  <2>3. at(a) = writers
    OBVIOUS
  <2> HIDE DEF at, writers, written
  <2> QED BY <1>3, <2>1, <2>2, <2>3
<1>5. written[k][a] = mine[a]
  <2>1. CASE k = i
    BY <1>1, <2>1
  <2>2. CASE k # i
    <3>1. k \in (i + 1)..Len(loads)
      <4>1. k \in 1..N /\ i <= k
        BY <1>1, <1>2
      <4> QED BY <2>2, <4>1
    <3>2. a \in DOMAIN written[i] \cap DOMAIN written[k]
      BY <1>1
    <3>3. \A j \in (i + 1)..Len(loads) : \A c \in DOMAIN written[i] \cap DOMAIN written[j] :
            written[j][c] = written[i][c]
      BY DEF Live
    <3> HIDE DEF written, writers
    <3> QED BY <1>1, <3>1, <3>2, <3>3
  <2> QED BY <2>1, <2>2
<1> HIDE DEF written, writers
<1> QED BY <1>4, <1>5 DEF Holds

\* A driver nothing was loaded over is in memory.
LEMMA DriverInMemory ==
    ASSUME BuildAssumption, NEW N \in Nat, DOMAIN loads = 1..N, Len(loads) = N, NEW i \in 1..N, Live(i),
           loads[i].ids \in Inputs, loads[i].base \in Bases,
           NEW l, l = LinkOf(loads[i]), Layout(l), l.base = loads[i].base, Accepted(l)
    PROVE  InMemory(Memory, l)
<1>1. PICK linking : linking = LinkingOf(loads[i])
  OBVIOUS
<1>2. linking.base = l.base /\ linking.result = LinkDriver(l)
  BY <1>1, LinkingIs
<1>3. PICK result : result = LinkDriver(l)
  OBVIOUS
<1>4. PICK b \in Int, m \in Nat, gap \in Nat \ {0} : b = l.base /\ m = ImageSize(l) /\ gap = SlotGap
  BY DEF Layout, BuildAssumption
<1>5. DOMAIN result.image = 0..(m - 1)
  BY <1>3, <1>4 DEF LinkDriver, Outcome, Image, Accepted
<1> DEFINE slot == {a \in {b - gap} : DataExport \in result.asked}
           cells == {b + c : c \in 0..(m - 1)}
<1>6. PICK mine : mine = Written(linking)
  OBVIOUS
<1>7. mine = [a \in slot \cup cells |-> IF a \in cells THEN result.image[a - b] ELSE SystemPointer]
  <2>1. linking.base = b /\ linking.result = result /\ SlotGap = gap
    BY <1>2, <1>3, <1>4
  <2>2. mine = [a \in {a \in {linking.base - SlotGap} : DataExport \in linking.result.asked}
                      \cup {linking.base + c : c \in DOMAIN linking.result.image} |->
                  IF a \in {linking.base + c : c \in DOMAIN linking.result.image}
                  THEN linking.result.image[a - linking.base] ELSE SystemPointer]
    BY <1>6 DEF Written
  <2>3. mine = [a \in {a \in {b - gap} : DataExport \in result.asked}
                      \cup {b + c : c \in DOMAIN result.image} |->
                  IF a \in {b + c : c \in DOMAIN result.image}
                  THEN result.image[a - b] ELSE SystemPointer]
    BY <2>1, <2>2
  <2> QED BY <1>5, <2>3
<1>8. ASSUME NEW a \in DOMAIN mine PROVE Holds(Memory, a, mine[a])
  BY <1>1, <1>6, LiveInMemory
<1>9. ASSUME NEW c \in 0..(m - 1) PROVE Holds(Memory, b + c, result.image[c])
  <2>1. b + c \in cells /\ (b + c) - b = c
    OBVIOUS
  <2> HIDE DEF cells, slot
  <2>2. b + c \in DOMAIN mine /\ mine[b + c] = result.image[c]
    BY <1>7, <2>1
  <2> QED BY <1>8, <2>2
<1>10. ASSUME DataExport \in result.asked PROVE Holds(Memory, b - gap, SystemPointer)
  <2>1. b - gap \notin cells /\ b - gap \in slot
    BY <1>10
  <2> HIDE DEF cells, slot
  <2>2. b - gap \in DOMAIN mine /\ mine[b - gap] = SystemPointer
    BY <1>7, <2>1
  <2> QED BY <1>8, <2>2
<1> QED BY <1>3, <1>4, <1>9, <1>10 DEF InMemory

\* Every call linked its objects for its base, and the stubs it asked for are there.
LoadsInv ==
    \A k \in DOMAIN loads :
        /\ loads[k].ok = LinkDriver(LinkOf(loads[k])).ok
        /\ LinkDriver(LinkOf(loads[k])).asked \cap DOMAIN Stub \subseteq stubs

\* A linking is determined by its objects and its base.
LEMMA LinkingsAre ==
    ASSUME NEW l \in Linkings, NEW load, load.ids = l.ids, load.base = l.base
    PROVE  l.result = LinkDriver(LinkOf(load))
<1>1. PICK ids \in Inputs, base \in Bases : l =
        [ids |-> ids, base |-> base, result |-> LinkDriver(Link(Objs(ids), base, External(base)))]
  BY DEF Linkings
<1>2. l.ids = ids /\ l.base = base /\ l.result = LinkDriver(Link(Objs(ids), base, External(base)))
  BY <1>1
<1> QED BY <1>2 DEF LinkOf

\* A load keeps what is known of the loads before, and adds its own.
LEMMA LoadsKept ==
    ASSUME KernelInv, LoadsInv, NEW l \in Linkings, NEW name \in Names, Load(l, name)
    PROVE  LoadsInv'
<1> DEFINE e == [ids |-> l.ids, base |-> l.base, name |-> name, ok |-> l.result.ok]
<1>1. l.ids \in Inputs /\ l.base \in Bases
  BY DEF Linkings
<1>2. e \in LoadRecords /\ e.ok = l.result.ok /\ e.ids = l.ids /\ e.base = l.base
  BY <1>1 DEF LoadRecords
<1>3. loads' = Append(loads, e) /\ loads \in Seq(LoadRecords)
  BY DEF Load, KernelInv
<1> HIDE DEF e
<1>4. \A k \in DOMAIN loads' : \/ k \in DOMAIN loads /\ loads'[k] = loads[k]
                               \/ loads'[k] = e
  BY <1>2, <1>3, Put
<1>5. l.result = LinkDriver(LinkOf(e))
  BY <1>2, LinkingsAre
<1>6. stubs \subseteq stubs' /\ l.result.asked \cap DOMAIN Stub \subseteq stubs'
  BY DEF Load
<1>7. ASSUME NEW k \in DOMAIN loads'
      PROVE  /\ loads'[k].ok = LinkDriver(LinkOf(loads'[k])).ok
             /\ LinkDriver(LinkOf(loads'[k])).asked \cap DOMAIN Stub \subseteq stubs'
  <2>1. CASE k \in DOMAIN loads /\ loads'[k] = loads[k]
    BY <1>6, <2>1 DEF LoadsInv
  <2>2. CASE loads'[k] = e
    BY <1>2, <1>5, <1>6, <2>2
  <2> QED BY <1>4, <2>1, <2>2
<1> QED BY <1>7 DEF LoadsInv

\* A driver that was loaded, and not loaded over, is in memory as its sources say: both
\* layout passes put a section at one address and no two at the same, every field of a
\* leading chunk is patched once and leads to its symbol, and DriverEntry is entered.
THEOREM DriversLinked == BFairSpec => []DriversAreLinked
<1>1. BInit => LoadsInv
  BY DEF BInit, LoadsInv
<1>2. BuildInv /\ LoadsInv /\ [BNext]_bvars => LoadsInv'
  <2> SUFFICES ASSUME BuildInv, LoadsInv, [BNext]_bvars PROVE LoadsInv'
    OBVIOUS
  <2>1. CASE UNCHANGED kernel
    BY <2>1 DEF LoadsInv, kernel
  <2>2. CASE \E c \in Compiles : LabLoads(c)
    BY <2>2, LoadsKept DEF LabLoads, BuildInv
  <2> QED BY <2>1, <2>2 DEF BNext, bvars
<1>3. BuildInv /\ LoadsInv => DriversAreLinked
  <2> SUFFICES ASSUME BuildInv, LoadsInv, NEW i \in DOMAIN loads, Live(i), FieldsLead(LinkOf(loads[i]))
               PROVE  CopiesAreSound(Memory, LinkOf(loads[i])) /\ EntersDriverEntry(Memory, LinkOf(loads[i]))
    BY DEF DriversAreLinked
  <2>1. loads \in Seq(LoadRecords)
    BY DEF BuildInv, KernelInv
  <2>2. loads[i] \in LoadRecords
    BY <2>1, Element
  <2>3. loads[i].ids \in Inputs /\ loads[i].base \in Bases
    BY <2>2 DEF LoadRecords
  <2>4. PICK N \in Nat : DOMAIN loads = 1..N /\ Len(loads) = N
    BY <2>1
  <2>5. PICK l : l = LinkOf(loads[i])
    OBVIOUS
  <2>6. l = Link(Objs(loads[i].ids), loads[i].base, External(loads[i].base))
    BY <2>5 DEF LinkOf
  <2>7. PICK base \in Int : base = loads[i].base
    BY <2>3, BuildAssumption DEF BuildAssumption
  <2>8. PICK objs, external : objs = Objs(loads[i].ids) /\ external = External(base)
    OBVIOUS
  <2>9. l = Link(objs, base, external)
    BY <2>6, <2>7, <2>8
  <2>10. Linkable(objs)
    BY <2>3, <2>8, ObjectAssumption, ObjsLinkable
  <2>11. Layout(l)
    BY <2>10, <2>9, LinkAssumption, LinkLayout
  <2>12. l.base = loads[i].base /\ l.external = External(l.base)
    BY <2>7, <2>8, <2>9, LinkIs
  <2>13. Accepted(l)
    <3>1. LinkDriver(l).ok
      BY <2>5 DEF Live, LoadsInv
    <3> QED BY <3>1 DEF LinkDriver, Outcome, Accepted
  <2>14. LinkDriver(l).asked \cap DOMAIN Stub \subseteq stubs
    BY <2>5 DEF LoadsInv
  <2>15. InMemory(Memory, l)
    BY <2>3, <2>4, <2>5, <2>11, <2>12, <2>13, BuildAssumption, DriverInMemory
  <2> QED BY <2>5, <2>11, <2>12, <2>13, <2>14, <2>15, BuildAssumption, LinkIsSound
<1>4. BFairSpec => []LoadsInv
  BY <1>1, <1>2, Invariance, PTL DEF BFairSpec, BSpec
<1> QED
  BY <1>3, <1>4, Invariance, PTL
=============================================================================
