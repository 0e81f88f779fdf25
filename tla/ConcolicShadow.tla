---------------------------- MODULE ConcolicShadow ----------------------------
(***************************************************************************)
(* The engine behind concolicCampaign: ConcolicJsInterpreter               *)
(* (ntsim-analyzer/src/symbolic/concolic.mjs) with the expressions of      *)
(* expr.mjs, the shadow state of shadow.mjs and the queries of solver.mjs. *)
(* A processor whose hooks keep, beside each value that comes from the     *)
(* input, an expression over the input's bytes, and which writes down what *)
(* every conditional jump says of the input.                               *)
(*                                                                         *)
(* The processor itself (JsInterpreter) is not in this repository: it may  *)
(* call the hooks in any order.  An expression is what it denotes: its     *)
(* value for every input.  Only its sort is kept beside that, because the  *)
(* solver refuses an expression whose operands' sorts differ.              *)
(***************************************************************************)
EXTENDS Integers, Sequences

CONSTANTS ByteBits,     \* bits of a byte: 8
          RegWidth,     \* bytes of a register: 8
          OperandSizes, \* sizes of operands
          Registers,
          Memory,       \* addresses: an interval from 0
          InputLen,     \* the input is in the first so many of them
          Operations,   \* operations of the ALU
          Codes,        \* conditions of jumps
          Immediates,
          MaxCalls,     \* bound: hooks called
          MaxRuns,      \* bound: inputs run
          Nil

ASSUME ShadowAssumption ==
    /\ {ByteBits, RegWidth, InputLen, MaxCalls, MaxRuns} \subseteq Nat \ {0}
    /\ OperandSizes \subseteq 1..RegWidth
    /\ Memory \subseteq Nat /\ \A a \in Memory : 0..a \subseteq Memory
    /\ 0..(InputLen - 1) \subseteq Memory
    /\ Operations \subseteq {"add", "sub", "and", "or", "xor", "adc", "sbb", "cmp", "test"}
    /\ Codes \subseteq {"e", "ne", "b", "ae", "be", "a", "s", "ns", "o", "no", "l", "ge", "le", "g"}
    /\ Immediates \subseteq Nat

VARIABLES started,      \* inputs started
          calls,        \* hooks called
          cpu,          \* memory, registers and flags; the value the last hook returned
          buffer,       \* the bytes run on
          shadow,       \* expressions of bytes, registers and flags, or Nil
          lastLoad,     \* _lastLoadSym
          pendingSym,   \* _pendingSym
          pathConstraints,
          meant,        \* history: the values that lastLoad and pendingSym were made for
          trusted       \* history: so far each expression was used for the value it was made for

shadowVars == <<started, calls, cpu, buffer, shadow, lastLoad, pendingSym, pathConstraints,
                meant, trusted>>

\* Powers of two.
Two[n \in Nat] == IF n = 0 THEN 1 ELSE 2 * Two[n - 1]

ByteValues == 0..(Two[ByteBits] - 1)
AllInputs == [1..InputLen -> ByteValues]
Bits(size) == ByteBits * size
Low(v, bits) == v % Two[bits]
Places(size) == {a \in Memory : a + size - 1 \in Memory}

\* The number that n digits of some bits each make, the least one first.
Number(digit, n, bits) ==
    LET sum[i \in 0..n] == IF i = 0 THEN 0 ELSE sum[i - 1] + digit[i - 1] * Two[bits * (i - 1)]
    IN  sum[n]

\* What a processor reads at an address, its least byte first.
Word(bytes, addr, size) == Number([i \in 0..(size - 1) |-> bytes[addr + i]], size, ByteBits)

ByteOf(v, i) == Low(v \div Two[Bits(i)], ByteBits)

-----------------------------------------------------------------------------
(* Expressions.  A predicate has sort Bool, anything else its bits.        *)

Bool == 0
Truth(p) == IF p THEN 1 ELSE 0

Expr(bits, ids, sorted, val) ==
    [bits |-> bits, ids |-> ids, sorted |-> sorted, const |-> FALSE, val |-> val]

Exprs == [bits : Nat, ids : SUBSET (0..(InputLen - 1)), sorted : BOOLEAN, const : BOOLEAN,
          val : [AllInputs -> Nat]]

ASSUME NilAssumption == Nil \notin Exprs

mkSym(i) == Expr(ByteBits, {i}, TRUE, [in \in AllInputs |-> in[i + 1]])
mkConst(v, bits) == [Expr(bits, {}, TRUE, [in \in AllInputs |-> Low(v, bits)]) EXCEPT !.const = TRUE]

\* An operation on words that works bit by bit.
Bitwise(kind, a, b) ==
    LET bit(v, i) == Low(v \div Two[i], 1)
        sum(i) == bit(a, i) + bit(b, i)
    IN  Number([i \in 0..(Bits(RegWidth) - 1) |->
                  CASE kind = "and" -> sum(i) \div 2
                    [] kind = "or" -> (sum(i) + 1) \div 2
                    [] kind = "xor" -> sum(i) % 2], Bits(RegWidth), 1)

\* What an operation gives before it is cut to its bits; "or" of predicates as well.
Applied(kind, a, b, bits) ==
    CASE kind = "add" -> a + b
      [] kind = "sub" -> a - b + Two[bits]
      [] kind \in {"and", "or", "xor"} -> Bitwise(kind, a, b)
      [] kind = "eq" -> Truth(a = b)
      [] kind = "ne" -> Truth(a # b)
      [] kind = "ult" -> Truth(a < b)

Joined(kind, l, r, sort, bits) ==
    Expr(sort, l.ids \cup r.ids, l.sorted /\ r.sorted /\ l.bits = r.bits,
         [in \in AllInputs |-> Low(Applied(kind, l.val[in], r.val[in], bits), bits)])

mkBinop(kind, l, r, bits) == Joined(kind, l, r, bits, bits)
mkCmp(kind, l, r) == Joined(kind, l, r, Bool, 1)
mkOr(l, r) == Joined("or", l, r, l.bits, 1)
mkNot(e) == [Expr(e.bits, e.ids, e.sorted, [in \in AllInputs |-> 1 - e.val[in]]) EXCEPT !.const = FALSE]

\* Bits low to low + bits - 1; the solver refuses bits that the expression does not have.
mkExtract(e, low, bits) ==
    Expr(bits, e.ids, e.sorted /\ low + bits <= e.bits,
         [in \in AllInputs |-> Low(e.val[in] \div Two[low], bits)])

\* parts[i] is byte i - 1
mkConcat(parts) ==
    Expr(Bits(Len(parts)), UNION {parts[i].ids : i \in DOMAIN parts},
         \A i \in DOMAIN parts : parts[i].sorted,
         [in \in AllInputs |-> Word([i \in 0..(Len(parts) - 1) |-> parts[i + 1].val[in]], 0, Len(parts))])

isSymbolic(e) == IF e = Nil THEN FALSE ELSE ~e.const

-----------------------------------------------------------------------------
(* Shadow state.                                                           *)

NoFlags == [zf |-> Nil, cf |-> Nil, sf |-> Nil]

\* clear, then taintRange: every byte of the input is a symbol.
TaintRange ==
    [mem |-> [a \in Memory |-> IF a < InputLen THEN mkSym(a) ELSE Nil],
     regs |-> [r \in Registers |-> Nil],
     flags |-> NoFlags]

\* loadMem: a byte's own expression, or the bytes put together, those without an
\* expression as constants.
Loaded(addr, size) ==
    IF \A i \in 0..(size - 1) : shadow.mem[addr + i] = Nil THEN Nil
    ELSE IF size = 1 THEN shadow.mem[addr]
    ELSE mkConcat([i \in 1..size |-> IF shadow.mem[addr + i - 1] # Nil
                                     THEN shadow.mem[addr + i - 1]
                                     ELSE mkConst(cpu.mem[addr + i - 1], ByteBits)])

\* An expression cut to an operand's size; a narrower one is kept as it is.
Fit(e, size) == IF isSymbolic(e) /\ e.bits > Bits(size) THEN mkExtract(e, 0, Bits(size)) ELSE e

\* storeMem: the bytes of the value get the bytes of the expression that is pending.
Spread(addr, size) ==
    [a \in Memory |->
       IF a \notin addr..(addr + size - 1) THEN shadow.mem[a]
       ELSE IF ~isSymbolic(pendingSym) THEN Nil
       ELSE IF size = 1 /\ pendingSym.bits = ByteBits THEN pendingSym
       ELSE mkExtract(pendingSym, Bits(a - addr), ByteBits)]

\* The operation's expression: cmp and test are sub and and, adc and sbb lose the carry.
Kind(op) == CASE op \in {"cmp", "sbb", "sub"} -> "sub"
              [] op \in {"test", "and"} -> "and"
              [] op \in {"adc", "add"} -> "add"
              [] OTHER -> op

Derived(op, a, b, size) == mkBinop(Kind(op), a, mkConst(b, Bits(size)), Bits(size))

FlagsOf(op, a, b, size) ==
    LET d == Derived(op, a, b, size) IN
    [zf |-> mkCmp("eq", d, mkConst(0, Bits(size))),
     cf |-> CASE Kind(op) = "add" -> mkCmp("ult", d, a)
              [] Kind(op) = "sub" -> mkCmp("ult", a, mkConst(b, Bits(size)))
              [] OTHER -> mkConst(0, 1),
     sf |-> mkCmp("ne", mkExtract(d, Bits(size) - 1, 1), mkConst(0, 1))]

\* What a jump with this condition says of the input, Nil if nothing.  The signed
\* conditions are the zero flag's, for want of an expression of the overflow flag.
Predicate(cc) ==
    LET zf == shadow.flags.zf
        cf == shadow.flags.cf
        sf == shadow.flags.sf
        either == IF cf = Nil THEN zf ELSE IF zf = Nil THEN cf ELSE mkOr(cf, zf)
        not(e) == IF e = Nil THEN Nil ELSE mkNot(e)
    IN  CASE cc \in {"e", "l", "le"} -> zf
          [] cc \in {"ne", "ge", "g"} -> not(zf)
          [] cc = "b" -> cf
          [] cc = "ae" -> not(cf)
          [] cc = "be" -> either
          [] cc = "a" -> not(either)
          [] cc = "s" -> sf
          [] cc = "ns" -> not(sf)
          [] cc \in {"o", "no"} -> Nil

Signed == {"l", "le", "ge", "g"}

-----------------------------------------------------------------------------
(* The processor: what the hooks it calls are about.                       *)

\* The result of an operation and the flags it sets.
Result(op, a, b, size) ==
    LET c == IF op \in {"adc", "sbb"} THEN cpu.flags.cf ELSE 0
    IN  Low(Applied(Kind(op), a, IF Kind(op) \in {"add", "sub"} THEN b + c ELSE b, Bits(size) + 1), Bits(size))

Top(v, size) == v \div Two[Bits(size) - 1]

CpuFlags(op, a, b, size) ==
    LET c == IF op \in {"adc", "sbb"} THEN cpu.flags.cf ELSE 0
        r == Result(op, a, b, size)
    IN  [zf |-> Truth(r = 0),
         sf |-> Top(r, size),
         cf |-> CASE Kind(op) = "add" -> Truth(a + b + c >= Two[Bits(size)])
                  [] Kind(op) = "sub" -> Truth(a < b + c)
                  [] OTHER -> 0,
         of |-> CASE Kind(op) = "add" -> Truth(Top(a, size) = Top(b, size) /\ Top(r, size) # Top(a, size))
                  [] Kind(op) = "sub" -> Truth(Top(a, size) # Top(b, size) /\ Top(r, size) # Top(a, size))
                  [] OTHER -> 0]

Holds(cc) ==
    LET f == cpu.flags IN
    CASE cc = "e" -> f.zf = 1
      [] cc = "ne" -> f.zf = 0
      [] cc = "b" -> f.cf = 1
      [] cc = "ae" -> f.cf = 0
      [] cc = "be" -> f.cf = 1 \/ f.zf = 1
      [] cc = "a" -> f.cf = 0 /\ f.zf = 0
      [] cc = "s" -> f.sf = 1
      [] cc = "ns" -> f.sf = 0
      [] cc = "o" -> f.of = 1
      [] cc = "no" -> f.of = 0
      [] cc = "l" -> f.sf # f.of
      [] cc = "ge" -> f.sf = f.of
      [] cc = "le" -> f.zf = 1 \/ f.sf # f.of
      [] cc = "g" -> f.zf = 0 /\ f.sf = f.of

Operands(size) ==
    {<<Low(cpu.value, Bits(size)), Low(b, Bits(size))>> : b \in Immediates \cup {cpu.regs[r] : r \in Registers}}
      \cup {<<Low(cpu.regs[r], Bits(size)), Low(cpu.value, Bits(size))>> : r \in Registers}

-----------------------------------------------------------------------------
(* Actions.                                                                *)

\* What an expression of an input before was made for.
NoValue == 0 - 1

\* The processor when an input begins, as the snapshot has it.
Restored(in) ==
    [mem |-> [a \in Memory |-> IF a < InputLen THEN in[a + 1] ELSE 0],
     regs |-> [r \in Registers |-> 0],
     flags |-> [zf |-> 0, cf |-> 0, sf |-> 0, of |-> 0],
     value |-> 0]

ShadowInit ==
    /\ started = 1 /\ calls = 0
    /\ buffer \in AllInputs
    /\ cpu = Restored(buffer)
    /\ shadow = TaintRange
    /\ lastLoad = Nil /\ pendingSym = Nil
    /\ pathConstraints = <<>>
    /\ meant = [load |-> 0, pending |-> 0]
    /\ trusted = TRUE

\* enableConcolic for the next input, the one before having ended with
\* disableConcolic: what was pending stays.
EnableConcolic ==
    /\ started < MaxRuns
    /\ started' = started + 1
    /\ buffer' \in AllInputs
    /\ cpu' = Restored(buffer')
    /\ shadow' = TaintRange
    /\ pathConstraints' = <<>>
    /\ meant' = [load |-> NoValue, pending |-> NoValue]
    /\ trusted' = TRUE
    /\ UNCHANGED <<calls, lastLoad, pendingSym>>

Called == calls < MaxCalls /\ calls' = calls + 1 /\ UNCHANGED <<started, buffer>>

Agrees(e, v) == isSymbolic(e) => e.val[buffer] = v

\* loadMem; and loadOp, for which what was loaded is pending.
ReadMem(addr, size, operand) ==
    /\ Called
    /\ cpu' = [cpu EXCEPT !.value = Word(cpu.mem, addr, size)]
    /\ lastLoad' = Loaded(addr, size)
    /\ pendingSym' = IF operand THEN lastLoad' ELSE pendingSym
    /\ meant' = [load |-> cpu'.value, pending |-> IF operand THEN cpu'.value ELSE meant.pending]
    /\ UNCHANGED <<shadow, pathConstraints, trusted>>

\* loadOp of a register.  A narrower expression than the operand is the operand's only
\* if the bytes above it are 0.
ReadReg(r, size) ==
    LET e == shadow.regs[r]
        v == Low(cpu.regs[r], Bits(size))
    IN  /\ Called
        /\ cpu' = [cpu EXCEPT !.value = v]
        /\ lastLoad' = Fit(e, size)
        /\ pendingSym' = lastLoad'
        /\ meant' = [load |-> v, pending |-> v]
        /\ trusted' = (trusted /\ (isSymbolic(e) => Low(v, e.bits) = v))
        /\ UNCHANGED <<shadow, pathConstraints>>

\* storeMem, and storeOp to memory
WriteMem(addr, size, v) ==
    /\ Called
    /\ cpu' = [cpu EXCEPT !.mem = [a \in Memory |-> IF a \in addr..(addr + size - 1)
                                                    THEN ByteOf(v, a - addr) ELSE @[a]]]
    /\ shadow' = [shadow EXCEPT !.mem = Spread(addr, size)]
    /\ trusted' = (trusted /\ (isSymbolic(pendingSym) => v = meant.pending))
    /\ lastLoad' = Nil /\ pendingSym' = Nil
    /\ UNCHANGED <<pathConstraints, meant>>

\* writeReg, and storeOp to a register.  A narrow write leaves the upper bytes.
WriteRegister(r, size, v) ==
    /\ Called
    /\ cpu' = [cpu EXCEPT !.regs[r] = @ - Low(@, Bits(size)) + v]
    /\ shadow' = [shadow EXCEPT !.regs[r] = IF isSymbolic(pendingSym) THEN Fit(pendingSym, size) ELSE Nil]
    /\ trusted' = (trusted /\ (isSymbolic(pendingSym) => v = meant.pending))
    /\ pendingSym' = Nil
    /\ UNCHANGED <<lastLoad, pathConstraints, meant>>

\* Mutant of ClearsFlags: an operation on plain values leaves the flags' expressions.
ClearsFlagsNot(op) == FALSE

\* Operations on plain values clear the flags' expressions, adc and sbb do not.
ClearsFlags(op) == op \notin {"adc", "sbb"}

\* alu: the expression loaded last stands for the first operand, the second one is a
\* constant (_pendingBSym is never set).
Operate(op, a, b, size) ==
    /\ Called
    /\ cpu' = [cpu EXCEPT !.value = IF op \in {"cmp", "test"} THEN @ ELSE Result(op, a, b, size),
                          !.flags = CpuFlags(op, a, b, size)]
    /\ shadow' = [shadow EXCEPT !.flags = IF isSymbolic(lastLoad) THEN FlagsOf(op, lastLoad, b, size)
                                          ELSE IF ClearsFlags(op) THEN NoFlags ELSE @]
    /\ pendingSym' = IF isSymbolic(lastLoad) THEN Derived(op, lastLoad, b, size) ELSE Nil
    /\ lastLoad' = Nil
    /\ meant' = [meant EXCEPT !.pending = Result(op, a, b, size)]
    /\ trusted' = (trusted /\ (isSymbolic(lastLoad) => a = meant.load) /\ op \notin {"adc", "sbb"})
    /\ UNCHANGED pathConstraints

\* cond
Jump(cc) ==
    /\ Called
    /\ pathConstraints' = IF isSymbolic(Predicate(cc))
                          THEN Append(pathConstraints, [pred |-> Predicate(cc), taken |-> Holds(cc), cc |-> cc])
                          ELSE pathConstraints
    /\ UNCHANGED <<cpu, shadow, lastLoad, pendingSym, meant, trusted>>

CallHook ==
    \/ \E a \in Memory, n \in OperandSizes : a \in Places(n) /\
         \/ \E op \in BOOLEAN : ReadMem(a, n, op)
         \/ \E v \in Immediates \cup {cpu.value} : WriteMem(a, n, Low(v, Bits(n)))
    \/ \E r \in Registers, n \in OperandSizes :
         \/ ReadReg(r, n)
         \/ \E v \in Immediates \cup {cpu.value} : WriteRegister(r, n, Low(v, Bits(n)))
    \/ \E op \in Operations, n \in OperandSizes : \E ab \in Operands(n) : Operate(op, ab[1], ab[2], n)
    \/ \E cc \in Codes : Jump(cc)

ShadowNext == EnableConcolic \/ CallHook

ShadowSpec == ShadowInit /\ [][ShadowNext]_shadowVars

-----------------------------------------------------------------------------
(* Queries: solveConstraints of what came before a jump and of the jump    *)
(* not taken.                                                              *)

\* A constraint the solver takes: a well-sorted predicate.
Solvable(c) == c.pred.sorted /\ c.pred.bits = Bool

SaysOf(c, in) == (c.pred.val[in] = 1) = c.taken

\* Inputs that go the same way up to jump k and the other way there.
Models(k) ==
    {in \in AllInputs : (\A i \in 1..(k - 1) : SaysOf(pathConstraints[i], in))
                          /\ ~SaysOf(pathConstraints[k], in)}

Symbols(k) == UNION {pathConstraints[i].pred.ids : i \in 1..k}

\* What is made of a model: bytes the query does not mention are 0.
Answer(k, m) == [i \in 1..InputLen |-> IF i - 1 \in Symbols(k) THEN m[i] ELSE 0]

\* The answers to the query for jump k: none if the solver refuses a part of it, in
\* which case the fallback gives up.
Answers(k) ==
    IF \E i \in 1..k : ~Solvable(pathConstraints[i]) THEN {}
    ELSE {Answer(k, m) : m \in Models(k)}

-----------------------------------------------------------------------------
(* Properties.                                                             *)

ExprOK(e) == e = Nil \/ (e.ids \subseteq 0..(InputLen - 1) /\ e.bits \in 0..Bits(RegWidth))

\* What the engine keeps is about bytes of the input.
ShadowOK ==
    /\ \A a \in Memory : ExprOK(shadow.mem[a]) /\ cpu.mem[a] \in ByteValues
    /\ \A r \in Registers : ExprOK(shadow.regs[r]) /\ cpu.regs[r] = Low(cpu.regs[r], Bits(RegWidth))
    /\ \A f \in DOMAIN NoFlags : ExprOK(shadow.flags[f])
    /\ ExprOK(lastLoad) /\ ExprOK(pendingSym)

\* Memory, registers and flags have the values that their expressions have for the
\* input that runs.
ShadowHolds ==
    /\ \A a \in Memory : Agrees(shadow.mem[a], cpu.mem[a])
    /\ \A r \in Registers : isSymbolic(shadow.regs[r]) => Agrees(shadow.regs[r], Low(cpu.regs[r], shadow.regs[r].bits))
    /\ \A f \in DOMAIN NoFlags : Agrees(shadow.flags[f], cpu.flags[f])
    /\ meant.load # NoValue => Agrees(lastLoad, meant.load)
    /\ meant.pending # NoValue => Agrees(pendingSym, meant.pending)

\* concolic.mjs 5-11.  As long as every expression was used for its own value, each
\* expression kept has the value of what it is kept for, and each constraint of the path
\* is true of the input that took it, the signed conditions apart; and an answer to a
\* query keeps to the path up to the jump it negates and leaves it there.
ConstraintsHold ==
    /\ ShadowOK
    /\ trusted => ShadowHolds
    /\ trusted => \A i \in DOMAIN pathConstraints :
                    pathConstraints[i].cc \notin Signed => SaysOf(pathConstraints[i], buffer)
    /\ \A k \in DOMAIN pathConstraints : Answers(k) \subseteq Models(k)

\* concolic.mjs 309: the zero flag stands for signed conditions.
SignedHold ==
    trusted => \A i \in DOMAIN pathConstraints : SaysOf(pathConstraints[i], buffer)

\* concolic.mjs 5-7, "symbolic expressions are bookkeeping" of the concrete execution.
ShadowFollows == ShadowHolds

\* solver.mjs 202-203, the fallback "only matters where WASM is blocked".
EveryQueryIsPut == \A i \in DOMAIN pathConstraints : Solvable(pathConstraints[i])
===============================================================================
