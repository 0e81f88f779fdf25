---------------------------- MODULE MCInstrumented ----------------------------
(* The two processors with hooks, either in a run of its own: they share     *)
(* nothing.  BugTaint: three registers, those of the arguments; two bytes of *)
(* input and two of other memory; operands of one byte and of a register.    *)
(* ConcolicShadow: one register of two bytes of one bit and two bytes of     *)
(* memory, which are the input.                                              *)
EXTENDS BugTaint, ConcolicShadow

VARIABLE engine

MCRegs == <<"rcx", "rdx", "r8">>
MCCells == 0..3
MCMemory == 0..1

EnginesInit ==
    /\ engine \in {"bug", "concolic"}
    /\ TaintInit /\ ShadowInit
    /\ engine = "bug" => buffer = [i \in 1..InputLen |-> 0]

EnginesNext ==
    \/ engine = "bug" /\ TaintNext /\ UNCHANGED <<engine, shadowVars>>
    \/ engine = "concolic" /\ ShadowNext /\ UNCHANGED <<engine, taintVars>>

EnginesSpec == EnginesInit /\ [][EnginesNext]_<<engine, taintVars, shadowVars>>
=============================================================================
