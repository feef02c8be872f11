----------------------------- MODULE Instructions -----------------------------
(***************************************************************************)
(* What the code generator and the interpreter share (aop.h): the form of  *)
(* an instruction and what its operands can name.                          *)
(***************************************************************************)
EXTENDS Integers, Sequences, FiniteSets, SequencesExt

CONSTANT MaxStack        \* aloK_maxstacksize: registers from here on name captures

ASSUME MaxStackAssumption == MaxStack \in Nat \ {0}

NO_JUMP == -1
MULTIRET == -1
Registry == MaxStack     \* aloK_registry, capture 0 of every function

\* Bx and sBx are in field B.
Ins(i, xA, xB, xC, A, B, C) ==
    [i |-> i, xA |-> xA, xB |-> xB, xC |-> xC, A |-> A, B |-> B, C |-> C]
Bit(b) == IF b THEN 1 ELSE 0

\* Sums of the code generator, which folds literals, and of the interpreter.
Arith(op, m, n) == IF op = "ADD" THEN m + n ELSE m - n
==============================================================================
