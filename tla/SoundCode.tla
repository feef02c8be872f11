------------------------------- MODULE SoundCode -------------------------------
(***************************************************************************)
(* Code the interpreter can be trusted with.  It checks no operand: the    *)
(* compiler has to count registers in nstack, to patch every jump, and to  *)
(* let values of an open number be taken by the instruction after the one  *)
(* that leaves them.                                                       *)
(***************************************************************************)
EXTENDS Instructions

\* What an operand can name: a register of the frame, a capture, a constant.
Register(p, r) == r \in 0 .. p.nstack - 1
Place(p, r) == Register(p, r) \/ r - MaxStack \in 0 .. Len(p.caps) - 1
Operand(p, x, r) == IF x = 1 THEN r + 1 \in DOMAIN p.consts ELSE Place(p, r)

\* Instructions that leave values of an open number above their register, up to
\* T->top, and those that take them, with the lowest top these can do with.
Waits(i) == \/ i.i \in {"CALL", "UNBOX"} /\ i.C = 0
            \/ i.i = "LDV" /\ i.B = 0
Takes(i) == \/ i.i \in {"CALL", "TCALL", "RET"} /\ i.B = 0
            \/ i.i \in {"NEWA", "CAT"} /\ i.C = 0
Least(i) == CASE i.i \in {"CALL", "TCALL"} -> i.A + 1
              [] i.i = "RET" -> i.A
              [] OTHER -> i.B
Follows(i, j) == IF Waits(i) THEN Takes(j) /\ Least(j) <= i.A ELSE ~Takes(j)
HasConcat(p) == \E q \in DOMAIN p.code : p.code[q].i = "CAT"
Leads(p, q) == q \in DOMAIN p.code /\ ~Takes(p.code[q])

Loads == {"MOV", "LDC", "SELV", "GET", "ADD", "SUB", "UNM", "LEN"}
Objects == {"NEWA", "NEWM", "NEWL", "LDP", "ITR"}
Changes == {"AADD", "ASUB", "SET", "REM"}
Compares == {"EQ", "LT", "LE"}
Opcodes == Loads \cup Objects \cup Changes \cup Compares
           \cup {"LDN", "LDV", "UNBOX", "CAT", "JMP", "JCZ", "CALL", "TCALL", "ICALL", "RET"}

OperandsSound(p, i) ==
    /\ i.i \in Loads \cup Objects \cup Changes => Place(p, i.A)
    /\ i.i \in Compares \cup {"JCZ"} => Operand(p, i.xA, i.A)
    /\ i.i \in {"MOV", "GET", "ADD", "SUB", "UNM", "LEN", "UNBOX"} \cup Changes \cup Compares => Operand(p, i.xB, i.B)
    /\ i.i \in {"GET", "ADD", "SUB", "SET", "REM"} => Operand(p, i.xC, i.C)
    /\ i.i = "LDC" => i.B + 1 \in DOMAIN p.consts
    /\ i.i = "LDP" => i.B + 1 \in DOMAIN p.children
    /\ i.i = "ITR" => Register(p, i.B)
    /\ i.i = "UNBOX" => i.xC \in {0, 1}
    /\ i.i = "SELV" => i.xB \in 0 .. 3 /\ (i.xB < 2 => Operand(p, i.xB, i.B))

\* Ranges of registers lie in the frame.  The extra arguments are counted right
\* only in functions without other parameters, and there is room for all of them
\* only where no CAT has left T->top below the registers.
RangesSound(p, i) ==
    /\ i.i = "LDN" => i.A + i.B <= p.nstack
    /\ i.i \in {"LDV", "SELV"} => p.nargs = 0
    /\ i.i = "LDV" /\ i.B > 0 => i.A + i.B - 1 <= p.nstack
    /\ i.i = "LDV" /\ i.B = 0 => i.A <= p.nstack /\ ~HasConcat(p)
    /\ i.i = "NEWA" /\ i.C > 0 => i.B + i.C - 1 <= p.nstack
    /\ i.i = "CAT" => i.B + i.C < p.nstack
    /\ i.i \in {"UNBOX", "CALL"} /\ i.C > 0 => i.A + i.C - 1 <= p.nstack
    /\ i.i \in {"CALL", "TCALL"} => i.A < p.nstack /\ i.A + i.B <= p.nstack
    /\ i.i = "ICALL" => i.C > 0 /\ i.A + 2 <= p.nstack /\ i.A + i.C <= p.nstack
    /\ i.i = "RET" /\ i.B > 0 => i.A + i.B - 1 <= p.nstack

\* Every way on is in the code, no jump is left pending, and none comes between
\* values and what takes them.
WaysSound(p, q) ==
    LET i == p.code[q]
    IN /\ i.i \in {"JMP", "JCZ"} => i.B # NO_JUMP /\ Leads(p, q + 1 + i.B)
       /\ i.i \in Compares => q + 1 \in DOMAIN p.code /\ p.code[q + 1].i = "JMP"
       /\ i.i \in Compares \cup {"ICALL"} => Leads(p, q + 2)
       /\ i.i = "UNBOX" /\ i.xC = 1 => i.C > 0 /\ Leads(p, q + 2)
       /\ i.i \notin {"RET", "TCALL", "JMP"} => q + 1 \in DOMAIN p.code
       /\ q + 1 \in DOMAIN p.code => Follows(i, p.code[q + 1])

InstructionSound(p, q) ==
    LET i == p.code[q]
    IN /\ i.i \in Opcodes
       /\ i.A \in Nat /\ i.B \in Int /\ i.C \in Nat
       /\ i.i \notin {"JMP", "JCZ"} => i.B \in Nat
       /\ OperandsSound(p, i) /\ RangesSound(p, i) /\ WaysSound(p, q)

\* A function made in p captures registers of p and captures of p.
CapturesSound(p, child) ==
    \A j \in DOMAIN child.caps \ {1} :
        LET cap == child.caps[j]
        IN IF cap.instack THEN Register(p, cap.index) ELSE cap.index \in 0 .. Len(p.caps) - 1

FunctionSound(p, Prototypes) ==
    /\ p.nstack \in 0 .. MaxStack /\ p.nargs \in 0 .. p.nstack
    /\ Len(p.caps) \in Nat \ {0} /\ DOMAIN p.caps = 1 .. Len(p.caps)
    /\ Len(p.code) \in Nat /\ DOMAIN p.code = 1 .. Len(p.code)
    /\ \A k \in DOMAIN p.consts : p.consts[k][1] \in {"nil", "true", "false", "int", "str"}
    /\ \A k \in DOMAIN p.children : p.children[k] \in Prototypes /\ CapturesSound(p, p.children[k])
    /\ Leads(p, 1)
    /\ \A q \in DOMAIN p.code : InstructionSound(p, q)

SoundFunctions(Prototypes) == \A p \in Prototypes : FunctionSound(p, Prototypes)
==============================================================================
