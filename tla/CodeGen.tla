------------------------------ MODULE CodeGen ------------------------------
(***************************************************************************)
(* The code generator (acode.c): registers, constants, jump lists and the  *)
(* delayed code of expressions.  A function state f stands for afstat_t:   *)
(*   code       p->code, instructions [i, xA, xB, xC, A, B, C]; Bx and sBx *)
(*              are in field B                                             *)
(*   consts     p->consts                                                  *)
(*   cjump      list of jumps to the next instruction                      *)
(*   firsttemp, firstlocal, freelocal, nstack   register counters          *)
(*   nchild     functions begun inside this one                            *)
(*   broken     an assertion of the code has failed                        *)
(*   error      aloX_error has been called                                 *)
(* and further fields of the parser (Compiler).  An expression state e is  *)
(* aestat_t: kind t, value g, and the lists lt, lf of the jumps taken when *)
(* its value is true or false.  A pair [f, e] is passed from operator to   *)
(* operator as the code passes the two pointers.                           *)
(***************************************************************************)
EXTENDS Instructions

CONSTANT FastConsts      \* aloK_fastconstsize: constants an operand can name

ASSUME FastConstsAssumption == FastConsts \in Nat \ {0}

Exp(t, g) == [t |-> t, g |-> g, lt |-> NO_JUMP, lf |-> NO_JUMP]
HasJump(e) == e.lt # e.lf
Check(f, cond) == [f EXCEPT !.broken = @ \/ ~cond]
Fail(f) == [f EXCEPT !.error = TRUE]
PC(f) == Len(f.code)
At(f, pc) == f.code[pc + 1]

------------------------------------------------------------------------------
(* Jump lists: each pending jump holds the offset of the next one.         *)

NextJump(f, pc) ==
    IF At(f, pc).B = NO_JUMP THEN NO_JUMP ELSE pc + At(f, pc).B + 1

FixJump(f, pc, dest) ==
    LET x == At(f, pc)
        y == [x EXCEPT !.B = dest - pc - 1]
        z == [y EXCEPT !.xA = IF x.A # f.firsttemp /\ f.nchild > 0 THEN 1 ELSE @,
                       !.A = f.firsttemp]
    IN [f EXCEPT !.code[pc + 1] = IF x.i = "JMP" THEN z ELSE y]

\* The last jump can be erased when no comparison skips it.  (GET_A is applied
\* to the opcode, not to the instruction, and so reads 0.)
Reducible(f) ==
    /\ PC(f) > 2
    /\ At(f, PC(f) - 2).i \notin {"EQ", "LT", "LE"}
    /\ f.firstlocal = 0

RECURSIVE JumpList(_, _, _)
JumpList(f, list, dest) ==
    IF list = NO_JUMP THEN f
    ELSE JumpList(FixJump(f, list, dest), NextJump(f, list), dest)

RECURSIVE LastJump(_, _)
LastJump(f, list) ==
    IF NextJump(f, list) = NO_JUMP THEN list ELSE LastJump(f, NextJump(f, list))

\* Appends the jump jmp to a list and returns the list.
Link(f, list, jmp) ==
    IF jmp = NO_JUMP THEN [f |-> f, list |-> list]
    ELSE IF list = NO_JUMP THEN [f |-> f, list |-> jmp]
    ELSE [f |-> FixJump(f, LastJump(f, list), jmp), list |-> list]

Emit(f, ins) ==
    LET list == IF f.cjump = PC(f) - 1 /\ Reducible(f) THEN NextJump(f, f.cjump) ELSE f.cjump
        g == IF f.cjump = NO_JUMP THEN f ELSE JumpList(f, list, PC(f))
    IN [g EXCEPT !.cjump = NO_JUMP, !.code = Append(@, ins)]

\* The jumps of the list go to the next instruction.
PutLabel(f, pc) ==
    LET erase == pc + 1 = PC(f) /\ Reducible(f)
        rest == IF erase THEN NextJump(f, pc) ELSE pc
        g == IF erase THEN [f EXCEPT !.code = Front(@)] ELSE f
        k == Link(g, g.cjump, rest)
    IN IF pc = NO_JUMP THEN f
       ELSE IF rest = NO_JUMP THEN g
       ELSE [k.f EXCEPT !.cjump = k.list]

PutJump(f, prev, i, xA, xC, A) ==
    [f |-> Emit(f, Ins(i, xA, 0, xC, A, IF prev = NO_JUMP THEN NO_JUMP ELSE prev - PC(f) - 1, 0)),
     list |-> PC(f)]

\* A jump forward, added to the list index.  After a return nothing falls through.
JumpForward(f, index) ==
    LET last == At(f, PC(f) - 1).i
        k == Link([f EXCEPT !.cjump = NO_JUMP], f.cjump, index)
    IN IF PC(f) # 0 /\ last \in {"RET", "TCALL"}
       THEN [f |-> [f EXCEPT !.cjump = NO_JUMP], list |-> f.cjump]
       ELSE IF PC(f) # 0 /\ last = "JMP" /\ index = PC(f) - 1
       THEN [f |-> f, list |-> index]
       ELSE PutJump(k.f, k.list, "JMP", 0, 0, f.firstlocal)

NewLabel(f) == [pc |-> PC(f), nactvar |-> f.firstlocal]

JumpBackward(f, label) ==
    LET reuse == PC(f) >= 1 /\ f.cjump = PC(f) - 1
        g == [JumpList(f, f.cjump, label.pc) EXCEPT !.cjump = NO_JUMP]
    IN IF reuse THEN g
       ELSE Emit(g, Ins("JMP", Bit(label.nactvar # f.firstlocal), 0, 0, label.nactvar,
                        label.pc - PC(f) - 1, 0))

------------------------------------------------------------------------------
(* Registers and constants                                                 *)

\* Fault: nstack one too low.
CheckStack_OneLess(f, n) ==
    LET top == f.freelocal + n
    IN IF top <= f.nstack + 1 THEN f
       ELSE IF top > MaxStack THEN Fail(f)
       ELSE [f EXCEPT !.nstack = top - 1]

CheckStack(f, n) ==
    LET top == f.freelocal + n
    IN IF top <= f.nstack THEN f
       ELSE IF top > MaxStack THEN Fail(f)
       ELSE [f EXCEPT !.nstack = top]

IncrStack(f, n) == [CheckStack(Check(f, n >= 0), n) EXCEPT !.freelocal = @ + n]

FreeReg(f, r) ==
    IF r < MaxStack /\ r >= f.firstlocal
    THEN [Check(f, f.freelocal - 1 = r) EXCEPT !.freelocal = @ - 1]
    ELSE f

FreeExp(s) == IF s.e.t = "FIXED" THEN [s EXCEPT !.f = FreeReg(@, s.e.g)] ELSE s

\* The index of a constant, added when it is new.
Const(f, v) ==
    IF \E k \in DOMAIN f.consts : f.consts[k] = v
    THEN [f |-> f, k |-> (CHOOSE k \in DOMAIN f.consts : f.consts[k] = v) - 1]
    ELSE [f |-> [f EXCEPT !.consts = Append(@, v)], k |-> Len(f.consts)]

Pend(s, ins) == [f |-> Emit(s.f, ins), e |-> [s.e EXCEPT !.t = "ALLOC", !.g = PC(s.f)]]
Patch(f, pc, field, v) == [f EXCEPT !.code[pc + 1][field] = v]

LoadNil(f, first, len) ==
    LET prev == At(f, PC(f) - 1)
        joins == /\ PC(f) > 0 /\ f.cjump = NO_JUMP /\ prev.i = "LDN"
                 /\ first <= prev.A + prev.B /\ prev.A <= first + len
        from == IF first < prev.A THEN first ELSE prev.A
        to == IF first + len > prev.A + prev.B THEN first + len ELSE prev.A + prev.B
    IN IF joins THEN Patch(Patch(f, PC(f) - 1, "A", from), PC(f) - 1, "B", to - from)
       ELSE Emit(f, Ins("LDN", 0, 0, 0, first, len, 0))

------------------------------------------------------------------------------
(* Expressions: from a kind with delayed effects to a register             *)

\* hasmultiarg
IsMulti(e) == e.t \in {"VARARG", "UNBOX", "CALL"}

Fixed(s) == [s EXCEPT !.e.t = "FIXED", !.e.g = At(s.f, s.e.g).A]
Results(s, c) == [s EXCEPT !.f = Patch(@, s.e.g, "C", c)]

SingleRet(s) ==
    CASE s.e.t = "VARARG" -> Pend(s, Ins("SELV", 0, 2, 0, 0, 0, 0))
      [] s.e.t = "CALL" -> Fixed(Results(s, 2))
      [] s.e.t = "UNBOX" -> [Results(s, 2) EXCEPT !.e.t = "ALLOC"]
      [] OTHER -> s

FixedRet(s, n) ==
    CASE s.e.t = "VARARG" /\ n = 0 -> [s EXCEPT !.e.t = "VOID"]
      [] s.e.t = "VARARG" /\ n # 0 -> Pend(s, Ins("LDV", 0, 0, 0, 0, 0, n + 1))
      [] s.e.t = "CALL" -> Fixed(Results(s, n + 1))
      [] s.e.t = "UNBOX" -> [Results(s, n + 1) EXCEPT !.e.t = "ALLOC"]
      [] OTHER -> s

MultiRet(s) ==
    CASE s.e.t = "VARARG" -> Pend(s, Ins("LDV", 0, 0, 0, 0, 0, 0))
      [] s.e.t = "CALL" -> Fixed(s)
      [] s.e.t = "UNBOX" -> [s EXCEPT !.e.t = "ALLOC"]
      [] OTHER -> s

\* Fault: the owner is freed before the key.
FreeOperands_OwnerFirst(f, d) ==
    LET g == IF d.fo THEN f ELSE FreeReg(f, d.o) IN IF d.fk THEN g ELSE FreeReg(g, d.k)

FreeOperands(f, d) ==
    LET g == IF d.fk THEN f ELSE FreeReg(f, d.k) IN IF d.fo THEN g ELSE FreeReg(g, d.o)

Eval(s) ==
    LET d == s.e.g
    IN CASE s.e.t = "LOCAL" -> [s EXCEPT !.e.t = "FIXED"]
         [] s.e.t = "CAPTURE" -> [s EXCEPT !.e.t = "FIXED", !.e.g = @ + MaxStack]
         [] s.e.t = "INDEXED" ->
              Pend([s EXCEPT !.f = FreeOperands(@, d)],
                   Ins("GET", 0, Bit(d.fo), Bit(d.fk), 0, d.o, d.k))
         [] s.e.t = "CONCAT" ->
              Pend([s EXCEPT !.f.freelocal = d.s], Ins("CAT", 0, 0, 0, 0, d.s, d.l - 1))
         [] OTHER -> SingleRet(s)

ConstOf(e) ==
    CASE e.t = "TRUE" -> <<"true">>
      [] e.t = "FALSE" -> <<"false">>
      [] e.t = "INTEGER" -> <<"int", e.g>>
      [] e.t = "STRING" -> <<"str", e.g>>
      [] e.t = "NIL" -> <<"nil">>

EvalK(s0) ==
    LET s == Eval(s0)
        k == Const(s.f, ConstOf(s.e))
    IN CASE s.e.t \in {"TRUE", "FALSE", "INTEGER", "STRING"} ->
              IF k.k >= FastConsts
              THEN Pend([s EXCEPT !.f = k.f], Ins("LDC", 0, 1, 0, 0, k.k, 0))
              ELSE [f |-> k.f, e |-> [s.e EXCEPT !.t = "CONST", !.g = k.k]]
         [] s.e.t = "VOID" -> Pend(s, Ins("NEWA", 0, 0, 0, 0, s.e.g + 1, 1))
         [] OTHER -> s

\* fixregaux: the value, its jumps aside, goes to register reg.
FixReg(s0, reg) ==
    LET s == EvalK(s0)
    IN CASE s.e.t = "FIXED" ->
              IF s.e.g = reg THEN s
              ELSE [s EXCEPT !.f = Emit(@, Ins("MOV", 0, 0, 0, reg, s.e.g, 0))]
         [] s.e.t = "ALLOC" -> [s EXCEPT !.f = Patch(@, s.e.g, "A", reg)]
         [] s.e.t = "CONST" -> [s EXCEPT !.f = Emit(@, Ins("MOV", 0, 1, 0, reg, s.e.g, 0))]
         [] s.e.t = "NIL" -> [s EXCEPT !.f = LoadNil(@, reg, 1)]
         [] OTHER -> [s EXCEPT !.f = Check(@, s.e.t = "JMP")]

LoadBool(f, reg, b) == Emit(f, Ins("LDC", 0, 1, 0, reg, b, 0))

\* aloK_move: the value goes to register reg; its pending jumps load true or false.
Move(s, reg) ==
    LET e == s.e
        loaded == CASE e.t = "TRUE" -> JumpForward(LoadBool(PutLabel(s.f, e.lt), reg, 1), NO_JUMP)
                    [] e.t = "FALSE" -> JumpForward(LoadBool(PutLabel(s.f, e.lf), reg, 0), NO_JUMP)
        start == CASE e.t = "JMP" ->
                        LET k == Link(s.f, e.lf, e.g)
                        IN [f |-> k.f, end |-> NO_JUMP, lt |-> e.lt, lf |-> k.list, on |-> TRUE]
                   [] e.t \in {"TRUE", "FALSE"} /\ HasJump(e) ->
                        [f |-> loaded.f, end |-> loaded.list, on |-> TRUE,
                         lt |-> IF e.t = "TRUE" THEN NO_JUMP ELSE e.lt,
                         lf |-> IF e.t = "FALSE" THEN NO_JUMP ELSE e.lf]
                   [] OTHER -> [f |-> FixReg(s, reg).f, end |-> NO_JUMP,
                                lt |-> e.lt, lf |-> e.lf, on |-> HasJump(e)]
        true1 == LoadBool(PutLabel(start.f, start.lt), reg, 1)
        true2 == IF start.lf # NO_JUMP THEN JumpForward(true1, start.end)
                 ELSE [f |-> true1, list |-> start.end]
        mid == IF start.lt # NO_JUMP \/ e.t = "JMP" THEN true2
               ELSE [f |-> start.f, list |-> start.end]
        fin == IF start.lf # NO_JUMP THEN LoadBool(PutLabel(mid.f, start.lf), reg, 0) ELSE mid.f
    IN [f |-> IF start.on THEN PutLabel(fin, mid.list) ELSE start.f, e |-> Exp("FIXED", reg)]

NewR(s) ==
    LET index == s.f.freelocal
        m == Move([s EXCEPT !.f = CheckStack(@, 1)], index)
    IN [m EXCEPT !.f = [Check(@, m.f.freelocal = index) EXCEPT !.freelocal = @ + 1]]

NextR(s) ==
    IF HasJump(s.e) /\ s.e.t \in {"TRUE", "FALSE"} THEN NewR(s) ELSE NewR(FreeExp(EvalK(s)))

\* aloK_anyX and aloK_anyS: any place an operand can name, with or without constants.
AnyPlace(s, kinds) ==
    LET v == EvalK(s)
    IN IF s.e.t = "FIXED" /\ ~HasJump(s.e) THEN s
       ELSE IF s.e.t = "FIXED" /\ s.e.g >= s.f.freelocal THEN FixReg(s, s.e.g)
       ELSE IF s.e.t = "FIXED" THEN NewR(FreeExp(s))
       ELSE IF v.e.t \in kinds THEN v
       ELSE NewR(FreeExp(v))

AnyX(s) == AnyPlace(s, {"CONST", "FIXED"})
AnyS(s) == AnyPlace(s, {})
AnyR(s) == IF s.e.t = "LOCAL" THEN [s EXCEPT !.e.t = "FIXED"] ELSE NextR(s)

Reuse(s) ==
    IF s.e.t = "FIXED" /\ s.f.freelocal = s.e.g THEN [s EXCEPT !.f.freelocal = @ + 1] ELSE NextR(s)

Drop(s) ==
    CASE s.e.t = "ALLOC" -> FreeExp(NewR(s))
      [] s.e.t = "FIXED" -> FreeExp(s)
      [] s.e.t = "INDEXED" -> [s EXCEPT !.f = FreeOperands(@, s.e.g)]
      [] s.e.t \in {"UNBOX", "CALL"} -> Results(s, 1)
      [] OTHER -> s

------------------------------------------------------------------------------
(* Members, boxes and collections                                          *)

\* aloK_member: the owner e and the key k wait in operands until the value is used.
Member(s, k) ==
    IF s.e.t = "VARARG"
    THEN LET x == AnyX([f |-> s.f, e |-> k])
         IN IF k.t = "INTEGER" THEN Pend(s, Ins("SELV", 0, 2, 0, 0, k.g, 0))
            ELSE Pend([s EXCEPT !.f = x.f], Ins("SELV", 0, Bit(x.e.t = "CONST"), 0, 0, x.e.g, 0))
    ELSE LET o == AnyX(s)
             x == AnyX([f |-> o.f, e |-> k])
         IN [f |-> x.f,
             e |-> [o.e EXCEPT !.t = "INDEXED",
                               !.g = [o |-> o.e.g, fo |-> o.e.t = "CONST",
                                      k |-> x.e.g, fk |-> x.e.t = "CONST"]]]

\* The source tests the register number, not the kind, against E_CONST.
ConstKind == 15
Unbox(s, narg, check) ==
    LET v == AnyS(s)
    IN [Pend([v EXCEPT !.f = FreeReg(@, v.e.g)],
             Ins("UNBOX", 0, Bit(v.e.g = ConstKind), Bit(check), 0, v.e.g, narg + 1)) EXCEPT !.e.t = "UNBOX"]

\* A tuple of the narg values on top of the stack, e the last.
Box(s, narg) ==
    LET v == NextR(IF IsMulti(s.e) THEN MultiRet(s) ELSE s)
        first == v.e.g - narg + 1
        n == IF IsMulti(s.e) THEN MULTIRET ELSE narg
    IN [Pend(v, Ins("NEWA", 0, 0, 0, 0, first, n + 1)) EXCEPT !.f.freelocal = first]

NewCol(f, op, narg) ==
    [f |-> Emit(f, Ins(op, 0, 0, 0, 0, narg, 0)), e |-> Exp("ALLOC", PC(f))]

NewItr(s) ==
    LET v == AnyS(s)
        g == CheckStack(FreeReg(v.f, v.e.g), 1)
    IN [f |-> [Emit(g, Ins("ITR", 0, 0, 0, g.freelocal, v.e.g, 0)) EXCEPT !.freelocal = @ + 1],
        e |-> [v.e EXCEPT !.g = g.freelocal]]

SetEntry(f, index, k, v) ==
    LET x == AnyX([f |-> f, e |-> k])
        y == AnyX([f |-> x.f, e |-> v])
        g == Emit(y.f, Ins("SET", 0, Bit(x.e.t = "CONST"), Bit(y.e.t = "CONST"), index, x.e.g, y.e.g))
        h == FreeExp([f |-> g, e |-> y.e])
    IN FreeExp([f |-> h.f, e |-> x.e]).f

------------------------------------------------------------------------------
(* Conditions                                                              *)

FlipCond(f, pc) ==
    LET at == IF At(f, pc).i = "JMP" THEN pc - 1 ELSE pc
    IN Patch(f, at, "xC", 1 - At(f, at).xC)

CondJump(s, cond) ==
    LET v == FreeExp(AnyS(s))
        j == PutJump(v.f, NO_JUMP, "JCZ", 0, cond, v.e.g)
    IN [f |-> j.f, e |-> v.e, list |-> j.list]

Truthy == {"TRUE", "FLOAT", "INTEGER", "STRING"}
Falsy == {"NIL", "FALSE"}

\* aloK_gwt: go on when the value is true; the others jump, in list lf.
GoWhenTrue(s0) ==
    LET s == Eval(s0)
        j == CASE s.e.t = "JMP" -> [f |-> s.f, e |-> s.e, list |-> s.e.g]
               [] s.e.t \in Truthy -> [f |-> s.f, e |-> s.e, list |-> NO_JUMP]
               [] s.e.t \in Falsy ->
                    LET k == JumpForward(s.f, NO_JUMP) IN [f |-> k.f, e |-> s.e, list |-> k.list]
               [] OTHER -> CondJump(s, 0)
        k == Link(j.f, j.e.lf, j.list)
    IN [f |-> PutLabel(k.f, j.e.lt), e |-> [j.e EXCEPT !.lf = k.list, !.lt = NO_JUMP]]

\* aloK_gwf: go on when the value is false; the others jump, in list lt.
GoWhenFalse(s0) ==
    LET s == Eval(s0)
        j == CASE s.e.t = "JMP" -> [f |-> FlipCond(s.f, s.e.g), e |-> s.e, list |-> s.e.g]
               [] s.e.t \in Falsy -> [f |-> s.f, e |-> s.e, list |-> NO_JUMP]
               [] s.e.t \in Truthy ->
                    LET k == JumpForward(s.f, NO_JUMP) IN [f |-> k.f, e |-> s.e, list |-> k.list]
               [] OTHER -> CondJump(s, 1)
        k == Link(j.f, j.e.lt, j.list)
    IN [f |-> PutLabel(k.f, j.e.lf), e |-> [j.e EXCEPT !.lt = k.list, !.lf = NO_JUMP]]

Assign(f, r, v) ==
    LET s == [f |-> f, e |-> v]
        w == AnyS(s)
        d == r.g
    IN CASE r.t = "LOCAL" -> FreeExp(Move(s, r.g)).f
         [] r.t = "CAPTURE" -> FreeExp(Move(s, r.g + MaxStack)).f
         [] r.t = "INDEXED" ->
              FreeExp([w EXCEPT !.f =
                  Emit(@, Ins("SET", Bit(d.fo), Bit(d.fk), Bit(w.e.t = "CONST"), d.o, d.k, w.e.g))]).f
         [] OTHER -> Fail(f)

------------------------------------------------------------------------------
(* Operators                                                               *)

\* toconst, fromconst: literals compare and add while compiling.
IsLiteral(e) == e.t \in {"NIL", "TRUE", "FALSE", "INTEGER", "STRING"}
FoldsCompare(l, r, op) ==
    IsLiteral(l) /\ IsLiteral(r) /\ (op = "EQ" \/ {l.t, r.t} = {"INTEGER"})
FoldCompare(l, r, op) ==
    LET holds == CASE op = "EQ" -> ConstOf(l) = ConstOf(r)
                   [] op = "LT" -> l.g < r.g
                   [] op = "LE" -> l.g <= r.g
    IN [l EXCEPT !.t = IF holds THEN "TRUE" ELSE "FALSE"]

CodeNot(s) ==
    LET v == FreeExp(AnyS(s))
        j == PutJump(v.f, NO_JUMP, "JCZ", 0, 1, v.e.g)
        r == CASE s.e.t \in Truthy -> [s EXCEPT !.e.t = "FALSE"]
               [] s.e.t \in Falsy -> [s EXCEPT !.e.t = "TRUE"]
               [] s.e.t = "JMP" -> [s EXCEPT !.f = FlipCond(@, s.e.g)]
               [] OTHER -> [f |-> j.f, e |-> [v.e EXCEPT !.t = "JMP", !.g = j.list]]
    IN [r EXCEPT !.e.lt = r.e.lf, !.e.lf = r.e.lt]

Prefix(s, op) ==
    LET v == FreeExp(AnyS(s))
    IN CASE op = "NOT" -> CodeNot(s)
         [] op = "UNM" /\ s.e.t = "INTEGER" -> [s EXCEPT !.e.g = -@]
         [] op = "LEN" /\ s.e.t = "VARARG" -> Pend(s, Ins("SELV", 0, 3, 0, 0, 0, 0))
         [] op = "REM" ->
              IF s.e.t # "INDEXED" THEN [s EXCEPT !.f = Fail(@)]
              ELSE Pend(s, Ins("REM", 0, Bit(s.e.g.fo), Bit(s.e.g.fk), 0, s.e.g.o, s.e.g.k))
         [] OTHER -> Pend(v, Ins(op, 0, Bit(v.e.t = "CONST"), 0, 0, v.e.g, 0))

Infix(s, op) ==
    LET v == Eval(s)
    IN CASE op = "AND" -> [GoWhenTrue(s) EXCEPT !.e.t = "TRUE"]
         [] op = "OR" -> [GoWhenFalse(s) EXCEPT !.e.t = "FALSE"]
         [] op = "CAT" -> IF s.e.t = "CONCAT" THEN s ELSE NextR(s)
         [] OTHER -> IF v.e.t = "ALLOC" THEN NewR(v) ELSE v

\* Both operands in places, their registers freed, the last first.
Operands(f, l, r) ==
    LET x == AnyX([f |-> f, e |-> l])
        y == AnyX([f |-> x.f, e |-> r])
        h == FreeExp(y)
    IN [f |-> FreeExp([f |-> h.f, e |-> x.e]).f, l |-> x.e, r |-> y.e]

CompareJump(f, l, r, lf, op, cond) ==
    PutJump(Emit(f, Ins(op, Bit(l.t = "CONST"), Bit(r.t = "CONST"), cond, l.g, r.g, 0)),
            lf, "JMP", 0, 0, f.firstlocal)

Compare(f, l, r, op) ==
    LET fold == CASE op \in {"EQ", "LT", "LE"} -> FoldsCompare(l, r, op)
                  [] op = "NE" -> FoldsCompare(l, r, "EQ")
                  [] OTHER -> FoldsCompare(r, l, IF op = "GT" THEN "LT" ELSE "LE")
        eq == FoldCompare(l, r, "EQ")
        o == Operands(f, l, r)
        j == CASE op \in {"EQ", "LT", "LE"} -> CompareJump(o.f, o.l, o.r, o.l.lf, op, 1)
               [] op = "NE" -> CompareJump(o.f, o.l, o.r, o.l.lf, "EQ", 0)
               [] op = "GT" -> CompareJump(o.f, o.r, o.l, o.r.lf, "LT", 1)
               [] op = "GE" -> CompareJump(o.f, o.r, o.l, o.r.lf, "LE", 1)
    IN IF fold
       THEN [f |-> f,
             e |-> CASE op \in {"EQ", "LT", "LE"} -> FoldCompare(l, r, op)
                     [] op = "NE" -> [l EXCEPT !.t = IF eq.t = "TRUE" THEN "FALSE" ELSE "TRUE"]
                     [] OTHER -> l]     \* the folded value went to the right operand
       ELSE [f |-> j.f, e |-> [o.l EXCEPT !.t = "JMP", !.g = j.list]]

\* aloK_suffix: the operator after its second operand.
Suffix(f, l, r, op) ==
    LET rt == [GoWhenTrue([f |-> f, e |-> r]) EXCEPT !.e.t = "TRUE"]
        kt == Link(rt.f, rt.e.lf, l.lf)
        rf == [GoWhenFalse([f |-> f, e |-> r]) EXCEPT !.e.t = "FALSE"]
        kf == Link(rf.f, rf.e.lt, l.lt)
        cat == NextR([f |-> f, e |-> r])
        o == Operands(f, l, r)
    IN CASE op = "AND" -> [f |-> Check(kt.f, l.lt = NO_JUMP), e |-> [rt.e EXCEPT !.lf = kt.list]]
         [] op = "OR" -> [f |-> Check(kf.f, l.lf = NO_JUMP), e |-> [rf.e EXCEPT !.lt = kf.list]]
         [] op = "CAT" ->
              [f |-> cat.f,
               e |-> IF l.t = "CONCAT" THEN [l EXCEPT !.g.l = @ + 1]
                     ELSE [l EXCEPT !.t = "CONCAT", !.g = [s |-> l.g, l |-> 2]]]
         [] op \in {"ADD", "SUB"} ->
              IF {l.t, r.t} = {"INTEGER"} THEN [f |-> f, e |-> [l EXCEPT !.g = Arith(op, l.g, r.g)]]
              ELSE Pend([f |-> o.f, e |-> o.l],
                        Ins(op, 0, Bit(o.l.t = "CONST"), Bit(o.r.t = "CONST"), 0, o.l.g, o.r.g))
         [] OTHER -> Compare(f, l, r, op)

\* aloK_opassign: l op= r, through a temporary when l is an entry.
OpAssign(f, l, r, op) ==
    LET d == l.g
        x == AnyX([f |-> f, e |-> r])
        Code(at) == FreeExp([x EXCEPT !.f = Emit(@, Ins(op, 0, Bit(x.e.t = "CONST"), 0, at, x.e.g, 0))]).f
        old == NewR(Pend([f |-> f, e |-> Exp("ALLOC", 0)],
                         Ins("GET", 0, Bit(d.fo), Bit(d.fk), 0, d.o, d.k)))
        y == AnyX([f |-> old.f, e |-> r])
        g == Emit(Emit(y.f, Ins(op, 0, Bit(y.e.t = "CONST"), 0, old.e.g, y.e.g, 0)),
                  Ins("SET", Bit(d.fo), Bit(d.fk), 0, d.o, d.k, old.e.g))
    IN CASE l.t = "LOCAL" -> Code(l.g)
         [] l.t = "CAPTURE" -> Code(l.g + MaxStack)
         [] l.t = "INDEXED" -> FreeReg(FreeExp([f |-> g, e |-> y.e]).f, old.e.g)
         [] OTHER -> Fail(f)
==============================================================================
