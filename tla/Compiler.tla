------------------------------ MODULE Compiler ------------------------------
(***************************************************************************)
(* The parser's productions (aparse.c) as a translation of syntax trees:   *)
(* each production calls the code generator in the order the parser does   *)
(* while it reads the tokens.  Trees are tuples that begin with their kind:*)
(*   expressions  nil true false int str var table list tuple lambda arrow *)
(*                not neg len rem bin tri elvis chain (a primary with its  *)
(*                suffixes dot at ask opt call spread)                     *)
(*   statements   local localfun def assign opassign call remove if while  *)
(*                do for break continue return block                       *)
(* To the function state the parser adds: syms (ss from firstsym on), caps,*)
(* blocks, children, nargs, vararg and the enclosing function e.           *)
(***************************************************************************)
EXTENDS CodeGen

NoLabel == [pc |-> -1, nactvar |-> 0]

\* enterfunc, initproto: the two booleans are constants, capture 0 the environment.
Fresh(parent) ==
    [code |-> <<>>, consts |-> <<<<"false">>, <<"true">>>>, cjump |-> NO_JUMP,
     firsttemp |-> 0, firstlocal |-> 0, freelocal |-> 0, nstack |-> 0, nchild |-> 0,
     children |-> <<>>, syms |-> <<>>, blocks |-> <<>>,
     caps |-> <<[name |-> "_ENV", instack |-> FALSE, index |-> 0]>>,
     nargs |-> 0, vararg |-> FALSE, broken |-> FALSE, error |-> FALSE, e |-> parent]

EnterBlock(f, label, name) ==
    LET b == [lname |-> name, loop |-> label # NoLabel, nlocal |-> f.firstlocal,
              nsym |-> Len(f.syms), lcon |-> label, lout |-> NO_JUMP]
    IN [Check(f, f.firstlocal = f.freelocal) EXCEPT !.blocks = Append(@, b), !.firsttemp = f.firstlocal]

\* Fault: the captures of the block are not closed.
LeaveBlock_KeepOpen(f) ==
    LET b == Last(f.blocks)
    IN [f |-> [f EXCEPT !.syms = SubSeq(@, 1, b.nsym), !.blocks = Front(@),
                        !.firstlocal = b.nlocal, !.freelocal = b.nlocal],
        lout |-> b.lout]

\* Leaves the innermost block and returns its list of jumps out.
LeaveBlock(f) ==
    LET b == Last(f.blocks)
        locals == \E i \in b.nsym + 1 .. Len(f.syms) : f.syms[i].type = "LOC"
        j == IF locals THEN JumpForward(f, b.lout) ELSE [f |-> f, list |-> b.lout]
    IN [f |-> [j.f EXCEPT !.syms = SubSeq(@, 1, b.nsym), !.blocks = Front(@),
                          !.firstlocal = b.nlocal, !.freelocal = b.nlocal],
        lout |-> j.list]

EnterFunc(f) == EnterBlock(Fresh(<<[f EXCEPT !.nchild = @ + 1]>>), NoLabel, "")

Proto(f) ==
    [code |-> f.code, consts |-> f.consts, caps |-> f.caps, children |-> f.children,
     nargs |-> f.nargs, vararg |-> f.vararg, nstack |-> f.nstack]

LeaveFunc(f) ==
    LET g == LeaveBlock(f).f
    IN [g.e[1] EXCEPT !.children = Append(@, Proto(g)), !.broken = @ \/ g.broken \/ Len(f.blocks) # 1,
                   !.error = @ \/ g.error]

------------------------------------------------------------------------------
(* Names                                                                   *)

RegSym(f, type, name, reg) ==
    [f EXCEPT !.syms = Append(@, [type |-> type, name |-> name, reg |-> reg])]
RegLoc(f, name) == [RegSym(f, "LOC", name, f.firstlocal) EXCEPT !.firstlocal = @ + 1]

\* getvaraux: a local, the innermost first, a capture, or a new capture of what
\* the enclosing function finds.
RECURSIVE GetVarAux(_, _)
GetVarAux(f, name) ==
    LET locals == {i \in DOMAIN f.syms : f.syms[i].name = name}
        sym == f.syms[CHOOSE i \in locals : \A j \in locals : j <= i]
        caps == {i \in DOMAIN f.caps : f.caps[i].name = name}
        up == GetVarAux(f.e[1], name)
        cap == [name |-> name, instack |-> up.e.t = "LOCAL", index |-> up.e.g]
        g == [f EXCEPT !.e = <<up.f>>]
    IN IF locals # {} THEN
           [f |-> f, found |-> TRUE,
            e |-> IF sym.type = "LOC" THEN Exp("LOCAL", sym.reg) ELSE Exp("VARARG", 0)]
       ELSE IF caps # {} THEN
           [f |-> f, found |-> TRUE, e |-> Exp("CAPTURE", (CHOOSE i \in caps : TRUE) - 1)]
       ELSE IF f.e = <<>> THEN [f |-> f, found |-> FALSE, e |-> Exp("VOID", 0)]
       ELSE IF ~up.found THEN [f |-> g, found |-> FALSE, e |-> up.e]
       ELSE [f |-> [(IF up.e.t = "VARARG" THEN Fail(g) ELSE g) EXCEPT !.caps = Append(@, cap)],
             found |-> TRUE, e |-> [up.e EXCEPT !.t = "CAPTURE", !.g = Len(f.caps)]]

GetEnvSlot(f, name) ==
    LET k == Const(f, <<"str", name>>)
        fk == k.k < FastConsts
    IN [f |-> IF fk THEN k.f ELSE IncrStack(k.f, 1),
        e |-> Exp("INDEXED", [o |-> Registry, fo |-> FALSE,
                              k |-> IF fk THEN k.k ELSE f.freelocal, fk |-> fk])]

GetVar(f, name) ==
    LET v == GetVarAux(f, name)
    IN IF v.found THEN [f |-> v.f, e |-> v.e] ELSE GetEnvSlot(v.f, name)

------------------------------------------------------------------------------
(* Expressions                                                             *)

\* nvar values on top of the stack from a list of narg expressions, e the last.
AdjustAssign(s, nvar, narg) ==
    LET extra == IF IsMulti(s.e) THEN (IF nvar - narg + 1 < 0 THEN 0 ELSE nvar - narg + 1)
                 ELSE nvar - narg
        r == FixedRet(s, extra)
        multi == IF r.e.t = "ALLOC" THEN NextR(r) ELSE r
        one == IF s.e.t = "VOID" THEN s ELSE NextR(s)
        t == IF IsMulti(s.e)
             THEN IF extra > 0 THEN [multi EXCEPT !.f = IncrStack(@, extra - 1)] ELSE multi
             ELSE IF extra > 0
             THEN [one EXCEPT !.f = IncrStack(LoadNil(@, one.f.freelocal, extra), extra)]
             ELSE one
    IN IF narg > nvar THEN [t EXCEPT !.f.freelocal = @ - (narg - nvar)] ELSE t

RetValues(f, first, n) == Emit(f, Ins("RET", 0, 0, 0, first, n + 1, 0))
LoadProto(f) == [f |-> Emit(f, Ins("LDP", 0, 1, 0, 0, f.nchild - 1, 0)), e |-> Exp("ALLOC", PC(f))]
TailCall(s) == Patch(s.f, s.e.g, "i", "TCALL")

RECURSIVE FunArg(_, _)
FunArg(f, params) ==
    IF params = <<>> THEN f
    ELSE IF Head(params)[1] = "rest"
    THEN [RegSym(f, "VAR", Head(params)[2], 0) EXCEPT !.vararg = TRUE]
    ELSE FunArg([RegLoc(f, Head(params)[2]) EXCEPT !.nargs = @ + 1], Tail(params))
Params(f, params) == LET g == FunArg(f, params) IN IncrStack(g, g.nargs)

\* After an error nothing more is compiled.
RECURSIVE Expr(_, _), VarExpr(_, _), SuffixExpr(_, _, _), FunArgs(_, _), Stats(_, _), Stat(_, _)

\* A comma list: all but the last are on the stack.
VarExpr(f, xs) ==
    IF Len(xs) = 1 THEN Expr(f, xs[1])
    ELSE LET init == VarExpr(f, Front(xs)) IN Expr(NextR(init).f, Last(xs))

\* funargs: the number of arguments put above the function, or MULTIRET.
FunArgs(f, xs) ==
    LET s == VarExpr(f, xs)
        m == MultiRet(s)
    IN IF xs = <<>> THEN [f |-> f, n |-> 0]
       ELSE IF ~IsMulti(s.e) THEN [f |-> NextR(s).f, n |-> Len(xs)]
       ELSE [f |-> IF m.e.t # "ALLOC" THEN m.f
                   ELSE [Patch(m.f, m.e.g, "A", m.f.freelocal) EXCEPT !.freelocal = @ + 1],
             n |-> MULTIRET]

\* The body of a function: statements, or one expression that it returns (istat, fistat).
RetExpr(f, xs) ==
    LET s == VarExpr(f, xs)
        m == MultiRet(s)
        r == AnyR(s)
        last == NextR(s)
    IN IF s.e.t = "CALL" /\ Len(xs) = 1 THEN TailCall(s)
       ELSE IF IsMulti(s.e) THEN RetValues(m.f, f.firstlocal, MULTIRET)
       ELSE IF Len(xs) = 1 THEN RetValues(r.f, r.e.g, 1)
       ELSE RetValues(Check(last.f, last.f.freelocal - f.firstlocal = Len(xs)), f.firstlocal, Len(xs))

IStat(f, x) ==
    LET s == Expr(f, x)
        r == AnyR(MultiRet(s))
    IN IF s.e.t = "CALL" THEN TailCall(s)
       ELSE RetValues(r.f, r.e.g, IF IsMulti(s.e) THEN MULTIRET ELSE 1)

RootStats(f, body) ==
    LET r == Stats(f, body) IN IF r.ret THEN r.f ELSE RetValues(r.f, 0, 0)

Function(f, params, body) ==
    LET g == Params(EnterFunc(f), params)
    IN LeaveFunc(CASE body[1] = "body" -> RootStats(g, body[2])
                   [] body[1] = "expr" -> IStat(g, body[2])
                   [] body[1] = "fun" -> RetExpr(g, body[2]))

\* colargs
Collection(f, op, entries) ==
    LET c == NewCol(f, op, 0)
        t == NextR(c)
        Add(g, en) == LET v == Expr(g, en[2])
                      IN SetEntry(v.f, t.e.g, en[1], v.e)
        g == FoldLeft(Add, t.f, entries)
    IN IF entries = <<>> THEN c ELSE [t EXCEPT !.f = Patch(g, c.e.g, "B", Len(entries))]

\* suffixexpr: s with the list lbnil of the jumps of `?.' so far.
SuffixExpr(s, lbnil, xs) ==
    LET x == Head(xs)
        next == NextR(s)
        past == JumpForward(next.f, NO_JUMP)
        join == [next EXCEPT !.f = PutLabel(LoadNil(PutLabel(past.f, lbnil), next.e.g, 1), past.list)]
        key == Exp("STRING", x[2])
        at == Expr(s.f, x[2])
        \* [? k : d]
        got == GoWhenTrue(Member([s EXCEPT !.f = at.f], at.e))
        kept == Reuse(got)
        skip == JumpForward([kept EXCEPT !.e.lf = NO_JUMP].f, NO_JUMP)
        other == PutLabel(skip.f, kept.e.lf)
        ask == LET g == IF x[3] = <<"none">> THEN LoadNil(other, kept.e.g, 1)
                        ELSE Move(Expr(other, x[3]), kept.e.g).f
               IN [kept EXCEPT !.f = PutLabel(g, skip.list), !.e.lf = NO_JUMP]
        opt == Reuse(GoWhenTrue(s))
        args == FunArgs(next.f, x[2])
        call == [f |-> Emit([args.f EXCEPT !.freelocal = next.e.g + 1],
                            Ins("CALL", 0, 0, 0, next.e.g, args.n + 1, 0)),
                 e |-> [next.e EXCEPT !.t = "CALL", !.g = PC(args.f)]]
    IN IF xs = <<>> THEN IF lbnil = NO_JUMP THEN s ELSE join
       ELSE CASE x[1] = "dot" -> SuffixExpr(Member(s, key), lbnil, Tail(xs))
              [] x[1] = "at" -> SuffixExpr(Member([s EXCEPT !.f = at.f], at.e), lbnil, Tail(xs))
              [] x[1] = "ask" -> SuffixExpr(ask, lbnil, Tail(xs))
              [] x[1] = "opt" ->
                   SuffixExpr(Member([opt EXCEPT !.e.lf = NO_JUMP], key), opt.e.lf, Tail(xs))
              [] x[1] = "call" -> SuffixExpr(call, lbnil, Tail(xs))
              [] x[1] = "spread" -> SuffixExpr(Unbox(s, MULTIRET, FALSE), lbnil, Tail(xs))

Ternary(f, c, a, b) ==
    LET g == GoWhenTrue(Expr(f, c))
        keep == Reuse([g EXCEPT !.e.lf = NO_JUMP])
        then == IF a = <<"none">> THEN keep ELSE NextR(Expr(g.f, a))
        j == JumpForward(Drop(then).f, NO_JUMP)
        else == NextR(Expr(PutLabel(j.f, g.e.lf), b))
    IN [else EXCEPT !.f = PutLabel(Check(@, then.e.g = else.e.g), j.list),
                    !.f.error = @ \/ (a = <<"none">> /\ g.e.t = "JMP")]

Expr(f, x) ==
    IF f.error THEN [f |-> f, e |-> Exp("VOID", 0)]
    ELSE
    CASE x[1] = "nil" -> [f |-> f, e |-> Exp("NIL", 0)]
      [] x[1] = "true" -> [f |-> f, e |-> Exp("TRUE", 0)]
      [] x[1] = "false" -> [f |-> f, e |-> Exp("FALSE", 0)]
      [] x[1] = "int" -> [f |-> f, e |-> Exp("INTEGER", x[2])]
      [] x[1] = "str" -> [f |-> f, e |-> Exp("STRING", x[2])]
      [] x[1] = "var" -> GetVar(f, x[2])
      [] x[1] = "table" -> Collection(f, "NEWM", [i \in DOMAIN x[2] |-> <<Exp("STRING", x[2][i][1]), x[2][i][2]>>])
      [] x[1] = "list" -> Collection(f, "NEWL", [i \in DOMAIN x[2] |-> <<Exp("INTEGER", i - 1), x[2][i]>>])
      [] x[1] = "tuple" -> Box(SingleRet(VarExpr(f, x[2])), Len(x[2]))
      [] x[1] = "lambda" -> LoadProto(Function(f, x[2], x[3]))
      [] x[1] = "not" -> Prefix(Expr(f, x[2]), "NOT")
      [] x[1] = "neg" -> Prefix(Expr(f, x[2]), "UNM")
      [] x[1] = "len" -> Prefix(Expr(f, x[2]), "LEN")
      [] x[1] = "rem" -> Prefix(Expr(f, x[2]), "REM")
      [] x[1] = "bin" ->
           LET l == Infix(Expr(f, x[3]), x[2])
               r == Expr(l.f, x[4])
           IN Suffix(r.f, l.e, r.e, x[2])
      [] x[1] = "tri" -> Ternary(f, x[2], x[3], x[4])
      [] x[1] = "chain" -> SuffixExpr(Expr(f, x[2]), NO_JUMP, x[3])

------------------------------------------------------------------------------
(* Statements: the new function state, and whether the statement ends the block *)

Done(f) == [f |-> f, ret |-> FALSE]

Local(f, names, xs) ==
    LET s == IF xs = <<>> THEN [f |-> f, e |-> Exp("VOID", 0)] ELSE VarExpr(f, xs)
    IN FoldLeft(RegLoc, AdjustAssign(s, Len(names), Len(xs)).f, names)

LocalFun(f, name, params, body) ==
    LET reg == f.firstlocal
        g == Function(RegLoc(f, name), params, body)
        m == Move(LoadProto(Check(g, g.freelocal = reg)), reg)
    IN [m.f EXCEPT !.freelocal = @ + 1]

\* defname with one name, then the function goes to the environment.
Def(f, name, params, body) ==
    LET slot == GetEnvSlot(f, name)
        p == LoadProto(Function(slot.f, params, body))
    IN Assign(p.f, slot.e, p.e)

\* assignment: the targets are found first, then filled from the last to the first.
\* check_conflict: an indexed target whose owner or key is assigned later becomes
\* the copy of it.
Targets(f, xs) ==
    LET Clash(a, r) == \/ a.t = "INDEXED" /\ ~a.g.fo /\ a.g.o = r
                       \/ a.t = "INDEXED" /\ ~a.g.fk /\ a.g.k = r
        Add(acc, x) ==
            LET s == Expr(acc.f, x)
                r == IF s.e.t = "CAPTURE" THEN s.e.g + MaxStack ELSE s.e.g
                hit == IF s.e.t = "INDEXED" THEN {} ELSE {i \in DOMAIN acc.es : Clash(acc.es[i], r)}
                copy == IncrStack(Emit(s.f, Ins("MOV", 0, 0, 0, s.f.freelocal, r, 0)), 1)
            IN [f |-> IF hit = {} THEN s.f ELSE copy,
                es |-> Append([i \in DOMAIN acc.es |->
                                  IF i \in hit THEN [acc.es[i] EXCEPT !.t = "LOCAL", !.g = s.f.freelocal]
                                  ELSE acc.es[i]], s.e)]
    IN FoldLeft(Add, [f |-> f, es |-> <<>>], xs)

Assignment(f, xs, vs) ==
    LET t == Targets(f, xs)
        n == Len(xs)
        v == VarExpr(t.f, vs)
        single == SingleRet(v)
        Pop(g, r) == Assign(g, r, Exp("FIXED", g.freelocal - 1))
        fit == FoldLeft(Pop, Assign(single.f, t.es[n], single.e), Reverse(Front(t.es)))
        unfit == FoldLeft(Pop, AdjustAssign(v, n, Len(vs)).f, Reverse(t.es))
    IN [(IF Len(vs) = n THEN fit ELSE unfit) EXCEPT !.freelocal = f.freelocal]

\* Fault: the jump over the else part is left pending.
If_Pending(f, c, then, else) ==
    LET g == GoWhenTrue(Expr(EnterBlock(f, NoLabel, ""), c))
        a == Stat(g.f, then)
        j == JumpForward(a.f, NO_JUMP)
        b == Stat(PutLabel(j.f, g.e.lf), else)
    IN IF else = <<"none">>
       THEN [f |-> LeaveBlock(PutLabel(a.f, g.e.lf)).f, ret |-> FALSE]
       ELSE [f |-> LeaveBlock(b.f).f, ret |-> a.ret /\ b.ret]

If(f, c, then, else) ==
    LET g == GoWhenTrue(Expr(EnterBlock(f, NoLabel, ""), c))
        a == Stat(g.f, then)
        top == Len(a.f.blocks)
        j == JumpForward(a.f, a.f.blocks[top].lout)
        out == IF a.ret THEN a.f ELSE [j.f EXCEPT !.blocks[top].lout = j.list]
        b == Stat(PutLabel(out, g.e.lf), else)
        r == IF else = <<"none">> THEN Done(PutLabel(a.f, g.e.lf))
             ELSE [f |-> b.f, ret |-> a.ret /\ b.ret]
        l == LeaveBlock(r.f)
    IN [f |-> PutLabel(l.f, l.lout), ret |-> r.ret]

Else(f, else) == IF else = <<"none">> THEN f ELSE Stat(f, else).f

While(f, name, c, body, else) ==
    LET label == NewLabel(f)
        g == GoWhenTrue(Expr(f, c))
        l == LeaveBlock(Stat(EnterBlock(g.f, label, name), body).f)
    IN PutLabel(Else(PutLabel(JumpBackward(l.f, label), g.e.lf), else), l.lout)

DoWhile(f, name, body, c, else) ==
    LET label == NewLabel(f)
        l == LeaveBlock(Stat(EnterBlock(f, label, name), body).f)
        g == GoWhenFalse(Expr(l.f, c))
    IN PutLabel(Else(JumpList(g.f, g.e.lt, label.pc), else), l.lout)

For(f, name, names, x, body, else) ==
    LET it == NewItr(Expr(f, x))
        g == [it.f EXCEPT !.firstlocal = @ + 1]
        label == NewLabel(g)
        h == FoldLeft(RegLoc, CheckStack(EnterBlock(g, label, name), Len(names)), names)
        c == Emit(h, Ins("ICALL", 0, 0, 0, it.e.g, 0, Len(names) + 1))
        j == JumpForward([c EXCEPT !.freelocal = @ + Len(names)], NO_JUMP)
        l == LeaveBlock(JumpBackward(Stat(j.f, body).f, label))
        out == [l.f EXCEPT !.firstlocal = @ - 1, !.freelocal = l.f.firstlocal - 1]
    IN PutLabel(Else(PutLabel(out, j.list), else), l.lout)

\* break and continue: the innermost loop, or the block of that name.
JumpStat(f, kind, name) ==
    LET fits == {i \in DOMAIN f.blocks : IF name = "" THEN f.blocks[i].loop ELSE f.blocks[i].lname = name}
        i == CHOOSE j \in fits : \A k \in fits : k <= j
        j == JumpForward(f, f.blocks[i].lout)
    IN IF fits = {} THEN Fail(f)
       ELSE IF kind = "break" THEN [j.f EXCEPT !.blocks[i].lout = j.list]
       ELSE JumpBackward(f, f.blocks[i].lcon)

CallStat(f, x) ==
    LET s == Expr(f, x)
    IN IF s.e.t # "CALL" THEN Fail(s.f)
       ELSE [Check(Results(s, 1).f, s.f.freelocal = s.f.firstlocal + 1) EXCEPT !.freelocal = f.freelocal]

Stat(f0, x) ==
    LET f == Check(f0, f0.freelocal = f0.firstlocal)
    IN IF f0.error THEN Done(f0)
       ELSE
       CASE x[1] = "local" -> Done(Local(f, x[2], x[3]))
         [] x[1] = "localfun" -> Done(LocalFun(f, x[2], x[3], x[4]))
         [] x[1] = "def" -> Done(Def(f, x[2], x[3], x[4]))
         [] x[1] = "assign" -> Done(Assignment(f, x[2], x[3]))
         [] x[1] = "opassign" ->
              LET l == Expr(f, x[2])
                  r == Expr(l.f, x[4])
              IN Done(OpAssign(r.f, l.e, r.e, x[3]))
         [] x[1] = "call" -> Done(CallStat(f, x[2]))
         [] x[1] = "remove" -> Done(Drop(Expr(f, x[2])).f)
         [] x[1] = "if" -> If(f, x[2], x[3], x[4])
         [] x[1] = "while" -> Done(While(f, x[2], x[3], x[4], x[5]))
         [] x[1] = "do" -> Done(DoWhile(f, x[2], x[3], x[4], x[5]))
         [] x[1] = "for" -> Done(For(f, x[2], x[3], x[4], x[5], x[6]))
         [] x[1] \in {"break", "continue"} -> [f |-> JumpStat(f, x[1], x[2]), ret |-> TRUE]
         [] x[1] = "return" ->
              [f |-> IF x[2] = <<>> THEN RetValues(f, 0, 0) ELSE RetExpr(f, x[2]), ret |-> TRUE]
         [] x[1] = "block" ->
              LET s == Stats(EnterBlock(f, NoLabel, ""), x[2])
                  l == LeaveBlock(s.f)
              IN [f |-> PutLabel(l.f, l.lout), ret |-> s.ret]

\* A statement that ends the block is the last one.
Stats(f, xs) ==
    IF xs = <<>> THEN Done(f)
    ELSE LET s == Stat(f, Head(xs))
         IN IF s.ret THEN [s EXCEPT !.f.error = @ \/ Tail(xs) # <<>>] ELSE Stats(s.f, Tail(xs))

\* pparse
Compile(program) ==
    LET f == LeaveBlock(RootStats(EnterBlock(Fresh(<<>>), NoLabel, ""), program)).f
    IN [proto |-> Proto(f), broken |-> f.broken, error |-> f.error]
==============================================================================
