------------------------------ MODULE Meaning ------------------------------
(***************************************************************************)
(* What a program means, without registers, jumps or instructions: an      *)
(* evaluator of the syntax trees of Compiler.  It is the reference that    *)
(* compiled programs are compared with.  A state st has                    *)
(*   vars   the values of all variables ever declared                      *)
(*   heap   tables, lists and iterators, table 1 the globals               *)
(*   out    the calls of echo                                              *)
(*   sig    how the last statement ended: <<"go">>, <<"break", name>>,     *)
(*          <<"continue", name>>, <<"return", values>> or <<"error">>      *)
(* and env maps the names in scope to their index in vars.  Evaluating     *)
(* expressions gives [st, vs], vs the sequence of their values.            *)
(***************************************************************************)
EXTENDS Integers, Sequences, FiniteSets, SequencesExt

None == <<"none">>
NilV == <<"nil">>
IntOf(n) == <<"int", n>>
BoolOf(b) == IF b THEN <<"true">> ELSE <<"false">>
True(v) == v \notin {NilV, <<"false">>}
Go(st) == st.sig[1] = "go"
Err(st) == [st |-> [st EXCEPT !.sig = <<"error">>], vs |-> <<NilV>>]
One(st, v) == [st |-> st, vs |-> <<v>>]
First(vs) == IF vs = <<>> THEN NilV ELSE vs[1]

Declare(env, st, name, v) ==
    [env |-> (name :> Len(st.vars) + 1) @@ env, st |-> [st EXCEPT !.vars = Append(@, v)]]
DeclareAll(env, st, names, vs) ==
    FoldLeft(LAMBDA d, i : Declare(d.env, d.st, names[i], IF i <= Len(vs) THEN vs[i] ELSE NilV),
             [env |-> env, st |-> st], [i \in DOMAIN names |-> i])

Global(st, name) ==
    IF <<"str", name>> \in DOMAIN st.heap[1].map THEN st.heap[1].map[<<"str", name>>] ELSE NilV

Items(st, v) == IF v[1] = "tup" THEN v[2] ELSE st.heap[v[2]].seq
Pos(k, n) == IF k[2] < 0 THEN k[2] + n ELSE k[2]

Lookup(st, v, k) ==
    LET m == st.heap[v[2]].map
        seq == Items(st, v)
    IN CASE v[1] = "tab" -> One(st, IF k \in DOMAIN m THEN m[k] ELSE NilV)
         [] v[1] \in {"lis", "tup"} ->
              One(st, IF k[1] = "int" /\ Pos(k, Len(seq)) \in 0 .. Len(seq) - 1
                      THEN seq[Pos(k, Len(seq)) + 1] ELSE NilV)
         [] v[1] = "rest" -> IF k[1] = "int" /\ k[2] \in 0 .. Len(v[2]) - 1 THEN One(st, v[2][k[2] + 1])
                             ELSE Err(st)
         [] OTHER -> Err(st)

Store(st, v, k, x) ==
    LET seq == st.heap[v[2]].seq
        i == Pos(k, Len(seq))
    IN CASE v[1] = "tab" -> [st EXCEPT !.heap[v[2]].map = (k :> x) @@ @]
         [] v[1] = "lis" /\ k[1] = "int" /\ i \in 0 .. Len(seq) ->
              [st EXCEPT !.heap[v[2]].seq = IF i = Len(seq) THEN Append(@, x) ELSE [@ EXCEPT ![i + 1] = x]]
         [] OTHER -> Err(st).st

Size(st, v) ==
    CASE v[1] = "tab" -> One(st, IntOf(Cardinality(DOMAIN st.heap[v[2]].map)))
      [] v[1] = "lis" -> One(st, IntOf(Len(st.heap[v[2]].seq)))
      [] v[1] = "rest" -> One(st, IntOf(Len(v[2])))
      [] OTHER -> Err(st)

Ints(a, b) == a[1] = "int" /\ b[1] = "int"
Word(v) == IF v[1] = "int" THEN ToString(v[2]) ELSE v[2]
Binary(st, op, a, b) ==
    CASE op \in {"ADD", "AADD"} /\ Ints(a, b) -> One(st, IntOf(a[2] + b[2]))
      [] op \in {"SUB", "ASUB"} /\ Ints(a, b) -> One(st, IntOf(a[2] - b[2]))
      [] op = "EQ" -> One(st, BoolOf(a = b))
      [] op = "NE" -> One(st, BoolOf(a # b))
      [] op = "LT" /\ Ints(a, b) -> One(st, BoolOf(a[2] < b[2]))
      [] op = "LE" /\ Ints(a, b) -> One(st, BoolOf(a[2] <= b[2]))
      [] op = "GT" /\ Ints(a, b) -> One(st, BoolOf(a[2] > b[2]))
      [] op = "GE" /\ Ints(a, b) -> One(st, BoolOf(a[2] >= b[2]))
      [] op = "CAT" -> One(st, <<"str", Word(a) \o Word(b)>>)
      [] OTHER -> Err(st)

\* A value as the host sees it.
RECURSIVE Seen(_, _)
Seen(st, v) ==
    CASE v[1] = "tup" -> <<"tup", [i \in DOMAIN v[2] |-> Seen(st, v[2][i])]>>
      [] v[1] = "lis" -> <<"lis", [i \in DOMAIN Items(st, v) |-> Seen(st, Items(st, v)[i])]>>
      [] v[1] = "tab" -> <<"tab", [k \in DOMAIN st.heap[v[2]].map |-> Seen(st, st.heap[v[2]].map[k])]>>
      [] v[1] \in {"closure", "native", "iter"} -> <<"function">>
      [] OTHER -> v
SeenAll(st, vs) == [i \in DOMAIN vs |-> Seen(st, vs[i])]

------------------------------------------------------------------------------
RECURSIVE Values(_, _, _), Value(_, _, _), Links(_, _, _, _), Invoke(_, _, _), Run(_, _, _), RunAll(_, _, _),
          Repeat(_, _, _), Each(_, _, _, _), Removed(_, _, _)

\* All the values of an expression: several for a call, a spread or a rest name.
Multi(st, env, x) ==
    IF x[1] = "var" /\ x[2] \in DOMAIN env /\ st.vars[env[x[2]]][1] = "rest"
    THEN [st |-> st, vs |-> st.vars[env[x[2]]][2]]
    ELSE IF x[1] = "chain" THEN LET r == Value(st, env, x[2]) IN Links(r.st, env, r.vs[1], x[3])
    ELSE Value(st, env, x)

\* A comma list: one value each, all those of the last.
Values(st, env, xs) ==
    IF xs = <<>> THEN [st |-> st, vs |-> <<>>]
    ELSE LET init == FoldLeft(LAMBDA a, x : IF ~Go(a.st) THEN a
                                             ELSE LET r == Value(a.st, env, x)
                                                  IN [st |-> r.st, vs |-> a.vs \o r.vs],
                              [st |-> st, vs |-> <<>>], Front(xs))
             last == Multi(init.st, env, Last(xs))
         IN IF ~Go(init.st) THEN init ELSE [st |-> last.st, vs |-> init.vs \o last.vs]

\* The suffixes xs applied to the value v.
Links(st, env, v, xs) ==
    LET x == Head(xs)
        k == Value(st, env, x[2])
        at == Lookup(k.st, v, k.vs[1])
        field == Lookup(st, v, <<"str", x[2]>>)
        args == Values(st, env, x[2])
        call == Invoke(args.st, v, args.vs)
        some == CASE x[1] = "dot" -> field
                  [] x[1] = "at" -> IF Go(k.st) THEN at ELSE k
                  [] x[1] = "ask" -> IF ~Go(k.st) \/ ~Go(at.st) THEN Err(at.st)
                                     ELSE IF True(at.vs[1]) THEN at
                                     ELSE IF x[3] = None THEN One(at.st, NilV) ELSE Value(at.st, env, x[3])
                  [] x[1] = "opt" -> IF True(v) THEN field ELSE One(st, NilV)
                  [] x[1] = "call" -> IF Go(args.st) THEN call ELSE args
                  [] x[1] = "spread" -> IF v[1] = "tup" THEN [st |-> st, vs |-> v[2]] ELSE Err(st)
    IN IF xs = <<>> THEN One(st, v)
       ELSE IF ~Go(some.st) THEN Err(some.st)
       ELSE IF x[1] = "opt" /\ ~True(v) THEN some
       ELSE IF Tail(xs) = <<>> THEN some
       ELSE Links(some.st, env, First(some.vs), Tail(xs))

\* One value.
Value(st, env, x) ==
    LET a == Value(st, env, x[2])
        l == Value(st, env, x[3])
        r == Value(l.st, env, x[4])
        m == Multi(st, env, x)
        fields == Values(st, env, [i \in DOMAIN x[2] |-> x[2][i][2]])
        elems == Values(st, env, x[2])
        new == Len(st.heap) + 1
    IN CASE x[1] \in {"nil", "true", "false", "int", "str"} -> One(st, x)
         [] x[1] = "var" ->
              IF x[2] \notin DOMAIN env THEN One(st, Global(st, x[2]))
              ELSE IF st.vars[env[x[2]]][1] # "rest" THEN One(st, st.vars[env[x[2]]])
              ELSE IF m.vs = <<>> THEN Err(st)
              ELSE One(st, m.vs[1])
         [] x[1] = "rest" -> One(st, st.vars[env[x[2]]])
         [] x[1] = "lambda" -> One(st, <<"closure", x[2], x[3], env>>)
         [] x[1] = "not" -> IF Go(a.st) THEN One(a.st, BoolOf(~True(a.vs[1]))) ELSE a
         [] x[1] = "rem" -> Removed(st, env, x[2])
         [] x[1] = "neg" -> IF Go(a.st) /\ a.vs[1][1] = "int" THEN One(a.st, IntOf(-a.vs[1][2])) ELSE Err(a.st)
         [] x[1] = "len" ->
              IF x[2][1] = "var" /\ x[2][2] \in DOMAIN env /\ st.vars[env[x[2][2]]][1] = "rest"
              THEN Size(st, st.vars[env[x[2][2]]])
              ELSE IF Go(a.st) THEN Size(a.st, a.vs[1]) ELSE a
         [] x[1] = "bin" ->
              IF ~Go(l.st) THEN l
              ELSE IF (x[2] = "AND" /\ ~True(l.vs[1])) \/ (x[2] = "OR" /\ True(l.vs[1]))
              THEN One(l.st, BoolOf(x[2] = "OR"))
              ELSE IF ~Go(r.st) THEN r
              ELSE IF x[2] \in {"AND", "OR"} THEN One(r.st, BoolOf(True(r.vs[1])))
              ELSE Binary(r.st, x[2], l.vs[1], r.vs[1])
         [] x[1] = "tri" ->
              IF ~Go(a.st) THEN a
              ELSE IF ~True(a.vs[1]) THEN Value(a.st, env, x[4])
              ELSE IF x[3] = None THEN a
              ELSE Value(a.st, env, x[3])
         [] x[1] = "table" ->
              IF ~Go(fields.st) THEN Err(fields.st)
              ELSE LET map == FoldLeft(LAMBDA f, i : (<<"str", x[2][i][1]>> :> fields.vs[i]) @@ f,
                                       [k \in {} |-> NilV], [i \in DOMAIN x[2] |-> i])
                   IN One([fields.st EXCEPT !.heap = Append(@, [kind |-> "tab", map |-> map])],
                          <<"tab", Len(fields.st.heap) + 1>>)
         [] x[1] = "list" ->
              IF ~Go(elems.st) THEN Err(elems.st)
              ELSE One([elems.st EXCEPT !.heap = Append(@, [kind |-> "lis", seq |-> elems.vs])],
                       <<"lis", Len(elems.st.heap) + 1>>)
         [] x[1] = "tuple" -> IF Go(elems.st) THEN One(elems.st, <<"tup", elems.vs>>) ELSE Err(elems.st)
         [] x[1] = "chain" -> IF ~Go(m.st) THEN Err(m.st)
                              ELSE IF m.vs = <<>> /\ Last(x[3])[1] = "spread" THEN One(m.st, NilV)
                              ELSE One(m.st, First(m.vs))

\* A call: the rest name of the parameters takes the arguments left over.
Invoke(st, f, vs) ==
    LET params == f[2]
        plain == SelectSeq(params, LAMBDA p : p[1] = "arg")
        rest == SubSeq(vs, Len(plain) + 1, Len(vs))
        d == DeclareAll(f[4], st, [i \in DOMAIN params |-> params[i][2]],
                        [i \in DOMAIN params |->
                            IF params[i][1] = "rest" THEN <<"rest", rest>>
                            ELSE IF i <= Len(vs) THEN vs[i] ELSE NilV])
        body == f[3]
        stats == RunAll(d.st, d.env, body[2])
        values == IF body[1] = "expr" THEN Multi(d.st, d.env, body[2]) ELSE Values(d.st, d.env, body[2])
        it == st.heap[f[2]]
        off == it.off + 1
    IN CASE f = <<"native", "echo">> -> [st |-> [st EXCEPT !.out = Append(@, SeenAll(st, vs))], vs |-> vs]
         [] f = <<"native", "apply">> -> IF vs = <<>> THEN Err(st) ELSE Invoke(st, vs[1], Tail(vs))
         [] f[1] = "closure" ->
              IF body[1] # "body" THEN values
              ELSE IF stats.sig[1] = "error" THEN Err(stats)
              ELSE [st |-> [stats EXCEPT !.sig = <<"go">>],
                    vs |-> IF stats.sig[1] = "return" THEN stats.sig[2] ELSE <<>>]
         [] OTHER -> Err(st)

------------------------------------------------------------------------------
(* Statements; declarations reach to the end of their block.               *)

Assigned(st, env, x, v) ==
    IF x[1] = "var" THEN
        IF x[2] \in DOMAIN env THEN [st EXCEPT !.vars[env[x[2]]] = v]
        ELSE Store(st, <<"tab", 1>>, <<"str", x[2]>>, v)
    ELSE Store(st, x[2], x[3], v)

\* The place an assignment writes: a name, or an owner and a key.
Place(st, env, x) ==
    LET last == Last(x[3])
        owner == IF Len(x[3]) = 1 THEN Value(st, env, x[2])
                 ELSE Value(st, env, <<"chain", x[2], Front(x[3])>>)
        key == IF last[1] = "dot" THEN One(owner.st, <<"str", last[2]>>) ELSE Value(owner.st, env, last[2])
    IN IF x[1] = "var" THEN [st |-> st, at |-> x]
       ELSE [st |-> key.st, at |-> <<"item", owner.vs[1], key.vs[1]>>]

Removed(st, env, x) ==
    LET q == Place(st, env, x)
        old == Lookup(q.st, q.at[2], q.at[3])
    IN IF q.at[1] = "item" /\ q.at[2][1] = "tab"
       THEN [old EXCEPT !.st.heap[q.at[2][2]].map = [k \in DOMAIN @ \ {q.at[3]} |-> @[k]]]
       ELSE Err(q.st)

Assigns(st, env, xs, vs) ==
    LET places == FoldLeft(LAMBDA a, x : LET p == Place(a.st, env, x)
                                         IN IF Go(a.st) THEN [st |-> p.st, at |-> Append(a.at, p.at)] ELSE a,
                           [st |-> st, at |-> <<>>], xs)
        r == Values(places.st, env, vs)
        order == Reverse([i \in DOMAIN xs |-> i])
    IN IF ~Go(places.st) THEN places.st
       ELSE IF ~Go(r.st) THEN r.st
       ELSE FoldLeft(LAMBDA s, i : IF Go(s) THEN Assigned(s, env, places.at[i],
                                                          IF i <= Len(r.vs) THEN r.vs[i] ELSE NilV)
                                   ELSE s, r.st, order)

\* x ends a loop that has the given name, or the innermost one.
Ends(sig, kind, name) == sig[1] = kind /\ sig[2] \in {"", name}
Resume(st) == [st EXCEPT !.sig = <<"go">>]

Repeat(st, env, x) ==
    LET c == Value(st, env, x[3])
        b == Run(c.st, env, x[4])
    IN IF ~Go(c.st) THEN c.st
       ELSE IF ~True(c.vs[1]) THEN IF x[5] = None THEN c.st ELSE Run(c.st, env, x[5])
       ELSE IF Ends(b.sig, "break", x[2]) THEN Resume(b)
       ELSE IF Go(b) \/ Ends(b.sig, "continue", x[2]) THEN Repeat(Resume(b), env, x)
       ELSE b

\* do: the body runs before the first test.
DoFirst(st, env, x) ==
    LET b == Run(st, env, x[3])
    IN IF Ends(b.sig, "break", x[2]) THEN Resume(b)
       ELSE IF ~Go(b) THEN b
       ELSE Repeat(b, env, <<"while", x[2], x[4], x[3], x[5]>>)

\* The values of an iteration still to come; a function is called for each.
Each(st, env, x, todo) ==
    LET called == Invoke(st, todo[2], <<>>)
        vs == IF todo[1] = "seq" THEN Head(todo[2]) ELSE called.vs
        over == IF todo[1] = "seq" THEN todo[2] = <<>> ELSE vs = <<>>
        from == IF todo[1] = "seq" THEN st ELSE called.st
        d == DeclareAll(env, from, x[3], vs)
        b == Run(d.st, d.env, x[5])
        next == IF todo[1] = "seq" THEN <<"seq", Tail(todo[2])>> ELSE todo
    IN IF over THEN IF x[6] = None THEN from ELSE Run(from, env, x[6])
       ELSE IF ~Go(from) THEN from
       ELSE IF Ends(b.sig, "break", x[2]) THEN Resume(b)
       ELSE IF Go(b) \/ Ends(b.sig, "continue", x[2]) THEN Each(Resume(b), env, x, next)
       ELSE b

Iterate(st, env, x) ==
    LET r == Value(st, env, x[4])
        v == r.vs[1]
        keys == SetToSeq(DOMAIN st.heap[v[2]].map)
    IN CASE ~Go(r.st) -> r.st
         [] v[1] = "closure" -> Each(r.st, env, x, <<"fun", v>>)
         [] v[1] \in {"lis", "tup"} ->
              Each(r.st, env, x, <<"seq", [i \in DOMAIN Items(r.st, v) |-> <<Items(r.st, v)[i]>>]>>)
         [] v[1] = "tab" ->
              LET m == r.st.heap[v[2]].map
                  ks == SetToSeq(DOMAIN m)
              IN Each(r.st, env, x, <<"seq", [i \in DOMAIN ks |-> <<ks[i], m[ks[i]]>>]>>)
         [] OTHER -> Err(r.st).st

\* A statement that declares nothing.
Run(st, env, x) ==
    LET c == Value(st, env, x[2])
        r == Values(st, env, x[2])
        p == Place(st, env, x[2])
        y == Value(p.st, env, x[4])
        old == IF p.at[1] = "var" THEN Value(p.st, env, p.at) ELSE Lookup(p.st, p.at[2], p.at[3])
        v == Binary(y.st, x[3], old.vs[1], y.vs[1])
    IN CASE x[1] = "none" -> st
         [] x[1] = "block" -> RunAll(st, env, x[2])
         [] x[1] = "assign" -> Assigns(st, env, x[2], x[3])
         [] x[1] = "opassign" ->
              IF ~Go(p.st) THEN p.st ELSE IF ~Go(y.st) THEN y.st
              ELSE IF Go(v.st) THEN Assigned(v.st, env, p.at, v.vs[1]) ELSE v.st
         [] x[1] = "call" -> LET m == Multi(st, env, x[2]) IN m.st
         [] x[1] = "remove" -> Removed(st, env, x[2][2]).st
         [] x[1] = "if" -> IF ~Go(c.st) THEN c.st ELSE Run(c.st, env, IF True(c.vs[1]) THEN x[3] ELSE x[4])
         [] x[1] = "while" -> Repeat(st, env, x)
         [] x[1] = "do" -> DoFirst(st, env, x)
         [] x[1] = "for" -> Iterate(st, env, x)
         [] x[1] \in {"break", "continue"} -> [st EXCEPT !.sig = x]
         [] x[1] = "return" -> IF Go(r.st) THEN [r.st EXCEPT !.sig = <<"return", r.vs>>] ELSE r.st
         [] x[1] = "def" -> Store(st, <<"tab", 1>>, <<"str", x[2]>>, <<"closure", x[3], x[4], env>>)

RunAll(st, env, xs) ==
    LET x == Head(xs)
        r == Values(st, env, x[3])
        d == CASE x[1] = "local" -> DeclareAll(env, r.st, x[2], r.vs)
               [] x[1] = "localfun" ->
                    LET e == (x[2] :> Len(st.vars) + 1) @@ env
                    IN Declare(env, st, x[2], <<"closure", x[3], x[4], e>>)
               [] OTHER -> [env |-> env, st |-> Run(st, env, x)]
    IN IF xs = <<>> \/ ~Go(st) THEN st ELSE RunAll(d.st, d.env, Tail(xs))

\* What the host sees of a program: compare Outcome of Machine.
RunOf(program, globals) ==
    LET st == RunAll([vars |-> <<>>, heap |-> <<[kind |-> "tab", map |-> globals]>>, out |-> <<>>,
                      sig |-> <<"go">>], [n \in {} |-> 0], program)
    IN [status |-> IF st.sig[1] = "error" THEN "error" ELSE "done", out |-> st.out,
        results |-> IF st.sig[1] = "return" THEN SeenAll(st, st.sig[2]) ELSE <<>>,
        globals |-> Seen(st, <<"tab", 1>>)]
==============================================================================
