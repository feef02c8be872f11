------------------------------ MODULE MCCompile ------------------------------
(***************************************************************************)
(* Programs for ProgramLife, compiled by Compiler; Meaning says what they  *)
(* should do.                                                              *)
(***************************************************************************)
EXTENDS Compiler, ProgramLife

Sem == INSTANCE Meaning

------------------------------------------------------------------------------
(* Syntax                                                                  *)

None == <<"none">>
V(n) == <<"var", n>>
N(n) == <<"int", n>>
Str(s) == <<"str", s>>
Bin(op, l, r) == <<"bin", op, l, r>>
Not(x) == <<"not", x>>
Tri(c, a, b) == <<"tri", c, a, b>>
Chain(x, suffixes) == <<"chain", x, suffixes>>
CallOf(f, xs) == Chain(f, <<<<"call", xs>>>>)
Dot(x, k) == Chain(x, <<<<"dot", k>>>>)
Ix(x, k) == Chain(x, <<<<"at", k>>>>)
List(xs) == <<"list", xs>>
Tuple(xs) == <<"tuple", xs>>
Arg(n) == <<"arg", n>>
Rest(n) == <<"rest", n>>
Fun(params, stats) == <<"lambda", params, <<"body", stats>>>>
Lambda(params, x) == <<"lambda", params, <<"expr", x>>>>
Say(xs) == <<"call", CallOf(V("echo"), xs)>>
Block(xs) == <<"block", xs>>
Ret(xs) == <<"return", xs>>
Loc(names, xs) == <<"local", names, xs>>
Set(xs, vs) == <<"assign", xs, vs>>
Incr(x) == <<"opassign", x, "AADD", N(1)>>
When(c, s) == <<"if", c, s, None>>
Exit(kind, name) == <<kind, name>>

a == V("a")
b == V("b")
h == V("h")
t == V("t")
Ab == Loc(<<"a", "b">>, <<V("g"), N(1)>>)
Tab == Loc(<<"t">>, <<<<"table", <<<<"p", N(1)>>, <<"q", List(<<N(4), N(5)>>)>>>>>>>>)
Q == Dot(t, "q")

------------------------------------------------------------------------------
(* Families of programs                                                    *)

\* Conditions, as tests and as values.
Atoms == {a, Not(a), Bin("LT", b, N(2)), Bin("EQ", a, N(1)), Bin("GE", b, a)}
Conditions == {Bin(op, x, y) : op \in {"AND", "OR"}, x \in Atoms, y \in Atoms} \ {Bin(op, Bin("GE", b, a), y) : op \in {"AND", "OR"}, y \in Atoms}
Nested == {Bin(op, Not(Bin(pr, a, Bin("LT", b, N(2)))), Bin(qr, Bin("EQ", a, N(1)), Not(a))) :
              op \in {"AND", "OR"}, pr \in {"AND", "OR"}, qr \in {"AND", "OR"}}
Tests == {<<Ab, <<"if", c, Say(<<N(1)>>), Say(<<N(2)>>)>>, Loc(<<"c">>, <<c>>), Ret(<<V("c"), a>>)>> :
             c \in Conditions \cup Nested}

\* Loops with jumps out of them, in the middle of a body without functions.
Exits == {When(a, Block(<<Exit("break", "")>>)), When(Bin("EQ", V("j"), N(2)), Exit("break", "")),
          When(Bin("EQ", V("j"), N(1)), Exit("continue", "")), Say(<<>>)}
Elses == {None, Say(<<N(9)>>)}
Body(e) == <<Loc(<<"j">>, <<b>>), Incr(b), e, Say(<<V("j")>>)>>
Three == List(<<N(1), N(2), N(3)>>)
Loops ==
    {<<Ab, <<"while", "", Bin("LT", b, N(4)), Block(Body(e)), s>>, Ret(<<a, b>>)>> : e \in Exits, s \in Elses}
    \cup {<<Ab, <<"do", "", Block(Body(e)), Bin("LT", b, N(3)), s>>, Ret(<<b>>)>> :
             e \in {x \in Exits : x[1] # "if" \/ x[3][1] # "continue"}, s \in Elses}
    \cup {<<Ab, <<"for", "", <<"j">>, x, Block(<<e, Say(<<V("j")>>)>>), s>>, Ret(<<a>>)>> :
             e \in Exits, s \in Elses, x \in {Three, Tuple(<<N(1), a>>), List(<<>>)}}
    \cup {<<Ab, <<"while", "o", Bin("LT", b, N(3)),
                  Block(<<Incr(b), <<"for", "", <<"i">>, Three, Block(<<When(Bin("EQ", V("i"), N(2)), Exit(kind, "o")),
                                                                    Say(<<V("i")>>)>>), None>>, Say(<<b>>)>>),
                  None>>, Say(<<b>>)>> : kind \in {"break", "continue"}}
    \cup {<<Ab, <<"for", "o", <<"j">>, Three,
                  Block(<<<<"for", "", <<"i">>, List(<<N(8), N(9)>>), Block(<<When(Bin("EQ", V("j"), N(2)), Exit(kind, "o")),
                                                                             Say(<<V("i")>>)>>), None>>, Say(<<V("j")>>)>>),
                  s>>, Say(<<b>>)>> : kind \in {"break", "continue"}, s \in Elses}
    \cup {<<Ab, <<"for", "", <<"k", "v">>, Fun(<<>>, <<Incr(b), When(Bin("LT", b, N(4)), Ret(<<b, N(0)>>))>>),
                  Say(<<V("k"), V("v")>>), None>>, Say(<<b>>)>>,
          <<Ab, <<"for", "", <<"k", "v">>, <<"table", <<<<"p", b>>>>>>, Say(<<V("k"), V("v")>>), None>>>>}

\* Calls: parameters, results, tail calls, rest names, calls by the host.
Functions == {Lambda(<<Arg("x")>>, Bin("ADD", V("x"), b)),
              Fun(<<Arg("x"), Arg("y")>>, <<When(V("x"), Ret(<<V("y"), V("x")>>)), Ret(<<>>)>>),
              Fun(<<Rest("r")>>, <<Ret(<<<<"len", V("r")>>>>)>>),
              Lambda(<<Rest("r")>>, V("r")),
              Fun(<<Arg("x")>>, <<Say(<<V("x"), a>>), Set(<<a>>, <<N(7)>>)>>)}
Arguments == {<<>>, <<N(3)>>, <<N(3), N(4), N(5)>>, <<b, CallOf(V("echo"), <<N(1), N(2)>>)>>}
CallPrograms ==
    {<<Ab, Loc(<<"f">>, <<f>>), Loc(<<"p", "q">>, <<CallOf(V("f"), xs)>>),
       Say(<<CallOf(V("apply"), <<V("f")>> \o xs)>>), Ret(<<V("p"), V("q"), a, CallOf(V("f"), xs)>>)>> :
        f \in Functions, xs \in Arguments}
    \cup {<<Ab, Loc(<<"f">>, <<f>>), Ret(<<CallOf(V("f"), <<N(3), b>>)>>)>> : f \in Functions}

Closures ==
    {<<Loc(<<"n">>, <<N(0)>>), <<"localfun", "inc", <<>>, <<"body", <<Incr(V("n")), Ret(<<V("n")>>)>>>>>>,
       Say(<<CallOf(V("inc"), <<>>)>>), Incr(V("n")), Say(<<V("n"), CallOf(V("inc"), <<>>)>>)>>,
     <<<<"def", "mk", <<Arg("n")>>, <<"body", <<Loc(<<"u">>, <<V("n")>>),
            Ret(<<Fun(<<>>, <<Incr(V("u")), Ret(<<V("u"), V("n")>>)>>), Lambda(<<>>, V("u"))>>)>>>>>>,
       Loc(<<"x", "y">>, <<CallOf(V("mk"), <<N(5)>>)>>), Loc(<<"z">>, <<CallOf(V("mk"), <<N(8)>>)>>),
       Say(<<CallOf(V("x"), <<>>)>>), Say(<<CallOf(V("z"), <<>>)>>), Ret(<<CallOf(V("y"), <<>>)>>)>>,
     <<<<"localfun", "sum", <<Arg("n")>>, <<"body", <<When(Bin("EQ", V("n"), N(0)), Ret(<<N(0)>>)),
            Ret(<<Bin("ADD", V("n"), CallOf(V("sum"), <<Bin("SUB", V("n"), N(1))>>))>>)>>>>>>,
       Ret(<<CallOf(V("sum"), <<N(3)>>)>>)>>,
     <<<<"localfun", "down", <<Arg("n")>>, <<"body", <<When(Bin("EQ", V("n"), N(0)), Ret(<<N(7), N(8)>>)),
            Ret(<<CallOf(V("down"), <<Bin("SUB", V("n"), N(1))>>)>>)>>>>>>,
       Say(<<CallOf(V("down"), <<N(3)>>)>>)>>,
     <<Loc(<<"f">>, <<Lambda(<<Arg("x")>>, Lambda(<<Arg("y")>>, Lambda(<<>>, Bin("ADD", V("x"), V("y")))))>>),
       Ret(<<Chain(V("f"), <<<<"call", <<N(1)>>>>, <<"call", <<N(2)>>>>, <<"call", <<>>>>>>)>>)>>,
     <<Ab, <<"if", a, Block(<<Loc(<<"j">>, <<b>>), Set(<<h>>, <<Lambda(<<>>, V("j"))>>), Incr(V("j"))>>),
                      Block(<<Loc(<<"j">>, <<N(70)>>), Set(<<h>>, <<Lambda(<<>>, V("j"))>>), Incr(V("j"))>>)>>,
       Loc(<<"z">>, <<N(60)>>), Say(<<CallOf(h, <<>>)>>)>>}
    \cup {<<Ab, Tab, <<"while", "", Bin("LT", b, N(4)),
                       Block(<<Loc(<<"j">>, <<b>>), Incr(b), Set(<<Ix(Q, <<"len", Q>>)>>, <<Lambda(<<>>, v)>>),
                               Incr(V("j"))>>), None>>,
            Say(<<CallOf(Ix(Q, N(2)), <<>>), CallOf(Ix(Q, N(3)), <<>>)>>)>> :
             v \in {V("j"), b, Bin("ADD", V("j"), b)}}

\* Values on their way to locals, globals, entries, results and arguments.
Values == {a, Bin("ADD", b, N(1)), CallOf(V("echo"), <<N(8), N(9)>>), Dot(t, "p"), Tuple(<<a, b>>), Lambda(<<>>, b),
           Tri(a, N(1), N(2)), Tri(a, None, N(2)), Tri(Bin("LT", b, N(0)), N(1), Dot(t, "p")),
           Chain(t, <<<<"ask", Str("z"), N(3)>>>>), Chain(t, <<<<"ask", Str("p"), None>>>>),
           <<"len", Q>>, Ix(Q, Bin("SUB", b, N(1))), <<"neg", b>>, <<"rem", Dot(t, "p")>>, Str("w"), List(<<>>)}
Both == Chain(Tuple(<<a, N(3)>>), <<<<"spread">>>>)
Targets_ == {Dot(t, "p"), Ix(Q, N(0)), Ix(Q, b), b, h, Ix(Q, <<"neg", N(1)>>)}
ShowAll == Say(<<t, a, b, h>>)
Moves ==
    {<<Ab, Tab, Set(<<x>>, <<v>>), ShowAll>> : x \in Targets_, v \in Values}
    \cup {<<Ab, Tab, Loc(<<"x", "y">>, <<v>>), ShowAll, Ret(<<V("x"), v>>)>> : v \in Values}
    \cup {<<Ab, Tab, Loc(<<"x", "y">>, <<Both>>), Say(<<V("y"), Both>>), Say(<<Both, V("x")>>)>>}
    \cup {<<Ab, Tab, Say(<<v, Bin("CAT", b, Str("s")), v>>), Set(<<h>>, <<Bin("CAT", Str("s"), Bin("CAT", b, Str("u")))>>), ShowAll>> : v \in Values}
    \cup {<<Ab, Tab, <<"opassign", x, op, N(2)>>, ShowAll>> : op \in {"AADD", "ASUB"}, x \in {Dot(t, "p"), b, a}}
    \cup {<<Ab, Tab, Set(<<a, b>>, <<b, Dot(t, "p")>>), <<"remove", <<"rem", Dot(t, k)>>>>, ShowAll>> : k \in {"p", "z"}}

\* Programs that end in an error, and those the compiler must refuse.
Failing == {<<Ab, Tab, Say(<<N(0)>>), Say(<<x>>), Say(<<N(1)>>)>> :
               x \in {CallOf(Dot(t, "n"), <<>>), Bin("ADD", Str("w"), N(1)), Dot(b, "x"), Ix(Q, N(5)), <<"neg", Q>>,
                      Chain(V("g"), <<<<"opt", "q">>>>)}}
           \cup {<<Ab, Tab, Set(<<x>>, <<N(1)>>)>> : x \in {Ix(Q, N(9)), Ix(b, N(0)), Ix(Tuple(<<b>>), N(0))}}
           \cup {<<Ab, <<"for", "", <<"j">>, b, Say(<<>>), None>>>>, <<Say(<<Bin("LT", Str("u"), N(1))>>)>>,
                 <<Ab, <<"remove", <<"rem", Dot(b, "x")>>>>>>}
BadPrograms == {<<Exit("break", "")>>, <<Ab, Block(<<Exit("continue", "x")>>)>>, <<Ret(<<N(1)>>), Say(<<N(2)>>)>>,
            <<Ab, Set(<<N(1)>>, <<b>>)>>, <<Ab, <<"remove", <<"rem", b>>>>>>, <<Ab, <<"call", b>>>>,
            <<Ab, <<"if", a, Ret(<<>>), Ret(<<b>>)>>, Say(<<a>>)>>,
            <<Loc([i \in 1 .. MaxStack + 1 |-> "x"], <<>>)>>}

\* String constants of no character, and of as many as one byte can count and more,
\* as a short string can have (MaxIStrLen), less and more.
Strings == {<<Say(<<Str(s), Str("wo"), Str("longer"), Str("longest"), <<"true">>>>), Say(<<CallOf(Lambda(<<>>, Str(u)), <<>>)>>)>> :
               s \in {"", "bor"}, u \in {"w", "bor"}}

AllPrograms == Tests \cup Loops \cup CallPrograms \cup Closures \cup Moves \cup Strings \cup Failing \cup BadPrograms
\* Programs that are saved and loaded as well.
StoredPrograms == {p \in Closures : Len(p) = 2} \cup Strings

AllInputs == {[echo |-> Echo, apply |-> Apply, g |-> v] : v \in {Nil, IntV(1)}}

------------------------------------------------------------------------------
(* What becomes of them                                                    *)

\* The compiler names functions and captures, and notes lines and variables.
RECURSIVE Described(_)
Described(p) ==
    [name |-> <<"fun">>, src |-> ChunkName, code |-> p.code, consts |-> p.consts,
     nargs |-> p.nargs, vararg |-> p.vararg, nstack |-> p.nstack,
     caps |-> [i \in DOMAIN p.caps |-> [p.caps[i] EXCEPT !.name = <<@>>]],
     children |-> [i \in DOMAIN p.children |-> Described(p.children[i])],
     lines |-> <<[begin |-> Len(p.code), line |-> 1]>>,
     locvars |-> [i \in 1 .. p.nargs |-> [name |-> <<"arg">>, start |-> 0, end |-> Len(p.code), index |-> i - 1]]]

CompiledPrograms ==
    LET Of(p) == LET c == Compile(p) IN [c EXCEPT !.proto = Described(@)]
    IN [p \in AllPrograms |-> Of(p)]

Meanings ==
    LET Of(p, i) == Sem!RunOf(p, Globals(i))
    IN [p \in AllPrograms \ BadPrograms, i \in AllInputs |-> Of(p, i)]
==============================================================================
