-------------------------------- MODULE MCText --------------------------------
(***************************************************************************)
(* Calls for Matcher: patterns of every kind, alone and in one another.    *)
(***************************************************************************)
EXTENDS StringLibrary

ClassTable == [a |-> {"a", "b"}, d |-> {"1"}, s |-> {" ", "\n"}, w |-> {"a", "b", "1"}]
Many == 1000

C(c) == <<"chr", c>>
K(k) == <<"cls", k>>
L(l) == <<"lim", l>>
Word(text) == <<"str", [i \in DOMAIN text |-> C(text[i])]>>
Grp(n, e) == <<"grp", e, n>>
In(chars) == <<"set", FALSE, chars, {}, {}>>
NotIn(chars) == <<"set", TRUE, chars, {}, {}>>
Some(op, greedy, x) == <<op, greedy, x>>
Rep_(min, max, greedy, x) == <<"rep", min, max, greedy, x>>

a == C("a")
b == C("b")
ab == Word(<<"a", "b">>)
Loops == {"opt", "plus", "star"}

Call(op, patterns, subjects, args) == {[op |-> op, pattern |-> p, src |-> x, arg |-> y] : p \in patterns, x \in subjects, y \in args}
Numbers(S) == {<<n>> : n \in S}
Texts(n) == SeqOf({"a", "b"}, n)

\* One thing, in a loop, counted, beside another, one of two.
Choice == {Grp(1, <<<<a>>, <<ab>>>>), Grp(1, <<<<ab>>, <<a>>>>)}
Things == Choice \cup {a, ab, K("w"), K("d"), In({"a", "b"}), <<"set", FALSE, {"b"}, {"d"}, {}>>, Grp(1, <<<<b, a>>>>)}
Looped == {Some(op, g, x) : op \in Loops, g \in BOOLEAN, x \in Things \ {ab}}
Twice == {Some(op, g, Grp(1, <<<<a>>, <<Some(o, h, a), b>>>>)) : op \in Loops, o \in Loops, g \in BOOLEAN, h \in BOOLEAN}
Exactly == {Rep_(2, 2, TRUE, x) : x \in {a, K("w")} \cup Choice}
AtLeast == {Rep_(n, Many, g, x) : n \in 0 .. 2, g \in BOOLEAN, x \in {a, In({"a", "b"})}}
UpTo == {Rep_(n, m, FALSE, x) : n \in 0 .. 1, m \in 1 .. 3, x \in {a, In({"a", "b"})}}
Counts == Exactly \cup AtLeast \cup UpTo
Lines(xs, ys) == {<<<<x, y>>>> : x \in xs, y \in ys}
Either(xs, ys) == {<<<<x>>, <<y>>>> : x \in xs, y \in ys}
Longest == {<<<<a>>, <<ab>>, <<Word(<<"a", "b", "a">>)>>>>, <<<<Some("plus", TRUE, a), b, b>>, <<Word(<<"a", "a", "b", "b">>)>>>>}
Usual == {<<<<x>>>> : x \in Things \cup Looped} \cup Lines(Looped, {a, ab}) \cup Lines({Word(<<"b">>)}, Looped)
         \cup Either(Things \cup {Rep_(1, Many, TRUE, a), Rep_(0, 2, FALSE, a)}, Things) \cup Longest
Longer == {<<<<x>>>> : x \in Counts \cup Twice} \cup Lines(Counts, {a, ab}) \cup Lines(Twice, {a})
Wrong == {<<<<Rep_(2, 1, TRUE, a)>>>>, <<<<Grp(1, <<<<a>>, <<Word(<<"a", "a", "a", "a", "a">>)>>>>)>>>>}
Tests == Call("test", Usual, Texts(3), {<<>>}) \cup Call("test", Longer, Texts(4), {<<>>}) \cup Call("test", Wrong, {<<"a">>}, {<<>>})

\* The last pattern of test/strings.alo.
Suite == Call("find", Longest, {<<"a", "a", "a", "b", "b", "b">>}, {<<>>})

\* Classes, sets that are not, and the limits of lines.
Spaced == SeqOf({"a", "1", " "}, 3)
Classes == Lines({Some("plus", g, x) : g \in BOOLEAN, x \in {K("w"), K("a")}} \cup {NotIn({" "})}, {K("s"), K("d")})
           \cup {<<<<<<"str", <<K("a"), K("d")>>>>>>>>, <<<<K("s"), NotIn({"a"}), C("1")>>>>}
Limits == {<<<<L("^"), a>>>>, <<<<a, L("$")>>>>, <<<<L("^"), Some("star", TRUE, a), L("$")>>>>, <<<<C("\n"), L("^")>>>>}
Places == Call("find", Classes \cup Lines({Some("star", TRUE, a)}, {K("d")}), Spaced, {<<>>}) \cup Call("find", Limits, SeqOf({"a", "\n"}, 3), {<<>>})
          \cup Call("find", {<<<<a>>>>, <<<<ab>>>>, <<<<b>>, <<Some("opt", TRUE, a)>>>>}, Texts(3), Numbers(-4 .. 4))

\* Groups that always take part, outside of loops.
Grouped == Lines({Grp(1, <<<<Some(op, g, a)>>>>) : op \in Loops, g \in BOOLEAN}, {Grp(2, <<<<Some("star", g, In({"a", "b"}))>>>>) : g \in BOOLEAN})
           \cup Lines(Choice, {Grp(2, <<<<Grp(3, <<<<b>>, <<a>>>>), Some("opt", TRUE, b)>>>>)}) \cup {<<<<x>>>> : x \in Exactly \ {Rep_(2, 2, TRUE, K("w"))}}
Groups == Call("match", Grouped, Texts(3), {<<>>})

\* Patterns that match no empty text; templates with groups that are there and one that is not.
Found == {<<<<a, Some("star", TRUE, b)>>>>, <<<<a, Some("star", TRUE, b), a>>>>, <<<<a, Some("opt", TRUE, b)>>>>, <<<<Some("plus", FALSE, a)>>>>, <<<<ab>>, <<b>>>>}
Marked == {<<<<Grp(1, <<<<Some("plus", TRUE, a)>>>>), Grp(2, <<<<b>>, <<a>>>>)>>>>}
Ref(n) == <<"ref", n>>
Changes == Call("replace", Found, Texts(4), {<<<<"fun">>>>, <<C("1")>>, <<Ref(0), C("1"), Ref(0)>>})
           \cup Call("replace", Marked, Texts(4), {<<Ref(2), Ref(1)>>, <<C("1"), Ref(1), C("1")>>}) \cup Call("replace", Marked, {<<"a", "a">>}, {<<Ref(3)>>})
           \cup Call("split", Found, Texts(4), {<<>>})

\* Calls that take no pattern.
Targets == {<<"a">>, <<"a", "b">>, <<"a", "a", "b">>, <<"a", "b", "a">>, <<"a", "b", "b">>}
PlainCalls == Call("replaceall", Targets, Texts(5) \ {<<>>}, {<<>>, <<"b", "a">>}) \cup Call("splitall", Targets, Texts(5), {<<>>})
              \cup Call("reverse", {<<>>}, Texts(3), {<<>>}) \cup Call("trim", {<<>>}, SeqOf({"a", " "}, 4), {<<>>})
              \cup {c \in Call("byte", {<<>>}, Texts(2), Numbers(-3 .. 3)) : c.arg # <<Len(c.src)>>}
              \cup Call("repeat", {<<>>}, Texts(2) \ {<<>>}, Numbers({0, 1, 2, 3, 4, 5, 8, 9}))

TextCalls == Tests \cup Suite \cup Places \cup Groups \cup Changes \cup PlainCalls
===============================================================================
