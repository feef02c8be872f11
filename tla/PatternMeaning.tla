--------------------------- MODULE PatternMeaning ---------------------------
(***************************************************************************)
(* What patterns and the calls of the string library mean, without code or *)
(* labels: the ways a pattern matches from a position, in the order they   *)
(* are preferred.  A way is where it ends and the bounds of the groups.    *)
(***************************************************************************)
EXTENDS Integers, Sequences, SequencesExt

CONSTANTS CType, Infinite, SeqMax

Newlines == {"\n", "\r"}
InClass(k, ch) == IF k \in DOMAIN CType THEN ch \in CType[k] ELSE ch = k
InSet(x, ch) == x[2] # (ch \in x[3] \/ \E k \in x[4] : InClass(k, ch))

\* One character that satisfies a test.
One(src, w, Is(_)) == IF w.at < Len(src) /\ Is(src[w.at + 1]) THEN <<[w EXCEPT !.at = @ + 1]>> ELSE <<>>

\* The limits of lines.
AtLimit(l, src, at) ==
    IF l = "^" THEN at = 0 \/ src[at] \in Newlines ELSE at = Len(src) \/ src[at + 1] \in Newlines

RECURSIVE WaysOf(_, _, _), WaysOfItem(_, _, _)

\* All the ways of one thing after each of the ways of another.
Then(ways, Of(_)) == FlattenSeq([i \in DOMAIN ways |-> Of(ways[i])])
WaysOfMono(items, src, w) == FoldLeft(LAMBDA ways, x : Then(ways, LAMBDA v : WaysOfItem(x, src, v)), <<w>>, items)

\* More turns of a loop before or after none, as it is greedy or not; a turn
\* that matches nothing is not repeated.
RECURSIVE Turns(_, _, _, _, _, _)
Turns(min, max, greedy, x, src, w) ==
    LET first == SelectSeq(WaysOfItem(x, src, w), LAMBDA v : min > 0 \/ v.at > w.at)
        more == IF max = 0 THEN <<>>
                ELSE Then(first, LAMBDA v : Turns(IF min > 0 THEN min - 1 ELSE 0, IF max = Infinite THEN max ELSE max - 1, greedy, x, src, v))
    IN IF min > 0 THEN more ELSE IF greedy THEN more \o <<w>> ELSE <<w>> \o more

\* Groups are numbered as they are opened in the text of the pattern.
WaysOfGroup(n, e, src, w) ==
    LET ways == WaysOf(e, src, w)
    IN [i \in DOMAIN ways |-> [ways[i] EXCEPT !.groups = [g \in DOMAIN @ \cup {n} |-> IF g = n THEN [from |-> w.at, to |-> ways[i].at] ELSE @[g]]]]

WaysOfItem(x, src, w) ==
    CASE x[1] = "chr" -> One(src, w, LAMBDA c : c = x[2])
      [] x[1] = "cls" -> One(src, w, LAMBDA c : InClass(x[2], c))
      [] x[1] = "set" -> One(src, w, LAMBDA c : InSet(x, c))
      [] x[1] = "str" -> WaysOfMono(x[2], src, w)
      [] x[1] = "lim" -> IF AtLimit(x[2], src, w.at) THEN <<w>> ELSE <<>>
      [] x[1] = "grp" -> WaysOfGroup(x[3], x[2], src, w)
      [] x[1] = "opt" -> Turns(0, 1, x[2], x[3], src, w)
      [] x[1] = "plus" -> Turns(1, Infinite, x[2], x[3], src, w)
      [] x[1] = "star" -> Turns(0, Infinite, x[2], x[3], src, w)
      [] x[1] = "rep" -> Turns(x[2], x[3], x[4], x[5], src, w)

WaysOf(e, src, w) == FlattenSeq([i \in DOMAIN e |-> WaysOfMono(e[i], src, w)])
Ways(e, src, at) == WaysOf(e, src, [at |-> at, groups |-> <<>>])

------------------------------------------------------------------------------
(* Calls                                                                   *)

Cut(src, b, e) == SubSeq(src, b + 1, e)
Matches(c) == SelectSeq(Ways(c.pattern, c.src, 0), LAMBDA w : w.at = Len(c.src))
Group0(from, w) == [from |-> from, to |-> w.at]

\* The first place from a position on where the pattern matches, or none.
RECURSIVE FirstFrom(_, _, _)
FirstFrom(e, src, at) ==
    IF at > Len(src) THEN <<>>
    ELSE LET ways == Ways(e, src, at)
         IN IF ways # <<>> THEN <<[from |-> at, way |-> Head(ways)]>> ELSE FirstFrom(e, src, at + 1)

Filled(src, m, arg) ==
    LET Of(n) == IF n = 0 THEN Cut(src, m.from, m.way.at) ELSE Cut(src, m.way.groups[n].from, m.way.groups[n].to)
    IN IF arg = <<<<"fun">>>> THEN <<"<", ToString(m.from)>> \o Of(0) \o <<">">>
       ELSE FlattenSeq([i \in DOMAIN arg |-> IF arg[i][1] = "ref" THEN Of(arg[i][2]) ELSE <<arg[i][2]>>])

RECURSIVE Replaced(_, _), Pieces(_, _)
Replaced(c, at) ==
    LET m == FirstFrom(c.pattern, c.src, at)
    IN IF m = <<>> THEN Cut(c.src, at, Len(c.src))
       ELSE Cut(c.src, at, m[1].from) \o Filled(c.src, m[1], c.arg) \o Replaced(c, m[1].way.at)
Pieces(c, at) ==
    LET m == FirstFrom(c.pattern, c.src, at)
    IN IF m = <<>> THEN <<Cut(c.src, at, Len(c.src))>>
       ELSE <<Cut(c.src, at, m[1].from)>> \o Pieces(c, m[1].way.at)

\* Plain text is the pattern of its characters.
Literal(text) == <<[i \in DOMAIN text |-> <<"chr", text[i]>>]>>
AsPattern(c) == [c EXCEPT !.pattern = Literal(@), !.arg = [i \in DOMAIN @ |-> <<"chr", @[i]>>]]

Inner(src) ==
    LET kept == {i \in DOMAIN src : src[i] \notin CType["s"]}
    IN IF kept = {} THEN <<>> ELSE SubSeq(src, CHOOSE i \in kept : \A j \in kept : i <= j, CHOOSE i \in kept : \A j \in kept : i >= j)
FromEnd(c) == IF c.arg = <<>> THEN 0 ELSE IF c.arg[1] < 0 THEN c.arg[1] + Len(c.src) ELSE c.arg[1]

Meaning(c) ==
    CASE c.op = "test" -> Matches(c) # <<>>
      [] c.op = "match" -> IF Matches(c) = <<>> THEN FALSE
                           ELSE LET w == Head(Matches(c))
                                IN <<c.src>> \o [n \in DOMAIN w.groups |-> Cut(c.src, w.groups[n].from, w.groups[n].to)]
      [] c.op = "find" -> LET m == FirstFrom(c.pattern, c.src, FromEnd(c)) IN IF m = <<>> THEN FALSE ELSE <<m[1].from, m[1].way.at>>
      [] c.op = "replace" -> Replaced(c, 0)
      [] c.op = "split" -> Pieces(c, 0)
      [] c.op = "replaceall" -> Replaced(AsPattern(c), 0)
      [] c.op = "splitall" -> Pieces([c EXCEPT !.pattern = Literal(@)], 0)
      [] c.op = "reverse" -> [i \in DOMAIN c.src |-> c.src[Len(c.src) - i + 1]]
      [] c.op = "trim" -> Inner(c.src)
      [] c.op = "byte" -> c.src[FromEnd(c) + 1]
      [] c.op = "repeat" -> FlattenSeq([i \in 1 .. c.arg[1] |-> c.src])

\* What must be refused: limits out of order, places outside the subject, groups
\* that are not there.
RECURSIVE BadItem(_)
BadExpr(e) == \E i \in DOMAIN e : \E j \in DOMAIN e[i] : BadItem(e[i][j])
BadItem(x) ==
    CASE x[1] = "rep" -> x[2] > x[3] \/ BadItem(x[5])
      [] x[1] \in {"opt", "plus", "star"} -> BadItem(x[3])
      [] x[1] = "grp" -> \E i \in DOMAIN x[2] : \E j \in DOMAIN x[2][i] : BadItem(x[2][i][j])
      [] OTHER -> x[1] = "str" /\ Len(x[2]) > SeqMax
RECURSIVE GroupsIn(_)
GroupsIn(x) ==
    CASE x[1] = "rep" -> GroupsIn(x[5])
      [] x[1] \in {"opt", "plus", "star"} -> GroupsIn(x[3])
      [] x[1] = "grp" -> {x[3]} \cup UNION {UNION {GroupsIn(x[2][i][j]) : j \in DOMAIN x[2][i]} : i \in DOMAIN x[2]}
      [] OTHER -> {}
GroupsOf(e) == UNION {UNION {GroupsIn(e[i][j]) : j \in DOMAIN e[i]} : i \in DOMAIN e}
Illegal(c) ==
    \/ c.op \in {"test", "match", "find", "replace", "split"} /\ BadExpr(c.pattern)
    \/ c.op = "find" /\ FromEnd(c) \notin 0 .. Len(c.src)
    \/ c.op = "byte" /\ FromEnd(c) + 1 \notin DOMAIN c.src
    \/ c.op = "replace" /\ c.arg # <<<<"fun">>>> /\ \E i \in DOMAIN c.arg : c.arg[i][1] = "ref" /\ c.arg[i][2] \notin {0} \cup GroupsOf(c.pattern)
=============================================================================
