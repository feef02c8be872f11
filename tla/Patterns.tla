------------------------------ MODULE Patterns ------------------------------
(***************************************************************************)
(* Patterns of the string library (astrlib.c) and the code they become.    *)
(*                                                                         *)
(* A pattern is an expression: a sequence of alternatives, each a sequence *)
(* of items                                                                *)
(*     <<"chr", c>>  <<"cls", k>>  <<"str", items>>  <<"lim", l>>          *)
(*     <<"set", negated, characters, classes, ranges>>  <<"grp", expr>>    *)
(*     <<"opt" | "plus" | "star", greedy, item>>                           *)
(*     <<"rep", min, max, greedy, item>>                                   *)
(* The text it is written in, and errors of that text, are left out.       *)
(***************************************************************************)
EXTENDS Integers, Sequences, SequencesExt

CONSTANTS SeqMax    \* the buffer of the compiler (256 bytes)

------------------------------------------------------------------------------
(* Code.  Positions start at 1; jumps are relative, so nothing else moves. *)

Insn(kind, a, b) == [kind |-> kind, a |-> a, b |-> b]
Fresh == [codes |-> <<>>, ncode |-> 0, ngroup |-> 1, ncount |-> 0, error |-> FALSE]
Here(C) == C.ncode + 1
Failed(C) == [C EXCEPT !.error = TRUE]

\* c_node: the next entry, with whatever an erased instruction left there.
Node(C) ==
    [C EXCEPT !.ncode = @ + 1,
              !.codes = IF Here(C) \in DOMAIN @ THEN @ ELSE Append(@, Insn("RET", 0, 0))]
SetCode(C, id, kind, a, b) == [C EXCEPT !.codes[id] = Insn(kind, a, b)]
Put(C, kind, a, b) == SetCode(Node(C), Here(C), kind, a, b)

\* The last instruction stays behind the end as a copy.
Erase(C, id) ==
    [C EXCEPT !.codes = SubSeq(@, 1, id - 1) \o SubSeq(@, id + 1, C.ncode) \o SubSeq(@, C.ncode, Len(@)),
              !.ncode = @ - 1]

\* A character or a class in a loop of its own, and what stands together.
Chr(C, x) == Put(C, IF x[1] = "cls" THEN "CHKF" ELSE "CHKC", x[2], 0)
Str(C, items) ==
    IF Len(items) > SeqMax THEN Failed(C) ELSE IF Len(items) = 1 THEN Chr(C, items[1]) ELSE Put(C, "CHKQ", items, 0)

RECURSIVE Expr(_, _), Atom(_, _)

Group(C, expr) ==
    LET body == Expr(Put([C EXCEPT !.ngroup = @ + 1], "BEG", C.ngroup, 0), expr)
    IN Put(body, "END", C.ngroup, 0)

\* A range in a set is taken for an illegal bound whatever its ends are.
CharSet(C, negated, chars, classes, ranges) ==
    IF ranges # {} THEN Failed(C)
    ELSE Put(C, IF negated THEN "CHKXS" ELSE "CHKS", [chars |-> chars, classes |-> classes], 0)

Opt(C, greedy, x) ==
    LET D == Atom(Node(C), x)
        past == Here(D) - Here(C)
    IN IF greedy THEN SetCode(D, Here(C), "SPT", past, 1) ELSE SetCode(D, Here(C), "SPT", 1, past)

Plus(C, greedy, x) ==
    LET D == Atom(C, x)
        back == Here(C) - Here(D)
    IN IF greedy THEN Put(D, "SPT", 1, back) ELSE Put(D, "SPT", back, 1)

Star(C, greedy, x) ==
    LET id1 == Here(C)
        D == Atom(Node(C), x)
        id2 == Here(D)
    IN IF greedy THEN SetCode(Put(D, "SPT", 1, id1 + 1 - id2), id1, "SPT", id2 + 1 - id1, 1)
       ELSE SetCode(Put(D, "SPT", id1 + 1 - id2, 1), id1, "SPT", 1, id2 + 1 - id1)

\* CNT, the instruction that counts, the body, a jump back.
Counted(C, cnt, kind, n, x) ==
    LET id1 == Here(C) + 1
        D == Atom(Node(Put(C, "CNT", cnt, 0)), x)
        id2 == Here(D)
    IN SetCode(Put(D, "C_JMP", 0, id1 - id2), id1, kind, n, id2 + 1 - id1)

\* The pattern of what may be repeated is compiled twice.
Repeat(C, min, max, greedy, x) ==
    LET D == Counted([C EXCEPT !.ncount = @ + 1], C.ncount, "REP", min, x)
    IN IF min > max THEN Failed(C)
       ELSE IF max = min THEN D
       ELSE Counted(D, C.ncount, IF greedy THEN "REPX" ELSE "REPY", max - min, x)

Atom(C, x) ==
    CASE x[1] \in {"chr", "cls"} -> Chr(C, x)
      [] x[1] = "lim" -> Put(C, "CHKL", x[2], 0)
      [] x[1] = "str" -> Str(C, x[2])
      [] x[1] = "set" -> CharSet(C, x[2], x[3], x[4], x[5])
      [] x[1] = "grp" -> Group(C, x[2])
      [] x[1] = "opt" -> Opt(C, x[2], x[3])
      [] x[1] = "plus" -> Plus(C, x[2], x[3])
      [] x[1] = "star" -> Star(C, x[2], x[3])
      [] x[1] = "rep" -> Repeat(C, x[2], x[3], x[4], x[5])

Mono(C, items) == FoldLeft(Atom, C, items)

\* One more alternative: the one before it, whose head is id1, jumps to the end
\* of this one, where the next jump will be.
Alternative(st, items) ==
    LET id2 == Here(st.C)
        head == SetCode(Node(st.C), st.id1, "SPT", id2 + 1 - st.id1, 1)
        D == Mono(Node(head), items)
    IN [C |-> SetCode(D, id2, "C_JMP", 0, Here(D) - id2), id1 |-> id2 + 1, id2 |-> id2]

\* The last alternative needs no head: it is erased, and the last jump, which
\* leads over it, shortened.
Expr(C, alts) ==
    LET first == [C |-> Mono(Node(C), Head(alts)), id1 |-> Here(C), id2 |-> 0]
        st == FoldLeft(Alternative, first, Tail(alts))
    IN Erase(IF Len(alts) = 1 THEN st.C ELSE [st.C EXCEPT !.codes[st.id2].b = @ - 1], st.id1)

\* Jumps that lead to jumps lead to their end at once.
RECURSIVE JumpsFrom(_, _)
JumpsFrom(codes, i) == IF codes[i].kind = "C_JMP" THEN <<i>> \o JumpsFrom(codes, i + codes[i].b) ELSE <<i>>
FoldJump(codes, i) ==
    LET path == JumpsFrom(codes, i)
        stop == Last(path)
        to == IF codes[stop].kind = "JMP" THEN stop + codes[stop].b ELSE stop
    IN FoldLeft(LAMBDA cs, k : [cs EXCEPT ![k] = Insn("JMP", @.a, to - k)], codes, Front(path))
FoldJumps(C) == [C EXCEPT !.codes = FoldLeft(FoldJump, @, [i \in 1 .. C.ncode |-> i])]

\* What is behind the end goes (c_trim).
Compile(expr) ==
    LET C == Expr(Put(Fresh, "BEG", 0, 0), expr)
        D == Put(Put(FoldJumps(C), "END", 0, 0), "RET", 0, 0)
    IN [codes |-> IF C.error THEN <<>> ELSE SubSeq(D.codes, 1, D.ncode),
        ngroup |-> C.ngroup, ncount |-> C.ncount, error |-> C.error]
=============================================================================
