------------------------------- MODULE Subjects -------------------------------
(***************************************************************************)
(* The tests of the string library (astrlib.c) on a subject: a character   *)
(* against a class, a set, a sequence, a limit of lines; and the plain     *)
(* search for a text.                                                      *)
(***************************************************************************)
EXTENDS Integers, Sequences, FiniteSetsExt

CONSTANT CType      \* <ctype.h>: the characters of each class

NUL == "NUL"
EOS == "EOS"

ASSUME ClassAssumption == \A k \in DOMAIN CType : EOS \notin CType[k]

(* Tests of characters.  EOS is what is read at the end.                   *)

Lower == [A |-> "a", D |-> "d", S |-> "s", W |-> "w"]
\* An upper case class is the same class: its mark is in every letter.
MatchClass(cl, ch) ==
    LET kind == IF cl \in DOMAIN Lower THEN Lower[cl] ELSE cl
    IN IF kind \in DOMAIN CType THEN ch \in CType[kind] ELSE ch = cl
MatchSet(set, ch) == ch # EOS /\ (ch \in set.chars \/ \E k \in set.classes : MatchClass(k, ch))
MatchItem(item, ch) == IF item[1] = "cls" THEN MatchClass(item[2], ch) ELSE ch = item[2]

\* The character at a position, NUL behind the last one; sgetc stops there.
CharAt(src, s) == IF s < Len(src) THEN src[s + 1] ELSE NUL
Getc(src, s) == IF s >= Len(src) THEN EOS ELSE src[s + 1]
\* Mutant: the end does not stop it.
PastGetc_Always(src, s) == s + 1
PastGetc(src, s) == IF s >= Len(src) THEN s ELSE s + 1

\* match_seq: sgetc stays at the end, and what it returns there passes no test.
MatchSeq(items, src, s) == \A k \in DOMAIN items : MatchItem(items[k], Getc(src, s + k - 1))

MatchLim(lim, src, base, s) ==
    IF lim = "^" THEN s = base \/ src[s] \in {"\n", "\r"}
    ELSE s = Len(src) \/ CharAt(src, s) \in {"\n", "\r"}

------------------------------------------------------------------------------
(* Plain search                                                            *)

\* Mutant: an earlier place where the target may begin is skipped.
FindAux_Skip(src, sh, target) ==
    LET Wrong(i) == {k \in 1 .. Len(target) - 1 : CharAt(src, i + k) # CharAt(target, k)}
        find[i \in Nat] ==
            IF i > Len(src) - Len(target) THEN -1
            ELSE IF CharAt(src, i) # CharAt(target, 0) THEN find[i + 1]
            ELSE IF Wrong(i) = {} THEN i
            ELSE find[i + Min(Wrong(i))]
    IN find[sh]

\* findaux: the search moves on to the next place where the first character of
\* the target may be, found while the rest was compared.
FindAux(src, sh, target) ==
    LET ch == CharAt(target, 0)
        rest == 1 .. Len(target) - 1
        Wrong(i) == {k \in rest : CharAt(src, i + k) # CharAt(target, k)}
        Past(i) == LET again == {k \in rest : CharAt(src, i + k) = ch}
                   IN IF again # {} /\ Min(again) <= Min(Wrong(i)) THEN Min(again) ELSE Min(Wrong(i))
        find[i \in Nat] ==
            IF i > Len(src) - Len(target) THEN -1
            ELSE IF CharAt(src, i) # ch THEN find[i + 1]
            ELSE IF Wrong(i) = {} THEN i
            ELSE find[i + Past(i)]
    IN find[sh]
=============================================================================
