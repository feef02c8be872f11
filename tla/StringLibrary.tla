----------------------------- MODULE StringLibrary -----------------------------
(***************************************************************************)
(* What the calls of the string library promise (PatternMeaning), of the   *)
(* calls that Matcher runs.                                                *)
(***************************************************************************)
EXTENDS Matcher, Patterns

CONSTANT Infinite   \* INT32_MAX

Sem == INSTANCE PatternMeaning

\* A match ends as the pattern says (PatternMeaning): with the first way to
\* match, in the order of preference, and the groups of that way; the labels
\* and counters of match() try the ways in that order and lose none.
Way == Sem!Ways(call.pattern, Src, at)
Accepted == IF mask THEN SelectSeq(Way, LAMBDA w : w.at = Len(Src)) ELSE Way
UsesGroups == call.op = "match" \/ (call.op = "replace" /\ ~IsFunction)
FirstWay ==
    /\ phase = "miss" => Accepted = <<>>
    /\ phase = "hit" => /\ Accepted # <<>>
                        /\ Got(0) = [from |-> at, to |-> Head(Accepted).at]
                        /\ UsesGroups => \A i \in DOMAIN Head(Accepted).groups : Got(i) = Head(Accepted).groups[i]

\* A call returns what its name says: the first place that matches, the subject
\* with every match replaced from left to right, its pieces between matches, and
\* so on; it fails only for a pattern, an offset or a template that is wrong.
Returns ==
    /\ phase = "done" => result = Sem!Meaning(call)
    /\ phase = "error" => Sem!Illegal(call)

=============================================================================
