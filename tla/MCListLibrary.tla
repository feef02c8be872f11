---------------------------- MODULE MCListLibrary ----------------------------
EXTENDS ListLibrary

Sort(lists, cmp) == {[op |-> "sort", list |-> l, cmp |-> cmp, create |-> FALSE] : l \in lists}
ListsOf(n, S) == UNION {[1 .. k -> S] : k \in 0 .. n}

\* Comparators of every kind on short lists and on some that are partitioned;
\* the natural order on longer ones, up to two runs and the merge of their parts.
Ascending == [i \in 1 .. 11 |-> i]
Runs == {Ascending, Reverse(Ascending), [i \in 1 .. 11 |-> 1], [i \in 1 .. 11 |-> (i + 4) % 11],
         [i \in 1 .. 11 |-> IF i <= 6 THEN 2 * i ELSE 2 * i - 11], [i \in 1 .. 11 |-> (i * 3) % 7]}
Iterations == {[op |-> o, list |-> l, cmp |-> "any", create |-> c] :
                  o \in {"map", "filter", "fold", "foldl"}, l \in ListsOf(3, 1 .. 2), c \in BOOLEAN}
              \cup {[op |-> "foldr", list |-> l, cmp |-> "any", create |-> TRUE] :
                       l \in {x \in ListsOf(3, 1 .. 2) : Len(x) # 1}}
ListCalls == Sort(ListsOf(3, 1 .. 3) \cup {<<4, 2, 3, 1>>, <<2, 1, 3, 5, 4, 6>>, <<2, 2, 1, 2, 2>>}, "any")
             \cup Sort(ListsOf(4, 1 .. 3) \cup [1 .. 7 -> 1 .. 2] \cup Runs, "natural")
             \cup Iterations

\* A list of sixty different elements, in no order.
LongList == Sort({[i \in 1 .. 60 |-> (37 * i) % 61]}, "natural")
=============================================================================
