---------------------------- MODULE ListLibrary ----------------------------
(***************************************************************************)
(* The list library (alislib.c): sort with the answers of a comparator,    *)
(* map, filter and the folds with the function of a script, which may also *)
(* throw and append to the list.                                           *)
(*                                                                         *)
(* sort keeps elements on the stack of the thread while it asks: slot 0 is *)
(* the list, slot 1 the comparator, and st what lies above, addressed from *)
(* slot 2 as the code does.  work is what is left to do, the calls that    *)
(* have not returned: its head either asks the script or is expanded.      *)
(* List positions are the code's, from 0.                                  *)
(***************************************************************************)
EXTENDS Integers, SequencesExt

CONSTANTS Calls,              \* [op, list, cmp, create], cmp in {"natural", "any"}
          Extra,              \* values a script function may append to the list
          InsertThreshold, QuickThreshold,
          Growth              \* the elements it appends at most

Ops == {"sort", "map", "filter", "fold", "foldl", "foldr"}
ASSUME CallsAssumption == \A c \in Calls : /\ c.op \in Ops /\ c.list \in Seq(Int)
                                           /\ c.cmp \in {"natural", "any"} /\ c.create \in BOOLEAN
ASSUME ExtraAssumption == Extra \subseteq Int
ASSUME ThresholdsAssumption == /\ InsertThreshold \in Nat /\ InsertThreshold >= 5
                               /\ QuickThreshold \in Nat /\ QuickThreshold >= InsertThreshold

StructureThreshold == QuickThreshold \div 5

VARIABLES call,
          given,   \* what the script put into the list
          list,
          out,     \* the result of a call other than sort
          st, work, phase

fixed == <<call, given, phase>>
vars == <<fixed, list, out, st, work>>

size == Len(call.list)      \* alo_rawlen, read before the first call of the script

Task == Head(work)
At(i) == list[i + 1]
Put(l, i, x) == [l EXCEPT ![i + 1] = x]
Drop(s, n) == SubSeq(s, 1, Len(s) - n)
Slot(s, i) == s[i - 1]

\* set2: the top goes to position a, the value below it to position b.
Set2(s, a, b) == Put(Put(list, a, s[Len(s)]), b, s[Len(s) - 1])

------------------------------------------------------------------------------
(* What is left to do                                                      *)

Indices(b, e) == [k \in 1 .. e - b |-> b + k - 1]
Sample(l, n, k) == l + (n * k) \div 4

\* Positions todo go to the stack one after another, each to its place among
\* the n before it; then the stack goes to the positions back, the top first.
Sorting(todo, back) == [do |-> "sorting", todo |-> todo, back |-> back, n |-> -1, lo |-> 2, hi |-> 2]
Isort(s, l) ==
    IF l <= 1 THEN <<>>
    ELSE IF l = 2 THEN <<[do |-> "pair", i |-> s]>>
    ELSE <<Sorting(Indices(s, s + l), Reverse(Indices(s, s + l)))>>
\* Fault: the sample of the middle goes back twice.
FindPivot_TwiceMiddle(l, n) ==
    Sorting([k \in 1 .. 5 |-> Sample(l, n, k - 1)],
            <<l + n, Sample(l, n, 3), l, Sample(l, n, 2), Sample(l, n, 2)>>)

\* The middle of five samples comes to position l: the pivot.
FindPivot(l, n) ==
    Sorting([k \in 1 .. 5 |-> Sample(l, n, k - 1)],
            <<l + n, Sample(l, n, 3), l, Sample(l, n, 2), Sample(l, n, 1)>>)
Qsort(l, h) == [do |-> "qsort", l |-> l, h |-> h]
Msort(l, h) == [do |-> "msort", l |-> l, h |-> h]
Rise(t, a, b) == [do |-> "rise", l |-> t.l, h |-> t.h, a |-> a, b |-> b]
Fall(t, a, b) == [Rise(t, a, b) EXCEPT !.do = "fall"]
Merge(do, l, m, h) == [do |-> do, l |-> l, m |-> m, h |-> h]
Shift(t, i) == [do |-> "shift", l |-> t.l, m |-> t.m, h |-> t.h, i |-> i]
Scan(i, count) == [do |-> "scan", i |-> i, count |-> count]
Run(up, j, i, count) == [do |-> "run", up |-> up, j |-> j, i |-> i, count |-> count]

Each(do, i, j) == [do |-> do, i |-> i, j |-> j]

\* The function of the script: what it makes of one value and of two.
Image(x) == x + 10
Kept(x) == x % 2 = 1
Joined(x, y) == <<"f", x, y>>
Value(x) == <<"v", x>>
HeadValue == <<"h">>
Unit == <<>>

Init == /\ call \in Calls
        /\ list = call.list /\ given = list
        /\ st = <<>> /\ phase = "run"
        /\ out = CASE call.op \in {"foldl", "foldr"} -> HeadValue
                   [] call.op = "fold" /\ size > 0 -> Value(At(0))
                   [] OTHER -> Unit
        /\ work = CASE call.op = "sort" -> IF size <= QuickThreshold THEN <<Qsort(0, size - 1)>> ELSE <<Scan(0, 0)>>
                    [] call.op = "fold" -> <<Each("fold", 1, 0)>>
                    [] call.op = "foldr" -> <<Each("foldr", size - 1, 0)>>
                    [] OTHER -> <<Each(call.op, 0, 0)>>

------------------------------------------------------------------------------
(* A call of the script: what sort pushes, and the slots it compares       *)

Asks == phase = "run" /\ work # <<>> /\
    \/ Task.do \in {"pair", "rise", "fall"}
    \/ Task.do = "sorting" /\ Task.lo < Task.hi
    \/ Task.do = "scan" /\ Task.i < size - 1
    \/ Task.do = "run" /\ Task.i # size - 1
    \/ Task.do \in {"lead", "take"} /\ Task.l < Task.m
    \/ Task.do = "shift" /\ Task.i < Task.h
    \/ Task.do \in {"map", "filter", "fold", "foldl"} /\ Task.i < size
    \/ Task.do = "foldr" /\ Task.i >= 0

Middle == (Task.lo + Task.hi) \div 2

Operands == CASE Task.do \in {"pair", "scan", "run"} -> <<At(Task.i), At(Task.i + 1)>>
            [] Task.do = "rise" -> <<At(Task.a)>>
            [] Task.do = "fall" -> <<At(Task.b)>>
            [] Task.do = "lead" -> <<At(Task.l)>>
            [] Task.do = "take" -> <<At(Task.l), At(Task.m)>>
            [] Task.do = "shift" -> <<At(Task.i + 1)>>
            [] OTHER -> <<>>
Slots == CASE Task.do \in {"rise", "lead"} -> <<3, 2>>
           [] Task.do = "fall" -> <<2, 4>>
           [] Task.do = "sorting" -> <<Middle, 2 + Task.n>>
           [] OTHER -> <<2, 3>>
Full == st \o Operands
Answers == IF call.cmp = "natural" THEN {Slot(Full, Slots[1]) < Slot(Full, Slots[2])} ELSE BOOLEAN

Asked(do, lt) == Asks /\ Task.do = do /\ lt \in Answers
Proceed(tasks) == work' = tasks \o Tail(work) /\ UNCHANGED fixed
Continue(tasks) == Proceed(tasks) /\ UNCHANGED out
Step(tasks) == Continue(tasks) /\ UNCHANGED <<list, st>>

\* The function throws: the frame of the library is gone.
Throw == /\ Asks /\ call.cmp = "any"
         /\ phase' = "error" /\ st' = <<>> /\ work' = <<>>
         /\ UNCHANGED <<call, given, list, out>>

\* It appends to the list before it answers.
AppendByScript(x) == /\ Asks /\ call.cmp = "any" /\ Len(list) < size + Growth
                     /\ list' = Append(list, x) /\ given' = Append(given, x)
                     /\ UNCHANGED <<call, out, st, work, phase>>

Return == /\ phase = "run" /\ work = <<>>
          /\ phase' = "done"
          /\ UNCHANGED <<call, given, list, out, st, work>>

Expands(do) == phase = "run" /\ work # <<>> /\ Task.do = do /\ ~Asks

------------------------------------------------------------------------------
(* Insertion on the stack                                                  *)

Pair(lt) == /\ Asked("pair", lt)
            /\ list' = IF lt THEN list ELSE Set2(Full, Task.i, Task.i + 1)
            /\ Continue(<<>>) /\ UNCHANGED st

\* Fault: the upper end goes below the middle.
Search_Below(lt) == /\ Asked("sorting", lt)
                    /\ Step(<<IF lt THEN [Task EXCEPT !.lo = Middle + 1] ELSE [Task EXCEPT !.hi = Middle - 1]>>)
\* Fault: the lower end stays at the middle.
Search_Same(lt) == /\ Asked("sorting", lt)
                   /\ Step(<<IF lt THEN [Task EXCEPT !.lo = Middle] ELSE [Task EXCEPT !.hi = Middle]>>)

\* insert: the place of the top among the sorted slots below it, by halves.
Search(lt) == /\ Asked("sorting", lt)
              /\ Step(<<IF lt THEN [Task EXCEPT !.lo = Middle + 1] ELSE [Task EXCEPT !.hi = Middle]>>)

\* alo_insert moves the top to slot lo; the first element is where it belongs.
Placed == IF Task.n <= 0 THEN st ELSE InsertAt(Drop(st, 1), Task.lo - 1, Last(st))
NextSample == /\ Expands("sorting") /\ Task.todo # <<>>
              /\ st' = Append(Placed, At(Head(Task.todo)))
              /\ Continue(<<[Task EXCEPT !.todo = Tail(@), !.n = @ + 1, !.lo = 2, !.hi = 3 + Task.n]>>)
              /\ UNCHANGED list
\* The top of s goes to position back[1] of l, the one below it to back[2], and so on.
WrittenBack(l, s, back) ==
    [i \in DOMAIN l |-> LET ks == {k \in DOMAIN back : back[k] = i - 1}
                       IN IF ks = {} THEN l[i] ELSE s[Len(s) - Max(ks) + 1]]
PutBack == /\ Expands("sorting") /\ Task.todo = <<>>
           /\ list' = WrittenBack(list, Placed, Task.back)
           /\ st' = Drop(Placed, Len(Task.back))
           /\ Continue(<<>>)

------------------------------------------------------------------------------
(* Quick sort                                                              *)

ExpandQsort == /\ Expands("qsort")
               /\ LET n == Task.h - Task.l + 1
                  IN Step(IF n < InsertThreshold THEN Isort(Task.l, n)
                          ELSE <<FindPivot(Task.l, n - 1), [Task EXCEPT !.do = "split"]>>)

\* partition: the pivot is at l; a goes up and b down.
Split == /\ Expands("split")
         /\ st' = Append(st, At(Task.l))
         /\ Continue(<<Rise(Task, Task.l + 1, Task.h + 1)>>) /\ UNCHANGED list

\* The pivot changes places with the element at a; the shorter part first.
Parted(s) == LET a == Task.a
                 below == Qsort(Task.l, a - 1)
                 above == Qsort(a + 1, Task.h)
             IN /\ list' = Set2(s, Task.l, a)
                /\ st' = Drop(s, 2)
                /\ Continue(IF a - Task.l > Task.h - a THEN <<above, below>> ELSE <<below, above>>)

RisePast(lt) == /\ Asked("rise", lt)
                /\ IF Task.a + 1 = Task.b THEN Parted(Full)
                   ELSE IF lt THEN Step(<<Rise(Task, Task.a + 1, Task.b)>>)
                   ELSE st' = Full /\ Continue(<<Fall(Task, Task.a, Task.b - 1)>>) /\ UNCHANGED list
FallPast(lt) == /\ Asked("fall", lt)
                /\ IF Task.a + 1 = Task.b THEN Parted(st)
                   ELSE IF lt THEN Step(<<Fall(Task, Task.a, Task.b - 1)>>)
                   ELSE /\ list' = Set2(Full, Task.a, Task.b)
                        /\ st' = Drop(Full, 2)
                        /\ Continue(<<Rise(Task, Task.a + 1, Task.b)>>)

------------------------------------------------------------------------------
(* Runs, and merge sort                                                    *)

ReverseRange(l, j, i) == [k \in DOMAIN l |-> IF k - 1 \in j .. i THEN l[i + j - k + 2] ELSE l[k]]

\* The first pair says whether the run goes up.
StartRun(up) == /\ Asked("scan", up)
                /\ Step(<<Run(up, Task.i, Task.i + 1, Task.count)>>)
RunOn(lt) == /\ Asked("run", lt) /\ lt = Task.up
             /\ Step(<<[Task EXCEPT !.i = @ + 1]>>)
EndRun == /\ list' = IF Task.up THEN list ELSE ReverseRange(list, Task.j, Task.i)
          /\ Continue(<<Scan(Task.i + 1, Task.count + 1)>>) /\ UNCHANGED st
RunBroken(lt) == Asked("run", lt) /\ lt # Task.up /\ EndRun
RunAtEnd == Expands("run") /\ EndRun
Scanned == /\ Expands("scan")
           /\ Step(<<IF Task.count <= StructureThreshold THEN Msort(0, size - 1) ELSE Qsort(0, size - 1)>>)

ExpandMsort == /\ Expands("msort")
               /\ LET l == Task.l
                      h == Task.h
                      m == (l + h) \div 2
                  IN Step(IF h - l < InsertThreshold THEN Isort(l, h - l + 1)
                          ELSE <<Msort(l, m), Msort(m + 1, h), Merge("basis", l, m + 1, h)>>)

\* mergeaux: the left elements below the basis stay; when all are, the basis
\* stays on the stack.
Basis == /\ Expands("basis")
         /\ st' = Append(st, At(Task.m))
         /\ Continue(<<[Task EXCEPT !.do = "lead"]>>) /\ UNCHANGED list
Lead(lt) == /\ Asked("lead", lt)
            /\ IF lt THEN Step(<<[Task EXCEPT !.l = @ + 1]>>)
               ELSE st' = Drop(st, 1) /\ Continue(<<[Task EXCEPT !.do = "take"]>>) /\ UNCHANGED list
Take(lt) == /\ Asked("take", lt)
            /\ IF lt THEN Step(<<[Task EXCEPT !.l = @ + 1]>>)
               ELSE /\ list' = Put(list, Task.l, Last(Full))
                    /\ st' = Drop(Full, 1)
                    /\ Continue(<<Shift(Task, Task.m)>>)

\* The element taken out goes where the right part no longer moves.
Settle == /\ list' = Put(list, Task.i, Last(st))
          /\ st' = Drop(st, 1)
          /\ Continue(<<Merge("take", Task.l + 1, Task.m, Task.h)>>)
ShiftOn(lt) == /\ Asked("shift", lt)
               /\ IF lt THEN Settle
                  ELSE /\ list' = Put(list, Task.i, Last(Full))
                       /\ Continue(<<[Task EXCEPT !.i = @ + 1]>>) /\ UNCHANGED st
ShiftedAll == Expands("shift") /\ Settle
Merged(do) == Expands(do) /\ Step(<<>>)

------------------------------------------------------------------------------
(* map, filter and the folds                                               *)

Iterating(do) == Asks /\ Task.do = do
Results(l, o) == list' = l /\ out' = o /\ UNCHANGED st

\* The result goes to a new list, or over the element it is made from.
Map == /\ Iterating("map")
       /\ LET y == Image(At(Task.i))
          IN IF call.create THEN Results(list, Append(out, y)) ELSE Results(Put(list, Task.i, y), out)
       /\ Proceed(<<[Task EXCEPT !.i = @ + 1]>>)

\* Fault: what is kept goes back to where it was.
Filter_InPlace == /\ Iterating("filter")
                  /\ LET x == At(Task.i)
                     IN IF ~Kept(x) THEN Results(list, out) /\ Proceed(<<[Task EXCEPT !.i = @ + 1]>>)
                        ELSE /\ IF call.create THEN Results(list, Append(out, x)) ELSE Results(Put(list, Task.i, x), out)
                             /\ Proceed(<<[Task EXCEPT !.i = @ + 1, !.j = @ + 1]>>)

\* An element kept goes to position j of the new list or of the list itself.
Filter == /\ Iterating("filter")
          /\ LET x == At(Task.i)
             IN IF ~Kept(x) THEN Results(list, out) /\ Proceed(<<[Task EXCEPT !.i = @ + 1]>>)
                ELSE /\ IF call.create THEN Results(list, Append(out, x)) ELSE Results(Put(list, Task.j, x), out)
                     /\ Proceed(<<[Task EXCEPT !.i = @ + 1, !.j = @ + 1]>>)
\* alo_triml cuts the list where the elements kept end.
Trim == /\ Expands("filter")
        /\ Results(IF call.create THEN list ELSE SubSeq(list, 1, Task.j), out)
        /\ Proceed(<<>>)

Accumulate(do) == /\ Iterating(do)
                  /\ Results(list, Joined(out, Value(At(Task.i))))
                  /\ Proceed(<<[Task EXCEPT !.i = @ + 1]>>)
\* A list of one element has its arguments the other way round.
AccumulateBack == /\ Iterating("foldr")
                  /\ LET x == Value(At(Task.i))
                     IN Results(list, IF size = 1 THEN Joined(out, x) ELSE Joined(x, out))
                  /\ Proceed(<<[Task EXCEPT !.i = @ - 1]>>)
Iterated(do) == Expands(do) /\ Step(<<>>)

------------------------------------------------------------------------------
Next == \/ \E lt \in BOOLEAN : \/ Pair(lt) \/ Search(lt) \/ RisePast(lt) \/ FallPast(lt)
                               \/ StartRun(lt) \/ RunOn(lt) \/ RunBroken(lt)
                               \/ Lead(lt) \/ Take(lt) \/ ShiftOn(lt)
        \/ NextSample \/ PutBack \/ ExpandQsort \/ Split \/ RunAtEnd \/ Scanned
        \/ ExpandMsort \/ Basis \/ ShiftedAll \/ Merged("lead") \/ Merged("take") \/ Return
        \/ Map \/ Filter \/ Trim \/ Accumulate("fold") \/ Accumulate("foldl") \/ AccumulateBack
        \/ \E do \in {"map", "fold", "foldl", "foldr"} : Iterated(do)
        \/ Throw \/ \E x \in Extra : AppendByScript(x)

\* The library is sequential code, and the function it calls returns or throws.
Spec == Init /\ [][Next]_vars /\ WF_vars(Next)

------------------------------------------------------------------------------
Short == call.op = "sort" /\ size <= QuickThreshold
Occurrences(s, x) == Cardinality({i \in DOMAIN s : s[i] = x})

\* An element is never lost, invented or doubled, whatever the comparator
\* answers, when it throws and when it appends to the list it sorts: the list
\* is written only when all that is on the stack has its place.
NothingLost == Short => \A x \in ToSet(given) \cup ToSet(list) : Occurrences(list, x) = Occurrences(given, x)

\* A list too short to be partitioned is in order when sort returns.
InOrder == phase = "done" /\ call.op = "sort" /\ call.cmp = "natural" => \A i \in 1 .. size - 1 : list[i] <= list[i + 1]
InOrderWhenShort == size < InsertThreshold => InOrder

\* A comparator that contradicts itself does not keep sort from ending.
Ends == <>(phase # "run")

\* What map, filter and the folds are to answer.
Keep(kept, x) == IF Kept(x) THEN Append(kept, x) ELSE kept
Answered ==
    LET xs == call.list
        made == IF call.create THEN out ELSE SubSeq(list, 1, Len(xs))
        leaves == [i \in DOMAIN xs |-> Value(xs[i])]
    IN CASE call.op = "map" -> made = [i \in DOMAIN xs |-> Image(xs[i])]
         [] call.op = "filter" -> (IF call.create THEN out ELSE list) = FoldLeft(Keep, <<>>, xs)
         [] call.op = "fold" -> out = IF xs = <<>> THEN Unit ELSE FoldLeft(Joined, leaves[1], Tail(leaves))
         [] call.op = "foldl" -> out = FoldLeft(Joined, HeadValue, leaves)
         [] call.op = "foldr" -> out = FoldRight(Joined, leaves, HeadValue)
         [] OTHER -> TRUE

\* map, filter and the folds return what their documentation says of the
\* elements the list had at the call, also when the function appends to it.
Meaning == phase = "done" => Answered

=============================================================================
