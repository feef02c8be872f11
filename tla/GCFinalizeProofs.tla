--------------------------- MODULE GCFinalizeProofs ---------------------------
(***************************************************************************)
(* Proofs about GCFinalize, for every set of objects, every limit and all  *)
(* programs and finalizers.                                                *)
(*                                                                         *)
(* The collector, a finalizer and the collector again may be on the C      *)
(* stack any number of times.  Each activation is right for what is under  *)
(* it (Placed), and the flags of the global state are right for the whole  *)
(* stack (FlagsOK); both depend on what finalizers have done, which is why *)
(* the exceptions that the properties make are part of the invariant.      *)
(***************************************************************************)
EXTENDS GCFinalize, StackProofs

-----------------------------------------------------------------------------
(* The inductive invariant.                                                *)

Has(s, fn) == \E i \in DOMAIN s : s[i].fn = fn
InLoops(s) == Has(s, "step") \/ Has(s, "full")

(* The activation a fits on the stack s, when the program has set fgc to   *)
(* `set` and finalizers have done d.                                       *)
Fits(a, s) ==
  /\ a.fn \in {"prog", "clear"} <=> s = <<>>
  /\ a.fn \in {"step", "full"} => s[1].fn \in {"prog", "fnz"}
  /\ a.fn = "callfin" => s[1].fn \in {"step", "full"}
  /\ a.fn = "fnz" => s[1].fn \in {"callfin", "clear"}

Placed(a, s, set, d) ==
  /\ Fits(a, s)
  /\ a.fn = "fnz" =>
       IF Has(s, "fnz") THEN a.oldgc => "setstate" \in d ELSE a.oldgc = set
  /\ a.fn = "step" \/ (a.fn = "full" /\ a.kind = "Normal") =>
       ~Has(s, "fnz") \/ "setstate" \in d \/ "fullgc" \in d
  /\ a.fn \in {"step", "full"} => ~InLoops(s) \/ "emergency" \in d \/ "fullgc" \in d
  /\ a.fn = "full" /\ a.kind = "Emergency" => ~Has(s, "callfin") \/ "emergency" \in d

StackOK(s, set, d) == \A i \in DOMAIN s : Placed(s[i], Under(s, i), set, d)

(* fgc is what it was made by the program, if no finalizer runs, and is    *)
(* switched on in a finalizer only by one.                                 *)
FgcOK ==
  IF Has(stack, "fnz") THEN fgc => "setstate" \in did ELSE fgc = setting

RunningOK == InLoops(stack) => gcrunning \/ "emergency" \in did \/ "fullgc" \in did

(* An emergency collection runs no finalizer, so it is always on top.      *)
KindOK == gckind = "Emergency" => Running("full") /\ Top.kind = "Emergency"

(* While callfin is active the cycle ends only when it has nothing left to *)
(* do, but for an emergency collection in a finalizer.                     *)
PauseOK ==
  Has(stack, "callfin") /\ gcstep = "Pause" => tobefnz = <<>> \/ "emergency" \in did

(* The second pass of aloG_clear has taken all there was.                  *)
Second(s) == \E i \in DOMAIN s : s[i].fn = "clear" /\ s[i].pass = 2
ClosedOK ==
  /\ stack = <<>> \/ Second(stack) => fnzable = <<>> \/ "register" \in did
  /\ stack = <<>> => tobefnz = <<>>

FlagsOK == FgcOK /\ RunningOK /\ KindOK /\ PauseOK /\ ClosedOK
IInv == TypeOK /\ StackOK(stack, setting, did) /\ FlagsOK

-----------------------------------------------------------------------------
(* Activations and stacks.                                                 *)

LEMMA Fields ==
  ASSUME NEW a \in Activation
  PROVE  \/ a.fn = "prog"
         \/ a.fn = "step" /\ a.work \in 0..MaxWork
         \/ a.fn = "callfin" /\ a.c \in 0..(CountLimit - 1)
         \/ a.fn = "full" /\ a.till \in 1..4 /\ a.kind \in {"Normal", "Emergency"}
                          /\ a = Full(a.till, a.kind)
         \/ a.fn = "fnz" /\ a.oldgc \in BOOLEAN /\ a.obj \in Object
         \/ a.fn = "clear" /\ a.pass \in {1, 2}
BY DEF Activation, Prog, Step, Callfin, Full, Fnz, Clear

LEMMA HasPushed ==
  ASSUME NEW s \in Seq(Activation), NEW a \in Activation, NEW fn
  PROVE  Has(<<a>> \o s, fn) <=> a.fn = fn \/ Has(s, fn)
<1>1. PICK p : p = <<a>> \o s
  OBVIOUS
<1>2. /\ 1 \in DOMAIN p /\ p[1] = a
      /\ \A i \in DOMAIN s : i + 1 \in DOMAIN p /\ p[i + 1] = s[i]
      /\ \A i \in DOMAIN p : i # 1 => i - 1 \in DOMAIN s /\ p[i] = s[i - 1]
  BY <1>1, Pushed, PushedDomain
<1>3. Has(p, fn) <=> a.fn = fn \/ Has(s, fn)
  BY <1>2 DEF Has
<1>4. QED
  BY <1>1, <1>3

LEMMA SecondPushed ==
  ASSUME NEW s \in Seq(Activation), NEW a \in Activation
  PROVE  Second(<<a>> \o s) <=> (a.fn = "clear" /\ a.pass = 2) \/ Second(s)
<1>1. PICK p : p = <<a>> \o s
  OBVIOUS
<1>2. /\ 1 \in DOMAIN p /\ p[1] = a
      /\ \A i \in DOMAIN s : i + 1 \in DOMAIN p /\ p[i + 1] = s[i]
      /\ \A i \in DOMAIN p : i # 1 => i - 1 \in DOMAIN s /\ p[i] = s[i - 1]
  BY <1>1, Pushed, PushedDomain
<1>3. Second(p) <=> (a.fn = "clear" /\ a.pass = 2) \/ Second(s)
  BY <1>2 DEF Second
<1>4. QED
  BY <1>1, <1>3

LEMMA Nothing ==
  /\ <<>> \in Seq(Activation) /\ ~Second(<<>>)
  /\ \A fn : ~Has(<<>>, fn)
  /\ \A set, d : StackOK(<<>>, set, d)
BY DEF Has, Second, StackOK

LEMMA StackPushed ==
  ASSUME NEW s \in Seq(Activation), NEW a \in Activation, NEW set, NEW d
  PROVE  StackOK(<<a>> \o s, set, d) <=> Placed(a, s, set, d) /\ StackOK(s, set, d)
<1>1. PICK p : p = <<a>> \o s
  OBVIOUS
<1>2. /\ 1 \in DOMAIN p /\ p[1] = a /\ Len(s) \in Nat /\ DOMAIN s = 1..Len(s)
      /\ \A i \in DOMAIN s : i + 1 \in DOMAIN p /\ p[i + 1] = s[i]
      /\ \A i \in DOMAIN p : i # 1 => i - 1 \in DOMAIN s /\ p[i] = s[i - 1]
  BY <1>1, Pushed, PushedDomain
<1>3. Under(p, 1) = s /\ \A i \in DOMAIN s : Under(p, i + 1) = Under(s, i)
  <2>1. \A i \in 0..Len(s) : Under(p, i + 1) = Under(s, i)
    BY <1>1, PushedUnder
  <2>2. Under(p, 0 + 1) = Under(s, 0) /\ Under(s, 0) = s
    BY <1>2, <2>1, UnderNothing
  <2>3. QED
    BY <1>2, <2>1, <2>2
<1>4. ASSUME StackOK(p, set, d) PROVE Placed(a, s, set, d) /\ StackOK(s, set, d)
  <2>1. Placed(a, s, set, d)
    BY <1>2, <1>3, <1>4 DEF StackOK
  <2>2. ASSUME NEW i \in DOMAIN s PROVE Placed(s[i], Under(s, i), set, d)
    BY <1>2, <1>3, <1>4 DEF StackOK
  <2>3. QED
    BY <2>1, <2>2 DEF StackOK
<1>5. ASSUME Placed(a, s, set, d), StackOK(s, set, d) PROVE StackOK(p, set, d)
  <2>1. ASSUME NEW i \in DOMAIN p, i # 1 PROVE Placed(p[i], Under(p, i), set, d)
    <3>1. PICK j \in DOMAIN s : j = i - 1 /\ p[i] = s[j]
      BY <1>2, <2>1
    <3>2. i = j + 1
      BY <1>1, <1>2, <3>1, Pushed
    <3>3. QED
      BY <1>3, <1>5, <3>1, <3>2 DEF StackOK
  <2>2. QED
    BY <1>2, <1>3, <1>5, <2>1 DEF StackOK
<1>6. QED
  BY <1>1, <1>4, <1>5

(* What finalizers have done is never forgotten while one runs.            *)
LEMMA StackLater ==
  ASSUME NEW s, NEW set, NEW d, NEW e, d \subseteq e, StackOK(s, set, d)
  PROVE  StackOK(s, set, e)
<1>1. ASSUME NEW i \in DOMAIN s PROVE Placed(s[i], Under(s, i), set, e)
  <2>1. Placed(s[i], Under(s, i), set, d)
    BY DEF StackOK
  <2>2. QED
    BY <2>1 DEF Placed
<1>2. QED
  BY <1>1 DEF StackOK

(* The stack is the activation on top and what is under it.                *)
LEMMA Split ==
  ASSUME NEW s \in Seq(Activation), s # <<>>
  PROVE  /\ Head(s) \in Activation /\ Tail(s) \in Seq(Activation)
         /\ s = <<Head(s)>> \o Tail(s) /\ s[1] = Head(s)
         /\ Len(s) = Len(Tail(s)) + 1 /\ Len(Tail(s)) \in Nat
BY Popped, Cut, UnderTop

(* The program and aloG_clear are at the bottom, and only there.           *)
LEMMA Bottom ==
  ASSUME NEW a \in Activation, NEW s \in Seq(Activation), NEW set, NEW d, Placed(a, s, set, d)
  PROVE  a.fn \in {"prog", "clear"} <=> s = <<>>
BY DEF Placed, Fits
(* The n-th of the elements that are kept exists.                          *)
LEMMA NthKept ==
  ASSUME NEW k \in Nat, NEW I, I \subseteq 1..k, NEW n \in 1..Cardinality(I)
  PROVE  \E i \in I : Cardinality({j \in I : j <= i}) = n
<1> DEFINE Upto(i) == {j \in I : j <= i}
<1>1. \A j \in I : j \in Int /\ 1 <= j /\ j <= k
  OBVIOUS
<1>2. IsFiniteSet(I)
  <2>1. IsFiniteSet(1..k)
    BY FS_Interval
  <2>2. QED
    BY <2>1, FS_Subset
<1>3. ASSUME NEW i \in Int PROVE IsFiniteSet(Upto(i)) /\ Cardinality(Upto(i)) \in Nat
  <2>1. Upto(i) \subseteq I
    OBVIOUS
  <2>2. IsFiniteSet(Upto(i))
    BY <1>2, <2>1, FS_Subset
  <2>3. QED
    BY <2>2, FS_CardinalityType
<1>4. Cardinality(I) \in Nat /\ n \in Nat /\ n >= 1 /\ n <= Cardinality(I)
  BY <1>2, FS_CardinalityType
<1>5. Upto(k) = I /\ Upto(0) = {}
  <2>1. \A j \in I : j <= k /\ ~(j <= 0)
    BY <1>1
  <2>2. QED
    BY <2>1, Zenon
<1>6. Cardinality(Upto(0)) = 0
  BY <1>5, FS_EmptySet
<1>7. ASSUME NEW i \in 1..k
      PROVE  Cardinality(Upto(i)) = IF i \in I THEN Cardinality(Upto(i - 1)) + 1
                                               ELSE Cardinality(Upto(i - 1))
  <2>1. i \in Int /\ i - 1 \in Int
    OBVIOUS
  <2>2. CASE i \in I
    <3>1. Upto(i) = Upto(i - 1) \cup {i}
      <4>1. \A j \in I : j <= i <=> j <= i - 1 \/ j = i
        BY <1>1, <2>1
      <4>2. i \in Upto(i)
        BY <2>1, <2>2
      <4>3. QED
        BY <4>1, <4>2, Zenon
    <3>2. i \notin Upto(i - 1)
      BY <2>1
    <3>3. IsFiniteSet(Upto(i - 1))
      BY <1>3, <2>1
    <3> HIDE DEF Upto
    <3>4. QED
      BY <2>2, <3>1, <3>2, <3>3, FS_AddElement
  <2>3. CASE i \notin I
    <3>1. Upto(i) = Upto(i - 1)
      <4>1. \A j \in I : j <= i <=> j <= i - 1
        BY <1>1, <2>1, <2>3
      <4>2. QED
        BY <4>1, Zenon
    <3>2. QED
      BY <2>3, <3>1
  <2>4. QED
    BY <2>2, <2>3
<1> HIDE DEF Upto
<1> DEFINE J == {i \in 1..k : Cardinality(Upto(i)) >= n}
<1>8. k \in J
  <2>1. Cardinality(I) # 0
    BY <1>4
  <2>2. k # 0
    BY <1>5, <1>6, <2>1
  <2>3. QED
    BY <1>4, <1>5, <2>2
<1>9. PICK i \in J : \A j \in J : i <= j
  <2>1. J \in SUBSET Nat /\ J # {}
    BY <1>8
  <2> HIDE DEF J
  <2>2. QED
    BY <2>1, LeastExists
<1>10. i \in 1..k /\ Cardinality(Upto(i)) >= n /\ i - 1 \in Int
  BY <1>9
<1>11. Cardinality(Upto(i - 1)) < n
  <2>1. CASE i = 1
    BY <1>4, <1>6, <2>1
  <2>2. CASE i # 1
    <3>1. i - 1 \in 1..k /\ ~(i <= i - 1)
      BY <1>10, <2>2
    <3>2. ~(Cardinality(Upto(i - 1)) >= n)
      BY <1>9, <3>1
    <3>3. Cardinality(Upto(i - 1)) \in Nat
      BY <1>3, <1>10
    <3>4. QED
      BY <1>4, <3>2, <3>3
  <2>3. QED
    BY <2>1, <2>2
<1>12. i \in I /\ Cardinality(Upto(i)) = n
  <2>1. Cardinality(Upto(i - 1)) \in Nat
    BY <1>3, <1>10
  <2>2. QED
    BY <1>4, <1>7, <1>10, <1>11, <2>1
<1>13. QED
  BY <1>12 DEF Upto

(* splitfnz makes lists of what was in the list.                           *)
LEMMA KeptIsList ==
  ASSUME NEW S, NEW s \in Seq(S), NEW X
  PROVE  /\ Kept(s, X) \in Seq(S)
         /\ s = <<>> => Kept(s, X) = <<>>
<1> DEFINE I == {i \in DOMAIN s : s[i] \in X}
           Nth(n) == CHOOSE i \in I : Cardinality({j \in I : j <= i}) = n
<1>1. Len(s) \in Nat /\ DOMAIN s = 1..Len(s) /\ I \subseteq 1..Len(s)
  OBVIOUS
<1>2. Cardinality(I) \in Nat
  <2>1. IsFiniteSet(1..Len(s))
    BY <1>1, FS_Interval
  <2>2. IsFiniteSet(I)
    BY <1>1, <2>1, FS_Subset
  <2> HIDE DEF I
  <2>3. QED
    BY <2>2, FS_CardinalityType
<1>3. ASSUME NEW n \in 1..Cardinality(I) PROVE s[Nth(n)] \in S
  <2>1. \E i \in I : Cardinality({j \in I : j <= i}) = n
    BY <1>1, NthKept
  <2>2. Nth(n) \in I
    BY <2>1
  <2>3. QED
    BY <2>2
<1>4. Kept(s, X) = [n \in 1..Cardinality(I) |-> s[Nth(n)]]
  BY DEF Kept
<1>5. Kept(s, X) \in Seq(S)
  <2>1. PICK c \in Nat : c = Cardinality(I)
    BY <1>2
  <2>2. Kept(s, X) \in [1..c -> S]
    <3> HIDE DEF I, Nth
    <3>1. QED
      BY <1>3, <1>4, <2>1
  <2>3. QED
    BY <2>2
<1>6. ASSUME s = <<>> PROVE Kept(s, X) = <<>>
  <2>1. I = {}
    BY <1>6
  <2>2. Cardinality(I) = 0
    BY <2>1, FS_EmptySet
  <2>3. Len(Kept(s, X)) = 0
    <3> HIDE DEF I, Nth
    <3>1. QED
      BY <1>4, <2>2
  <2>4. QED
    BY <1>5, <2>3, EmptySeq
<1>7. QED
  BY <1>5, <1>6

(* What one turn of aloG_step or aloG_fullgc leaves on the stack: the loop *)
(* itself, or nothing of it.                                               *)
LEMMA LoopCases ==
  ASSUME NEW s \in Seq(Activation), NEW a \in Activation, a.fn \in {"step", "full"},
         NEW step, NEW w \in {0, 1}, Loop(<<a>> \o s, step, w)
  PROVE  \/ \E b \in Activation : /\ b.fn = a.fn /\ (a.fn = "full" => b.kind = a.kind)
                                  /\ stack' = <<b>> \o s
                                  /\ UNCHANGED <<gcrunning, gckind>>
         \/ /\ stack' = s /\ gcrunning' = FALSE
            /\ gckind' = IF a.fn = "full" THEN "Normal" ELSE gckind
            /\ a.fn = "full" => step = "Pause"
<1>1. Head(<<a>> \o s) = a /\ Tail(<<a>> \o s) = s
  BY Pushed
<1>2. CASE a.fn = "step"
  <2>1. a.work \in 0..MaxWork /\ MaxWork \in Nat
    BY <1>2, Fields, CountAssumption
  <2>2. CASE Again(a, step, w)
    <3>1. a.work >= w
      BY <1>2, <2>2 DEF Again
    <3>2. a.work - w \in 0..MaxWork
      BY <2>1, <3>1
    <3>3. Step(a.work - w) \in Activation /\ Step(a.work - w).fn = "step"
      BY <3>2 DEF Activation, Step
    <3>4. stack' = <<Step(a.work - w)>> \o s /\ UNCHANGED <<gcrunning, gckind>>
      BY <1>1, <1>2, <2>2 DEF Loop
    <3>5. QED
      BY <1>2, <3>3, <3>4
  <2>3. CASE ~Again(a, step, w)
    BY <1>1, <1>2, <2>3 DEF Loop, EndLoop
  <2>4. QED
    BY <2>2, <2>3
<1>3. CASE a.fn = "full"
  <2>1. a.till \in 1..4 /\ a.kind \in {"Normal", "Emergency"} /\ a = Full(a.till, a.kind)
    BY <1>3, Fields
  <2>2. CASE Again(a, step, w)
    <3>1. stack' = <<a>> \o s /\ UNCHANGED <<gcrunning, gckind>>
      BY <1>1, <1>3, <2>2 DEF Loop
    <3>2. QED
      BY <3>1
  <2>3. CASE ~Again(a, step, w) /\ a.till < 4
    <3>1. [a EXCEPT !.till = @ + 1] = Full(a.till + 1, a.kind)
      BY <2>1 DEF Full
    <3>2. a.till + 1 \in 1..4
      BY <2>1, <2>3
    <3>3. /\ Full(a.till + 1, a.kind) \in Activation /\ Full(a.till + 1, a.kind).fn = "full"
          /\ Full(a.till + 1, a.kind).kind = a.kind
      BY <2>1, <3>2 DEF Activation, Full
    <3>4. stack' = <<[a EXCEPT !.till = @ + 1]>> \o s /\ UNCHANGED <<gcrunning, gckind>>
      BY SMTT(30), <1>1, <1>3, <2>3 DEF Loop
    <3>5. QED
      BY <1>3, <3>1, <3>3, <3>4
  <2>4. CASE ~Again(a, step, w) /\ ~(a.till < 4)
    <3>1. a.till = 4
      BY <2>1, <2>4
    <3>2. step = "Pause"
      BY <1>3, <2>4, <3>1 DEF Again
    <3>3. EndLoop(<<a>> \o s)
      BY <1>1, <1>3, <2>4 DEF Loop
    <3>4. QED
      BY <1>1, <1>3, <3>2, <3>3 DEF EndLoop
  <2>5. QED
    BY <2>2, <2>3, <2>4
<1>4. QED
  BY <1>2, <1>3

(* What the invariant says when the activation on top is known.            *)
LEMMA TopPlaced ==
  ASSUME TypeOK, StackOK(stack, setting, did), stack # <<>>
  PROVE  /\ Top \in Activation /\ Below \in Seq(Activation) /\ stack \in Seq(Activation)
         /\ stack = <<Top>> \o Below /\ stack[1] = Top
         /\ Placed(Top, Below, setting, did) /\ StackOK(Below, setting, did)
         /\ \A fn : Has(stack, fn) <=> Top.fn = fn \/ Has(Below, fn)
         /\ Second(stack) <=> (Top.fn = "clear" /\ Top.pass = 2) \/ Second(Below)
         /\ Top.fn \in {"prog", "clear"} <=> Below = <<>>
<1>1. PICK a : a = Top
  OBVIOUS
<1>2. PICK s : s = Below
  OBVIOUS
<1>3. /\ a \in Activation /\ s \in Seq(Activation) /\ stack \in Seq(Activation)
      /\ stack = <<a>> \o s /\ stack[1] = a
  <2>1. stack \in Seq(Activation)
    BY DEF TypeOK
  <2>2. QED
    BY <1>1, <1>2, <2>1, Split DEF Top, Below
<1>4. Placed(a, s, setting, did) /\ StackOK(s, setting, did)
  BY <1>3, StackPushed
<1>5. /\ \A fn : Has(stack, fn) <=> a.fn = fn \/ Has(s, fn)
      /\ Second(stack) <=> (a.fn = "clear" /\ a.pass = 2) \/ Second(s)
  BY <1>3, HasPushed, SecondPushed
<1>6. a.fn \in {"prog", "clear"} <=> s = <<>>
  BY <1>3, <1>4, Bottom
<1>7. QED
  BY <1>1, <1>2, <1>3, <1>4, <1>5, <1>6

(* An activation a is pushed on a stack s that is right.                   *)
LEMMA PushedOK ==
  ASSUME NEW s \in Seq(Activation), NEW a \in Activation, NEW set, NEW d,
         StackOK(s, set, d), Placed(a, s, set, d), stack' = <<a>> \o s
  PROVE  /\ stack' \in Seq(Activation) /\ stack' # <<>> /\ StackOK(stack', set, d)
         /\ stack'[1] = a /\ Head(stack') = a /\ Tail(stack') = s
         /\ \A fn : Has(stack', fn) <=> a.fn = fn \/ Has(s, fn)
         /\ Second(stack') <=> (a.fn = "clear" /\ a.pass = 2) \/ Second(s)
<1>1. PICK p : p = <<a>> \o s
  OBVIOUS
<1>2. p \in Seq(Activation) /\ p # <<>> /\ p[1] = a /\ Head(p) = a /\ Tail(p) = s
  BY <1>1, Pushed
<1>3. StackOK(p, set, d)
  BY <1>1, StackPushed
<1>4. /\ \A fn : Has(p, fn) <=> a.fn = fn \/ Has(s, fn)
      /\ Second(p) <=> (a.fn = "clear" /\ a.pass = 2) \/ Second(s)
  BY <1>1, HasPushed, SecondPushed
<1>5. QED
  BY <1>1, <1>2, <1>3, <1>4

-----------------------------------------------------------------------------
(* The collector.                                                          *)

(* gcstep: what it does to the lists.                                      *)
LEMMA GCStepLists ==
  ASSUME TypeOK, Begin \/ SplitFnz \/ Sweep \/ End
  PROVE  /\ gcstep' \in {"Pause", "Mark", "Sweep", "CallFin"} /\ final' = final
         /\ fnzable' \in Seq(Object) /\ tobefnz' \in Seq(Object)
         /\ fnzable = <<>> => fnzable' = <<>>
         /\ gcstep' = "Pause" => tobefnz' = tobefnz /\ (tobefnz = <<>> \/ gckind = "Emergency")
<1>1. CASE Begin \/ Sweep \/ End
  BY <1>1 DEF Begin, Sweep, End, TypeOK, lists
<1>2. CASE SplitFnz
  <2>1. PICK found : /\ tobefnz' = tobefnz \o Kept(fnzable, found)
                     /\ fnzable' = Kept(fnzable, Members(fnzable) \ found)
    BY <1>2 DEF SplitFnz
  <2>2. fnzable \in Seq(Object) /\ tobefnz \in Seq(Object)
    BY DEF TypeOK
  <2>3. fnzable' \in Seq(Object) /\ (fnzable = <<>> => fnzable' = <<>>)
    BY <2>1, <2>2, KeptIsList
  <2>4. PICK k \in Seq(Object) : k = Kept(fnzable, found)
    BY <2>2, KeptIsList
  <2>5. tobefnz' \in Seq(Object)
    BY <2>1, <2>2, <2>4
  <2>6. QED
    BY <1>2, <2>3, <2>5 DEF SplitFnz
<1>3. QED
  BY <1>1, <1>2

(* The end of a turn of the loop a: what becomes of the stack and flags.   *)
LEMMA TurnOK ==
  ASSUME NEW s \in Seq(Activation), NEW a \in Activation, a.fn \in {"step", "full"},
         Placed(a, s, setting, did), StackOK(s, setting, did), RunningOK, InLoops(stack), TypeOK,
         gckind = "Emergency" => a.fn = "full" /\ a.kind = "Emergency",
         NEW step, NEW w \in {0, 1}, Loop(<<a>> \o s, step, w)
  PROVE  /\ stack' \in Seq(Activation) /\ stack' # <<>> /\ StackOK(stack', setting, did)
         /\ \A fn : fn \notin {"step", "full"} => (Has(stack', fn) <=> Has(s, fn))
         /\ Second(stack') <=> Second(s)
         /\ InLoops(stack') => gcrunning' \/ "emergency" \in did \/ "fullgc" \in did
         /\ KindOK' /\ gcrunning' \in BOOLEAN /\ gckind' \in {"Normal", "Emergency"}
<1>1. CASE \E b \in Activation : /\ b.fn = a.fn /\ (a.fn = "full" => b.kind = a.kind)
                                 /\ stack' = <<b>> \o s
                                 /\ UNCHANGED <<gcrunning, gckind>>
  <2>1. PICK b \in Activation : /\ b.fn = a.fn /\ (a.fn = "full" => b.kind = a.kind)
                                /\ stack' = <<b>> \o s
                                /\ UNCHANGED <<gcrunning, gckind>>
    BY <1>1
  <2>2. Placed(b, s, setting, did)
    BY <2>1 DEF Placed, Fits
  <2>3. /\ stack' \in Seq(Activation) /\ stack' # <<>> /\ StackOK(stack', setting, did)
        /\ Head(stack') = b
        /\ \A fn : Has(stack', fn) <=> b.fn = fn \/ Has(s, fn)
        /\ Second(stack') <=> (b.fn = "clear" /\ b.pass = 2) \/ Second(s)
    BY <2>1, <2>2, PushedOK
  <2>4. KindOK'
    BY <2>1, <2>3 DEF KindOK, Running, Top
  <2>5. QED
    BY <2>1, <2>3, <2>4 DEF RunningOK, TypeOK
<1>2. CASE /\ stack' = s /\ gcrunning' = FALSE
           /\ gckind' = IF a.fn = "full" THEN "Normal" ELSE gckind
  <2>1. s # <<>>
    BY DEF Placed, Fits
  <2>2. InLoops(s) => "emergency" \in did \/ "fullgc" \in did
    BY DEF Placed
  <2>3. gckind' # "Emergency"
    BY <1>2
  <2>4. KindOK'
    BY <2>3 DEF KindOK
  <2>5. gckind' \in {"Normal", "Emergency"}
    BY <1>2 DEF TypeOK
  <2>6. QED
    BY <1>2, <2>1, <2>2, <2>4, <2>5
<1>3. QED
  BY <1>1, <1>2, LoopCases

LEMMA GCStepInv ==
  ASSUME IInv, GCStep
  PROVE  IInv'
<1>1. /\ TypeOK /\ StackOK(stack, setting, did) /\ FlagsOK /\ stack # <<>>
      /\ Top.fn \in {"step", "full"}
  BY DEF IInv, GCStep, InLoop, Running
<1>2. PICK a \in Activation, s \in Seq(Activation) :
        /\ a = Top /\ stack = <<a>> \o s /\ a.fn \in {"step", "full"}
        /\ Placed(a, s, setting, did) /\ StackOK(s, setting, did)
        /\ \A fn : Has(stack, fn) <=> a.fn = fn \/ Has(s, fn)
        /\ Second(stack) <=> Second(s)
  BY <1>1, TopPlaced
<1>3. PICK w \in {0, 1} : Loop(<<a>> \o s, gcstep', w)
  BY <1>2 DEF GCStep
<1>4. gckind = "Emergency" => a.fn = "full" /\ a.kind = "Emergency"
  BY <1>1, <1>2 DEF FlagsOK, KindOK, Running
<1>5. /\ gcstep' \in {"Pause", "Mark", "Sweep", "CallFin"} /\ final' = final
      /\ fnzable' \in Seq(Object) /\ tobefnz' \in Seq(Object)
      /\ fnzable = <<>> => fnzable' = <<>>
      /\ gcstep' = "Pause" => tobefnz' = tobefnz /\ (tobefnz = <<>> \/ gckind = "Emergency")
  BY <1>1, GCStepLists DEF GCStep
<1>6. UNCHANGED <<fgc, nfnzobj, setting, did>>
  BY DEF GCStep, history
<1>7. /\ stack' \in Seq(Activation) /\ stack' # <<>> /\ StackOK(stack', setting, did)
      /\ \A fn : fn \notin {"step", "full"} => (Has(stack', fn) <=> Has(s, fn))
      /\ Second(stack') <=> Second(s)
      /\ InLoops(stack') => gcrunning' \/ "emergency" \in did \/ "fullgc" \in did
      /\ KindOK' /\ gcrunning' \in BOOLEAN /\ gckind' \in {"Normal", "Emergency"}
  <2>1. InLoops(stack) /\ RunningOK
    BY <1>1, <1>2 DEF InLoops, FlagsOK
  <2>2. QED
    BY <1>1, <1>2, <1>3, <1>4, <2>1, TurnOK
<1>8. TypeOK'
  BY <1>1, <1>5, <1>6, <1>7 DEF TypeOK
<1>9. StackOK(stack, setting, did)'
  BY <1>6, <1>7
<1>10. FgcOK' /\ RunningOK'
  BY <1>1, <1>2, <1>6, <1>7 DEF FlagsOK, FgcOK, RunningOK
<1>11. PauseOK'
  <2> SUFFICES ASSUME Has(stack', "callfin"), gcstep' = "Pause"
               PROVE  tobefnz' = <<>> \/ "emergency" \in did
    BY <1>6 DEF PauseOK
  <2>1. Has(s, "callfin")
    BY <1>7
  <2>2. gckind = "Emergency" => "emergency" \in did
    BY <1>2, <1>4, <2>1 DEF Placed
  <2>3. QED
    BY <1>5, <2>2
<1>12. ClosedOK'
  BY <1>1, <1>2, <1>5, <1>6, <1>7 DEF FlagsOK, ClosedOK
<1>13. QED
  BY <1>7, <1>8, <1>9, <1>10, <1>11, <1>12 DEF IInv, FlagsOK

LEMMA CallfinBeginInv ==
  ASSUME IInv, CallfinBegin
  PROVE  IInv'
<1>1. /\ TypeOK /\ StackOK(stack, setting, did) /\ FlagsOK /\ stack # <<>>
      /\ Top.fn \in {"step", "full"} /\ stack \in Seq(Activation)
  BY DEF IInv, CallfinBegin, InLoop, Running, TypeOK
<1>2. PICK c \in Activation : c = Callfin(nfnzobj) /\ c.fn = "callfin"
  <2>1. Callfin(nfnzobj) \in Activation /\ Callfin(nfnzobj).fn = "callfin"
    BY <1>1 DEF TypeOK, Activation, Callfin
  <2>2. QED
    BY <2>1
<1>3. /\ stack' = <<c>> \o stack /\ gcstep = "CallFin" /\ gckind # "Emergency"
      /\ UNCHANGED <<gcstep, gckind, gcrunning, fgc, nfnzobj, final, fnzable, tobefnz, setting, did>>
  BY <1>2 DEF CallfinBegin, flags, lists, history
<1>4. Placed(c, stack, setting, did)
  BY <1>1, <1>2, TopPlaced DEF Placed, Fits
<1>5. /\ stack' \in Seq(Activation) /\ stack' # <<>> /\ StackOK(stack', setting, did)
      /\ \A fn : Has(stack', fn) <=> c.fn = fn \/ Has(stack, fn)
      /\ Second(stack') <=> (c.fn = "clear" /\ c.pass = 2) \/ Second(stack)
  BY <1>1, <1>3, <1>4, PushedOK
<1>6. TypeOK'
  BY <1>1, <1>3, <1>5 DEF TypeOK
<1>7. FlagsOK'
  BY <1>1, <1>2, <1>3, <1>5
  DEF FlagsOK, FgcOK, RunningOK, InLoops, KindOK, PauseOK, ClosedOK
<1>8. QED
  BY <1>3, <1>5, <1>6, <1>7 DEF IInv

-----------------------------------------------------------------------------
(* callfin and callfinimpl.                                                *)

(* A stack that is right is an activation that fits on a stack that is     *)
(* right.                                                                  *)
LEMMA OnTop ==
  ASSUME NEW s \in Seq(Activation), s # <<>>, NEW set, NEW d, StackOK(s, set, d)
  PROVE  \E b \in Activation, t \in Seq(Activation) :
           /\ s = <<b>> \o t /\ s[1] = b /\ Under(s, 1) = t
           /\ Len(s) = Len(t) + 1 /\ Len(t) \in Nat
           /\ Placed(b, t, set, d) /\ StackOK(t, set, d)
           /\ \A fn : Has(s, fn) <=> b.fn = fn \/ Has(t, fn)
           /\ Second(s) <=> (b.fn = "clear" /\ b.pass = 2) \/ Second(t)
<1>1. PICK b : b = Head(s)
  OBVIOUS
<1>2. PICK t : t = Tail(s)
  OBVIOUS
<1>3. /\ b \in Activation /\ t \in Seq(Activation) /\ s = <<b>> \o t /\ s[1] = b
      /\ Under(s, 1) = t /\ Len(s) = Len(t) + 1 /\ Len(t) \in Nat
  BY <1>1, <1>2, Split, Popped
<1>4. Placed(b, t, set, d) /\ StackOK(t, set, d)
  BY <1>3, StackPushed
<1>5. /\ \A fn : Has(s, fn) <=> b.fn = fn \/ Has(t, fn)
      /\ Second(s) <=> (b.fn = "clear" /\ b.pass = 2) \/ Second(t)
  BY <1>3, HasPushed, SecondPushed
<1>6. QED
  BY <1>3, <1>4, <1>5

(* A finalizer is called, or found missing, over the activations rest.     *)
LEMMA CallFinalizerInv ==
  ASSUME IInv, NEW rest \in Seq(Activation), rest # <<>>, stack # <<>>, tobefnz # <<>>,
         rest[1].fn \in {"callfin", "clear"}, gckind # "Emergency",
         StackOK(rest, setting, did), Second(rest) <=> Second(stack),
         \A fn : Has(rest, fn) <=> Has(stack, fn),
         CallFinalizer(rest)
  PROVE  IInv'
<1>1. TypeOK /\ FlagsOK
  BY DEF IInv
<1>2. /\ tobefnz' = Tail(tobefnz) /\ final' = final \ {Head(tobefnz)}
      /\ UNCHANGED <<fnzable, gcstep, gckind, gcrunning, nfnzobj, setting, did>>
      /\ \/ stack' = rest /\ UNCHANGED fgc
         \/ stack' = <<Fnz(Head(tobefnz), fgc)>> \o rest /\ fgc' = FALSE
  BY DEF CallFinalizer, history
<1>3. Head(tobefnz) \in Object /\ tobefnz' \in Seq(Object)
  BY <1>1, <1>2 DEF TypeOK
<1>4. CASE stack' = rest /\ UNCHANGED fgc
  <2>1. TypeOK'
    BY <1>1, <1>2, <1>3, <1>4 DEF TypeOK
  <2>2. FlagsOK'
    BY <1>1, <1>2, <1>4 DEF FlagsOK, FgcOK, RunningOK, InLoops, KindOK, PauseOK, ClosedOK
  <2>3. QED
    BY <1>2, <1>4, <2>1, <2>2 DEF IInv
<1>5. CASE stack' = <<Fnz(Head(tobefnz), fgc)>> \o rest /\ fgc' = FALSE
  <2>1. PICK f \in Activation : /\ f = Fnz(Head(tobefnz), fgc)
                                /\ f.fn = "fnz" /\ f.oldgc = fgc
    <3>1. fgc \in BOOLEAN
      BY <1>1 DEF TypeOK
    <3>2. /\ Fnz(Head(tobefnz), fgc) \in Activation
          /\ Fnz(Head(tobefnz), fgc).fn = "fnz" /\ Fnz(Head(tobefnz), fgc).oldgc = fgc
      BY <1>3, <3>1 DEF Activation, Fnz
    <3>3. QED
      BY <3>2
  <2>2. IF Has(stack, "fnz") THEN fgc => "setstate" \in did ELSE fgc = setting
    BY <1>1 DEF FlagsOK, FgcOK
  <2>3. Placed(f, rest, setting, did)
    BY <2>1, <2>2 DEF Placed, Fits
  <2>4. /\ stack' \in Seq(Activation) /\ stack' # <<>> /\ StackOK(stack', setting, did)
        /\ \A fn : Has(stack', fn) <=> f.fn = fn \/ Has(rest, fn)
        /\ Second(stack') <=> (f.fn = "clear" /\ f.pass = 2) \/ Second(rest)
    BY <1>5, <2>1, <2>3, PushedOK
  <2>5. TypeOK'
    BY <1>1, <1>2, <1>3, <1>5, <2>4 DEF TypeOK
  <2>6. FlagsOK'
    BY <1>1, <1>2, <1>5, <2>1, <2>4
    DEF FlagsOK, FgcOK, RunningOK, InLoops, KindOK, PauseOK, ClosedOK
  <2>7. QED
    BY <1>2, <2>4, <2>5, <2>6 DEF IInv
<1>6. QED
  BY <1>2, <1>4, <1>5

LEMMA CallfinNextInv ==
  ASSUME IInv, CallfinNext
  PROVE  IInv'
<1>1. TypeOK /\ StackOK(stack, setting, did) /\ FlagsOK /\ stack # <<>> /\ Top.fn = "callfin"
  BY DEF IInv, CallfinNext, Running
<1>2. PICK a \in Activation, s \in Seq(Activation) :
        /\ a = Top /\ s = Below /\ a.fn = "callfin"
        /\ Placed(a, s, setting, did) /\ StackOK(s, setting, did)
        /\ \A fn : Has(stack, fn) <=> a.fn = fn \/ Has(s, fn)
        /\ Second(stack) <=> Second(s)
  BY <1>1, TopPlaced
<1>3. PICK b \in Activation : b = Callfin(a.c - 1) /\ b.fn = "callfin"
  <2>1. a.c \in 0..(CountLimit - 1) /\ a.c > 0 /\ CountLimit \in Nat
    BY <1>2, Fields, CountAssumption DEF CallfinNext
  <2>2. a.c - 1 \in 0..(CountLimit - 1)
    BY <2>1
  <2>3. Callfin(a.c - 1) \in Activation /\ Callfin(a.c - 1).fn = "callfin"
    BY <2>2 DEF Activation, Callfin
  <2>4. QED
    BY <2>3
<1>4. PICK rest \in Seq(Activation) : rest = <<b>> \o s /\ rest # <<>> /\ rest[1] = b
  BY ZenonT(60), <1>2, <1>3, Pushed
<1>5. Placed(b, s, setting, did)
  BY <1>2, <1>3 DEF Placed, Fits
<1>6. /\ StackOK(rest, setting, did)
      /\ \A fn : Has(rest, fn) <=> b.fn = fn \/ Has(s, fn)
      /\ Second(rest) <=> Second(s)
  BY <1>2, <1>3, <1>4, <1>5, StackPushed, HasPushed, SecondPushed
<1>7. gckind # "Emergency"
  BY <1>1 DEF FlagsOK, KindOK, Running
<1>8. CallFinalizer(rest) /\ tobefnz # <<>>
  BY <1>2, <1>3, <1>4 DEF CallfinNext
<1>9. QED
  BY <1>1, <1>2, <1>3, <1>4, <1>6, <1>7, <1>8, CallFinalizerInv

LEMMA ClearNextInv ==
  ASSUME IInv, ClearNext
  PROVE  IInv'
<1>1. /\ TypeOK /\ StackOK(stack, setting, did) /\ FlagsOK /\ stack # <<>>
      /\ Top.fn = "clear" /\ tobefnz # <<>> /\ CallFinalizer(stack)
  BY DEF IInv, ClearNext, Running
<1>2. stack \in Seq(Activation) /\ stack[1].fn = "clear"
  BY <1>1, TopPlaced
<1>3. gckind # "Emergency"
  BY <1>1 DEF FlagsOK, KindOK, Running
<1>4. QED
  BY <1>1, <1>2, <1>3, CallFinalizerInv

LEMMA CallfinEndInv ==
  ASSUME IInv, CallfinEnd
  PROVE  IInv'
<1>1. TypeOK /\ StackOK(stack, setting, did) /\ FlagsOK /\ stack # <<>> /\ Top.fn = "callfin"
  BY DEF IInv, CallfinEnd, Running
<1>2. PICK a \in Activation, s \in Seq(Activation) :
        /\ a = Top /\ s = Below /\ a.fn = "callfin"
        /\ Placed(a, s, setting, did) /\ StackOK(s, setting, did)
        /\ \A fn : Has(stack, fn) <=> a.fn = fn \/ Has(s, fn)
        /\ Second(stack) <=> Second(s)
  BY <1>1, TopPlaced
<1>3. s # <<>> /\ s[1].fn \in {"step", "full"}
  BY <1>2 DEF Placed, Fits
<1>4. PICK b \in Activation, t \in Seq(Activation) :
        /\ s = <<b>> \o t /\ b.fn \in {"step", "full"}
        /\ Placed(b, t, setting, did) /\ StackOK(t, setting, did)
        /\ \A fn : Has(s, fn) <=> b.fn = fn \/ Has(t, fn)
        /\ Second(s) <=> Second(t)
  <2>1. PICK b \in Activation, t \in Seq(Activation) :
          /\ s = <<b>> \o t /\ s[1] = b /\ Placed(b, t, setting, did) /\ StackOK(t, setting, did)
          /\ \A fn : Has(s, fn) <=> b.fn = fn \/ Has(t, fn)
          /\ Second(s) <=> (b.fn = "clear" /\ b.pass = 2) \/ Second(t)
    BY <1>2, <1>3, OnTop
  <2>2. QED
    BY <1>3, <2>1
<1>5. gckind # "Emergency"
  BY <1>1 DEF FlagsOK, KindOK, Running
<1>6. PICK w \in {0, 1} :
      /\ Loop(<<b>> \o t, gcstep, w)
      /\ nfnzobj' = IF tobefnz = <<>> THEN 0 ELSE (nfnzobj * 2) % CountLimit
      /\ UNCHANGED <<gcstep, fgc, final, fnzable, tobefnz, setting, did>>
  BY <1>2, <1>4 DEF CallfinEnd, lists, history
<1>7. InLoops(stack) /\ RunningOK
  BY <1>1, <1>2, <1>4 DEF InLoops, FlagsOK
<1>8. /\ stack' \in Seq(Activation) /\ stack' # <<>> /\ StackOK(stack', setting, did)
      /\ \A fn : fn \notin {"step", "full"} => (Has(stack', fn) <=> Has(t, fn))
      /\ Second(stack') <=> Second(t)
      /\ InLoops(stack') => gcrunning' \/ "emergency" \in did \/ "fullgc" \in did
      /\ KindOK' /\ gcrunning' \in BOOLEAN /\ gckind' \in {"Normal", "Emergency"}
  BY <1>1, <1>4, <1>5, <1>6, <1>7, TurnOK
<1>9. nfnzobj' \in 0..(CountLimit - 1)
  <2>1. CountLimit \in Nat \ {0} /\ nfnzobj * 2 \in Int
    BY <1>1, CountAssumption DEF TypeOK
  <2>2. (nfnzobj * 2) % CountLimit \in 0..(CountLimit - 1)
    BY <2>1
  <2>3. QED
    BY <1>6, <2>1, <2>2
<1>10. TypeOK'
  BY <1>1, <1>6, <1>8, <1>9 DEF TypeOK
<1>11. FlagsOK'
  <2>1. FgcOK' /\ RunningOK'
    BY <1>1, <1>2, <1>4, <1>6, <1>8 DEF FlagsOK, FgcOK, RunningOK
  <2>2. PauseOK' /\ ClosedOK'
    BY <1>1, <1>2, <1>4, <1>6, <1>8 DEF FlagsOK, PauseOK, ClosedOK
  <2>3. QED
    BY <1>8, <2>1, <2>2 DEF FlagsOK
<1>12. QED
  BY <1>6, <1>8, <1>10, <1>11 DEF IInv

(* callfinimpl after the call: the finalizer on top is left, and perhaps   *)
(* the callfin and the loop under it.                                      *)
LEMMA LeaveInv ==
  ASSUME IInv, Running("fnz"), NEW rest \in Seq(Activation), rest # <<>>,
         StackOK(rest, setting, did), Second(rest) => Second(stack),
         \A fn : Has(rest, fn) => Has(stack, fn),
         Has(rest, "fnz") <=> Has(Below, "fnz"),
         Leave(rest), did \subseteq did', did' \subseteq Operations
  PROVE  IInv'
<1>1. TypeOK /\ StackOK(stack, setting, did) /\ FlagsOK /\ stack # <<>> /\ Top.fn = "fnz"
  BY DEF IInv, Running
<1>2. /\ Top \in Activation /\ Has(stack, "fnz")
      /\ IF Has(Below, "fnz") THEN Top.oldgc => "setstate" \in did ELSE Top.oldgc = setting
  BY <1>1, TopPlaced DEF Placed
<1>3. Top.oldgc \in BOOLEAN
  BY <1>1, <1>2, Fields
<1>4. /\ stack' = rest /\ fgc' = Top.oldgc
      /\ UNCHANGED <<gcstep, gckind, gcrunning, nfnzobj, final, fnzable, tobefnz, setting>>
  BY DEF Leave, lists
<1>5. gckind # "Emergency"
  BY <1>1 DEF FlagsOK, KindOK, Running
<1>6. TypeOK'
  BY <1>1, <1>3, <1>4 DEF TypeOK
<1>7. StackOK(stack, setting, did)'
  BY <1>4, StackLater
<1>8. FlagsOK'
  <2>1. FgcOK' /\ RunningOK' /\ KindOK'
    BY <1>1, <1>2, <1>4, <1>5 DEF FlagsOK, FgcOK, RunningOK, InLoops, KindOK
  <2>2. PauseOK' /\ ClosedOK'
    BY <1>1, <1>4 DEF FlagsOK, PauseOK, ClosedOK
  <2>3. QED
    BY <2>1, <2>2 DEF FlagsOK
<1>9. QED
  BY <1>6, <1>7, <1>8 DEF IInv

LEMMA ReturnInv ==
  ASSUME IInv, Return
  PROVE  IInv'
<1>1. TypeOK /\ StackOK(stack, setting, did) /\ stack # <<>> /\ Running("fnz") /\ Top.fn = "fnz"
  BY DEF IInv, Return, Running
<1>2. Leave(Below) /\ did' = did /\ did' \subseteq Operations
  BY <1>1 DEF Return, TypeOK
<1>3. PICK s \in Seq(Activation) :
        /\ s = Below /\ s # <<>> /\ StackOK(s, setting, did)
        /\ \A fn : Has(s, fn) => Has(stack, fn)
        /\ Second(s) => Second(stack)
  BY <1>1, TopPlaced
<1>4. QED
  BY <1>1, <1>2, <1>3, LeaveInv

LEMMA ThrowInv ==
  ASSUME IInv, Throw
  PROVE  IInv'
<1>1. /\ TypeOK /\ StackOK(stack, setting, did) /\ stack # <<>> /\ Running("fnz")
      /\ Top.fn = "fnz" /\ stack \in Seq(Activation)
  BY DEF IInv, Throw, Running, TypeOK
<1>2. PICK a \in Activation, s \in Seq(Activation) :
        /\ a = Top /\ s = Below /\ stack = <<a>> \o s /\ a.fn = "fnz"
        /\ Placed(a, s, setting, did) /\ StackOK(s, setting, did)
        /\ \A fn : Has(stack, fn) <=> a.fn = fn \/ Has(s, fn)
        /\ Second(stack) <=> Second(s)
  BY <1>1, TopPlaced
<1>3. did' = did \cup {"throw"} /\ did' \subseteq Operations
  BY <1>1 DEF Throw, Record, TypeOK, Operations
<1>4. s # <<>> /\ s[1].fn \in {"callfin", "clear"} /\ Head(s) = s[1]
  BY <1>2, Split DEF Placed, Fits
<1>5. CASE s[1].fn = "clear"
  <2>1. Leave(s)
    BY <1>2, <1>4, <1>5 DEF Throw
  <2>2. QED
    BY <1>1, <1>2, <1>3, <1>4, <2>1, LeaveInv
<1>6. CASE s[1].fn = "callfin"
  <2>1. Leave(SubSeq(stack, 4, Len(stack)))
    BY <1>2, <1>4, <1>6 DEF Throw
  <2>2. PICK b \in Activation, t \in Seq(Activation) :
          /\ s[1] = b /\ Under(s, 1) = t /\ Len(s) = Len(t) + 1
          /\ Placed(b, t, setting, did) /\ StackOK(t, setting, did)
          /\ \A fn : Has(s, fn) <=> b.fn = fn \/ Has(t, fn)
          /\ Second(s) <=> (b.fn = "clear" /\ b.pass = 2) \/ Second(t)
    BY <1>2, <1>4, OnTop
  <2>3. t # <<>> /\ t[1].fn \in {"step", "full"} /\ b.fn = "callfin"
    BY <1>6, <2>2 DEF Placed, Fits
  <2>4. PICK l \in Activation, r \in Seq(Activation) :
          /\ t[1] = l /\ Under(t, 1) = r /\ Len(t) = Len(r) + 1 /\ Len(r) \in Nat
          /\ Placed(l, r, setting, did) /\ StackOK(r, setting, did)
          /\ \A fn : Has(t, fn) <=> l.fn = fn \/ Has(r, fn)
          /\ Second(t) <=> (l.fn = "clear" /\ l.pass = 2) \/ Second(r)
    BY <2>2, <2>3, OnTop
  <2>5. r # <<>> /\ l.fn \in {"step", "full"}
    BY <2>3, <2>4 DEF Placed, Fits
  <2>6. SubSeq(stack, 4, Len(stack)) = r
    <3>1. Under(stack, 1) = s /\ Len(stack) = Len(s) + 1
      BY <1>1, <1>2, Split, Popped DEF Below
    <3>2. /\ 1 \in 0..Len(stack) /\ 2 \in 0..(Len(stack) - 1)
          /\ 1 \in 0..Len(s) /\ 1 \in 0..(Len(s) - 1)
      BY <2>2, <2>4, <3>1
    <3>3. Under(Under(stack, 1), 2) = Under(stack, 2 + 1)
      BY <1>1, <3>2, Cut
    <3>4. Under(Under(s, 1), 1) = Under(s, 1 + 1)
      BY <1>2, <3>2, Cut
    <3>5. Under(stack, 3) = r
      BY <2>2, <2>4, <3>1, <3>3, <3>4
    <3>6. QED
      BY <3>5 DEF Under
  <2>7. Leave(r)
    BY <2>1, <2>6
  <2>8. /\ \A fn : Has(r, fn) => Has(stack, fn)
        /\ Has(r, "fnz") <=> Has(s, "fnz")
        /\ Second(r) => Second(stack)
    BY <1>2, <2>2, <2>3, <2>4, <2>5
  <2>9. QED
    BY <1>1, <1>2, <1>3, <2>4, <2>5, <2>7, <2>8, LeaveInv
<1>7. QED
  BY <1>4, <1>5, <1>6

-----------------------------------------------------------------------------
(* The program and the finalizers.                                         *)

(* Code runs in the program, which has nothing under it, or in a           *)
(* finalizer, which then has done what it does.                            *)
LEMMA InCode ==
  ASSUME TypeOK, StackOK(stack, setting, did), NEW op \in Operations, Does(op), Record(op)
  PROVE  /\ stack # <<>> /\ did \subseteq did' /\ did' \subseteq Operations
         /\ \/ /\ Top.fn = "prog" /\ stack = <<Top>> \o <<>> /\ did' = did
               /\ \A fn : Has(stack, fn) <=> fn = "prog"
               /\ ~Second(stack)
            \/ Top.fn = "fnz" /\ Has(stack, "fnz") /\ op \in did'
<1>1. stack # <<>> /\ Top.fn \in {"prog", "fnz"}
  BY DEF Does, Running
<1>2. CASE Top.fn = "prog"
  <2>1. did' = did
    BY <1>2 DEF Record, Running
  <2>2. Below = <<>> /\ stack = <<Top>> \o <<>>
    BY <1>1, <1>2, TopPlaced
  <2>3. /\ \A fn : Has(stack, fn) <=> fn = "prog"
        /\ ~Second(stack)
    BY <1>1, <1>2, <2>2, TopPlaced, Nothing
  <2>4. QED
    BY <1>1, <1>2, <2>1, <2>2, <2>3 DEF TypeOK
<1>3. CASE Top.fn = "fnz"
  <2>1. did' = did \cup {op}
    BY <1>1, <1>3 DEF Record, Running
  <2>2. Has(stack, "fnz")
    BY <1>1, <1>3, TopPlaced
  <2>3. QED
    BY <1>1, <1>3, <2>1, <2>2 DEF TypeOK
<1>4. QED
  BY <1>1, <1>2, <1>3

LEMMA RegisterInv ==
  ASSUME IInv, NEW o \in Object, Register(o)
  PROVE  IInv'
<1>1. TypeOK /\ StackOK(stack, setting, did) /\ FlagsOK
  BY DEF IInv
<1>2. /\ fnzable' = <<o>> \o fnzable /\ final' = final \cup {o}
      /\ UNCHANGED <<tobefnz, gcstep, gckind, gcrunning, fgc, nfnzobj, stack, setting>>
  BY DEF Register, flags
<1>3. /\ stack # <<>> /\ did \subseteq did' /\ did' \subseteq Operations
      /\ ~Second(stack) \/ "register" \in did'
  BY <1>1, InCode DEF Register, Operations
<1>4. TypeOK'
  BY <1>1, <1>2, <1>3 DEF TypeOK
<1>5. StackOK(stack, setting, did)'
  BY <1>1, <1>2, <1>3, StackLater
<1>6. FlagsOK'
  <2>1. FgcOK' /\ RunningOK' /\ KindOK'
    BY <1>1, <1>2, <1>3 DEF FlagsOK, FgcOK, RunningOK, KindOK, Running, Top
  <2>2. PauseOK' /\ ClosedOK'
    BY <1>1, <1>2, <1>3 DEF FlagsOK, PauseOK, ClosedOK
  <2>3. QED
    BY <2>1, <2>2 DEF FlagsOK
<1>7. QED
  BY <1>4, <1>5, <1>6 DEF IInv

LEMMA AllocInv ==
  ASSUME IInv, Alloc
  PROVE  IInv'
<1>1. TypeOK /\ StackOK(stack, setting, did) /\ FlagsOK /\ stack \in Seq(Activation)
  BY DEF IInv, TypeOK
<1>2. PICK w \in 0..MaxWork : stack' = <<Step(w)>> \o stack
  BY DEF Alloc
<1>3. PICK a \in Activation : a = Step(w) /\ a.fn = "step"
  <2>1. Step(w) \in Activation /\ Step(w).fn = "step"
    BY DEF Activation, Step
  <2>2. QED
    BY <2>1
<1>4. /\ fgc /\ ~gcrunning /\ gcrunning' = TRUE
      /\ UNCHANGED <<gcstep, gckind, fgc, nfnzobj, final, fnzable, tobefnz, setting, did>>
      /\ stack # <<>> /\ Top.fn \in {"prog", "fnz"}
  BY DEF Alloc, lists, history, Does, Running
<1>5. stack[1].fn \in {"prog", "fnz"}
  BY <1>1, <1>4, TopPlaced
<1>6. /\ ~Has(stack, "fnz") \/ "setstate" \in did
      /\ ~InLoops(stack) \/ "emergency" \in did \/ "fullgc" \in did
  BY <1>1, <1>4 DEF FlagsOK, FgcOK, RunningOK
<1>7. Placed(a, stack, setting, did)
  BY <1>3, <1>4, <1>5, <1>6 DEF Placed, Fits
<1>8. /\ stack' \in Seq(Activation) /\ stack' # <<>> /\ StackOK(stack', setting, did)
      /\ \A fn : Has(stack', fn) <=> a.fn = fn \/ Has(stack, fn)
      /\ Second(stack') <=> (a.fn = "clear" /\ a.pass = 2) \/ Second(stack)
  BY <1>1, <1>2, <1>3, <1>7, PushedOK
<1>9. gckind # "Emergency"
  BY <1>1, <1>4 DEF FlagsOK, KindOK, Running
<1>10. TypeOK'
  BY <1>1, <1>4, <1>8 DEF TypeOK
<1>11. FlagsOK'
  <2>1. FgcOK' /\ RunningOK' /\ KindOK'
    BY <1>1, <1>3, <1>4, <1>8, <1>9 DEF FlagsOK, FgcOK, RunningOK, InLoops, KindOK
  <2>2. PauseOK' /\ ClosedOK'
    BY <1>1, <1>3, <1>4, <1>8 DEF FlagsOK, PauseOK, ClosedOK
  <2>3. QED
    BY <2>1, <2>2 DEF FlagsOK
<1>12. QED
  BY <1>4, <1>8, <1>10, <1>11 DEF IInv

LEMMA FullGCInv ==
  ASSUME IInv, NEW kind \in {"Normal", "Emergency"}, FullGC(kind)
  PROVE  IInv'
<1>1. TypeOK /\ StackOK(stack, setting, did) /\ FlagsOK /\ stack \in Seq(Activation)
  BY DEF IInv, TypeOK
<1>2. PICK a \in Activation : a = Full(1, kind) /\ a.fn = "full" /\ a.kind = kind
  <2>1. Full(1, kind) \in Activation /\ Full(1, kind).fn = "full" /\ Full(1, kind).kind = kind
    BY DEF Activation, Full
  <2>2. QED
    BY <2>1
<1>3. PICK op \in Operations : /\ Does(op) /\ Record(op)
                               /\ op = IF kind = "Normal" THEN "fullgc" ELSE "emergency"
  BY DEF FullGC, Operations
<1>4. /\ stack' = <<a>> \o stack /\ gckind' = kind /\ gcrunning' = TRUE
      /\ gcstep' = IF gcstep = "Mark" THEN "Sweep" ELSE gcstep
      /\ UNCHANGED <<fgc, nfnzobj, final, fnzable, tobefnz, setting>>
  BY <1>2 DEF FullGC, lists
<1>5. /\ stack # <<>> /\ did \subseteq did' /\ did' \subseteq Operations
      /\ \/ /\ Top.fn = "prog" /\ did' = did
            /\ \A fn : Has(stack, fn) <=> fn = "prog"
         \/ Top.fn = "fnz" /\ op \in did'
  BY <1>1, <1>3, InCode
<1>6. stack[1].fn \in {"prog", "fnz"}
  BY <1>1, <1>5, TopPlaced
<1>7. StackOK(stack, setting, did')
  BY <1>1, <1>5, StackLater
<1>8. Placed(a, stack, setting, did')
  BY <1>2, <1>3, <1>5, <1>6 DEF Placed, Fits, InLoops
<1>9. /\ stack' \in Seq(Activation) /\ stack' # <<>> /\ StackOK(stack', setting, did')
      /\ stack'[1] = a /\ Head(stack') = a
      /\ \A fn : Has(stack', fn) <=> a.fn = fn \/ Has(stack, fn)
      /\ Second(stack') <=> (a.fn = "clear" /\ a.pass = 2) \/ Second(stack)
  BY <1>1, <1>2, <1>4, <1>7, <1>8, PushedOK
<1>10. TypeOK'
  BY <1>1, <1>4, <1>5, <1>9 DEF TypeOK
<1>11. FlagsOK'
  <2>1. FgcOK' /\ RunningOK' /\ KindOK'
    BY <1>1, <1>2, <1>4, <1>5, <1>9 DEF FlagsOK, FgcOK, RunningOK, InLoops, KindOK, Running, Top
  <2>2. PauseOK' /\ ClosedOK'
    BY <1>1, <1>2, <1>4, <1>5, <1>9 DEF FlagsOK, PauseOK, ClosedOK
  <2>3. QED
    BY <2>1, <2>2 DEF FlagsOK
<1>12. QED
  BY <1>4, <1>9, <1>10, <1>11 DEF IInv

LEMMA SetStateInv ==
  ASSUME IInv, NEW on \in BOOLEAN, SetState(on)
  PROVE  IInv'
<1>1. TypeOK /\ StackOK(stack, setting, did) /\ FlagsOK /\ stack \in Seq(Activation)
  BY DEF IInv, TypeOK
<1>2. /\ fgc' = on /\ setting' = IF Running("prog") THEN on ELSE setting
      /\ UNCHANGED <<gcstep, gckind, gcrunning, nfnzobj, final, fnzable, tobefnz, stack>>
  BY DEF SetState, lists
<1>3. /\ stack # <<>> /\ did \subseteq did' /\ did' \subseteq Operations
      /\ \/ /\ Top.fn = "prog" /\ stack = <<Top>> \o <<>> /\ did' = did
            /\ \A fn : Has(stack, fn) <=> fn = "prog"
            /\ ~Second(stack)
         \/ Top.fn = "fnz" /\ Has(stack, "fnz") /\ "setstate" \in did'
  BY <1>1, InCode DEF SetState, Operations
<1>4. TypeOK'
  BY <1>1, <1>2, <1>3 DEF TypeOK
<1>5. StackOK(stack, setting', did')
  <2>1. CASE Top.fn = "prog"
    <3>1. Top \in Activation /\ stack = <<Top>> \o <<>>
      BY <1>1, <1>3, <2>1, TopPlaced
    <3>2. Placed(Top, <<>>, setting', did')
      BY <2>1 DEF Placed, Fits
    <3>3. QED
      BY <3>1, <3>2, Nothing, StackPushed
  <2>2. CASE Top.fn = "fnz"
    <3>1. setting' = setting
      BY <1>2, <2>2 DEF Running
    <3>2. QED
      BY <1>1, <1>3, <3>1, StackLater
  <2>3. QED
    BY <1>3, <2>1, <2>2
<1>6. FlagsOK'
  <2>1. FgcOK' /\ RunningOK' /\ KindOK'
    BY <1>1, <1>2, <1>3 DEF FlagsOK, FgcOK, RunningOK, InLoops, KindOK, Running, Top
  <2>2. PauseOK' /\ ClosedOK'
    BY <1>1, <1>2, <1>3 DEF FlagsOK, PauseOK, ClosedOK
  <2>3. QED
    BY <2>1, <2>2 DEF FlagsOK
<1>7. QED
  BY <1>2, <1>4, <1>5, <1>6 DEF IInv

-----------------------------------------------------------------------------
(* aloG_clear.                                                             *)

(* The stack of aloG_clear in one of its passes.                           *)
LEMMA Clearing ==
  ASSUME NEW i \in {1, 2}, stack' = <<Clear(i)>>, NEW set, NEW d
  PROVE  /\ stack' \in Seq(Activation) /\ stack' # <<>> /\ StackOK(stack', set, d)
         /\ Head(stack').fn = "clear"
         /\ \A fn : Has(stack', fn) <=> fn = "clear"
         /\ Second(stack') <=> i = 2
<1>1. PICK a \in Activation : a = Clear(i) /\ a.fn = "clear" /\ a.pass = i
  <2>1. Clear(i) \in Activation /\ Clear(i).fn = "clear" /\ Clear(i).pass = i
    BY DEF Activation, Clear
  <2>2. QED
    BY <2>1
<1>2. PICK e \in Seq(Activation) : e = <<>>
  BY Nothing
<1>3. stack' = <<a>> \o e
  BY <1>1, <1>2
<1>4. /\ StackOK(e, set, d) /\ ~Second(e)
      /\ \A fn : ~Has(e, fn)
  BY <1>2, Nothing
<1>5. Placed(a, e, set, d)
  BY <1>1, <1>2 DEF Placed, Fits
<1>6. QED
  BY <1>1, <1>3, <1>4, <1>5, PushedOK

LEMMA CloseInv ==
  ASSUME IInv, Close
  PROVE  IInv'
<1>1. TypeOK /\ FlagsOK /\ stack # <<>> /\ Top.fn = "prog" /\ StackOK(stack, setting, did)
  BY DEF IInv, Close, Running
<1>2. /\ stack' = <<Clear(1)>> /\ did' = {}
      /\ UNCHANGED <<gcstep, gckind, gcrunning, fgc, nfnzobj, final, fnzable, tobefnz, setting>>
  BY DEF Close, flags, lists
<1>3. /\ stack' \in Seq(Activation) /\ stack' # <<>> /\ StackOK(stack', setting, did')
      /\ Head(stack').fn = "clear"
      /\ \A fn : Has(stack', fn) <=> fn = "clear"
      /\ ~Second(stack')
  BY <1>2, Clearing
<1>4. \A fn : Has(stack, fn) <=> fn = "prog"
  BY <1>1, TopPlaced, Nothing
<1>5. gckind # "Emergency"
  BY <1>1 DEF FlagsOK, KindOK, Running
<1>6. TypeOK'
  BY <1>1, <1>2, <1>3 DEF TypeOK
<1>7. FlagsOK'
  BY <1>1, <1>2, <1>3, <1>4, <1>5
  DEF FlagsOK, FgcOK, RunningOK, InLoops, KindOK, PauseOK, ClosedOK
<1>8. QED
  BY <1>2, <1>3, <1>6, <1>7 DEF IInv

LEMMA ClearPassInv ==
  ASSUME IInv, ClearPass
  PROVE  IInv'
<1>1. /\ TypeOK /\ FlagsOK /\ stack # <<>> /\ Top.fn = "clear" /\ StackOK(stack, setting, did)
      /\ tobefnz = <<>>
  BY DEF IInv, ClearPass, Running
<1>2. UNCHANGED <<gcstep, gckind, gcrunning, fgc, nfnzobj, final, setting, did>>
  BY DEF ClearPass, flags, history
<1>3. /\ \A fn : Has(stack, fn) <=> fn = "clear"
      /\ Second(stack) <=> Top.pass = 2
      /\ Top.pass \in {1, 2}
  BY <1>1, TopPlaced, Nothing, Fields
<1>4. gckind # "Emergency" /\ fgc = setting
  BY <1>1, <1>3 DEF FlagsOK, KindOK, Running, FgcOK
<1>5. CASE Top.pass = 1
  <2>1. stack' = <<Clear(2)>> /\ tobefnz' = fnzable /\ fnzable' = <<>>
    BY <1>5 DEF ClearPass
  <2>2. /\ stack' \in Seq(Activation) /\ stack' # <<>> /\ StackOK(stack', setting, did)
        /\ \A fn : Has(stack', fn) <=> fn = "clear"
    BY <2>1, Clearing
  <2>3. TypeOK'
    BY <1>1, <1>2, <2>1, <2>2 DEF TypeOK
  <2>4. FlagsOK'
    BY <1>1, <1>2, <1>4, <2>1, <2>2
    DEF FlagsOK, FgcOK, RunningOK, InLoops, KindOK, PauseOK, ClosedOK
  <2>5. QED
    BY <1>2, <2>2, <2>3, <2>4 DEF IInv
<1>6. CASE Top.pass = 2
  <2>1. stack' = <<>> /\ tobefnz' = tobefnz /\ fnzable' = fnzable
    BY <1>6 DEF ClearPass
  <2>2. /\ stack' \in Seq(Activation) /\ StackOK(stack', setting, did)
        /\ \A fn : ~Has(stack', fn)
    BY <2>1, Nothing
  <2>3. TypeOK'
    BY <1>1, <1>2, <2>1, <2>2 DEF TypeOK
  <2>4. FlagsOK'
    BY <1>1, <1>2, <1>3, <1>4, <1>6, <2>1, <2>2
    DEF FlagsOK, FgcOK, RunningOK, InLoops, KindOK, PauseOK, ClosedOK
  <2>5. QED
    BY <1>2, <2>2, <2>3, <2>4 DEF IInv
<1>7. QED
  BY <1>3, <1>5, <1>6

-----------------------------------------------------------------------------
(* The invariant.                                                          *)

LEMMA InitInv ==
  ASSUME Init
  PROVE  IInv
<1>1. PICK e \in Seq(Activation) : /\ e = <<>> /\ ~Second(e) /\ StackOK(e, setting, did)
                                   /\ \A fn : ~Has(e, fn)
  BY Nothing
<1>2. PICK a \in Activation : a = Prog /\ a.fn = "prog"
  <2>1. Prog \in Activation /\ Prog.fn = "prog"
    BY DEF Activation, Prog
  <2>2. QED
    BY <2>1
<1>3. stack = <<a>> \o e
  BY <1>1, <1>2 DEF Init
<1>4. Placed(a, e, setting, did)
  BY <1>1, <1>2 DEF Placed, Fits
<1>5. stack \in Seq(Activation) /\ stack # <<>> /\ StackOK(stack, setting, did)
  BY <1>1, <1>3, <1>4, StackPushed, Pushed
<1>6. \A fn : Has(stack, fn) <=> fn = "prog"
  BY <1>1, <1>2, <1>3, HasPushed
<1>7. TypeOK
  <2>1. /\ gcstep = "Pause" /\ gckind = "Normal" /\ gcrunning = FALSE /\ fgc = TRUE /\ setting = TRUE
        /\ nfnzobj \in 0..(CountLimit - 1) /\ final = {} /\ did = {}
    BY DEF Init
  <2>2. fnzable \in Seq(Object) /\ tobefnz \in Seq(Object)
    BY DEF Init
  <2>3. QED
    BY <1>5, <2>1, <2>2 DEF TypeOK
<1>8. FlagsOK
  BY <1>5, <1>6 DEF Init, FlagsOK, FgcOK, RunningOK, InLoops, KindOK, PauseOK, ClosedOK
<1>9. QED
  BY <1>5, <1>7, <1>8 DEF IInv

LEMMA StutterInv ==
  ASSUME IInv, UNCHANGED vars
  PROVE  IInv'
<1>1. UNCHANGED <<gcstep, gckind, gcrunning, fgc, nfnzobj, final, fnzable, tobefnz, stack, setting, did>>
  BY DEF vars, flags, lists, history
<1>2. TypeOK' /\ StackOK(stack, setting, did)'
  BY <1>1 DEF IInv, TypeOK
<1>3. FlagsOK'
  BY <1>1 DEF IInv, FlagsOK, FgcOK, RunningOK, KindOK, Running, Top, PauseOK, ClosedOK
<1>4. QED
  BY <1>2, <1>3 DEF IInv

(* Every step of the collector, the finalizers and the program keeps the   *)
(* invariant.                                                              *)
LEMMA NextInv ==
  ASSUME IInv, [Next]_vars
  PROVE  IInv'
<1>1. CASE Collector
  BY <1>1, GCStepInv, CallfinBeginInv, CallfinNextInv, CallfinEndInv DEF Collector
<1>2. CASE Closing
  BY <1>2, ClearNextInv, ClearPassInv DEF Closing
<1>3. CASE Return \/ Throw
  BY <1>3, ReturnInv, ThrowInv
<1>4. CASE Operation
  BY <1>4, RegisterInv, AllocInv, FullGCInv, SetStateInv, CloseInv DEF Operation
<1>5. CASE UNCHANGED vars
  BY <1>5, StutterInv
<1>6. QED
  BY <1>1, <1>2, <1>3, <1>4, <1>5 DEF Next

(* The C stack, the flags of the collector and the lists of finalizable    *)
(* objects always agree.                                                   *)
THEOREM Invariant == Spec => []IInv
<1>1. Init => IInv
  BY InitInv
<1>2. IInv /\ [Next]_vars => IInv'
  BY NextInv
<1>3. QED
  BY <1>1, <1>2, PTL DEF Spec

-----------------------------------------------------------------------------
(* What the invariant says.                                                *)

(* Every variable keeps its type: a loop of the collector that is          *)
(* interrupted is always one that gctill can go on with.                   *)
THEOREM TypeCorrect == Spec => []TypeOK
<1>1. IInv => TypeOK
  BY DEF IInv
<1>2. QED
  BY <1>1, Invariant, PTL

(* However a finalizer ends, and whatever it and the finalizers under it   *)
(* did, the program finds the collector switched on or off as it left it.  *)
THEOREM StateIsRestored == Spec => []StateRestored
<1>1. IInv => StateRestored
  <2> SUFFICES ASSUME IInv, Running("prog") PROVE fgc = setting
    BY DEF StateRestored
  <2>1. TypeOK /\ StackOK(stack, setting, did) /\ stack # <<>> /\ Top.fn = "prog"
    BY DEF IInv, Running
  <2>2. ~Has(stack, "fnz")
    BY <2>1, TopPlaced, Nothing
  <2>3. QED
    BY <2>2 DEF IInv, FlagsOK, FgcOK
<1>2. QED
  BY <1>1, Invariant, PTL

(* No loop of the collector is above another one, but for the exceptions   *)
(* of NoReentry.                                                           *)
LEMMA OneLoop ==
  ASSUME IInv, NEW i \in Entered, NEW j \in Entered, i < j
  PROVE  {"emergency", "setstate"} \subseteq did \/ "fullgc" \in did
<1>1. /\ stack \in Seq(Activation) /\ StackOK(stack, setting, did)
      /\ i \in DOMAIN stack /\ j \in DOMAIN stack
      /\ stack[i].fn = "step" \/ (stack[i].fn = "full" /\ stack[i].kind = "Normal")
      /\ stack[j].fn \in {"step", "full"}
  BY DEF IInv, TypeOK, Entered
<1>2. Len(stack) \in Nat /\ DOMAIN stack = 1..Len(stack) /\ i \in 0..Len(stack)
  BY <1>1
<1>3. PICK u : u = Under(stack, i)
  OBVIOUS
<1>4. /\ j - i \in DOMAIN u /\ u[j - i] = stack[j] /\ DOMAIN u = 1..(Len(stack) - i)
      /\ \A k \in DOMAIN u : u[k] = stack[k + i]
  BY <1>1, <1>2, <1>3, CutDomain
<1>5. Placed(stack[i], u, setting, did)
  BY <1>1, <1>3 DEF StackOK
<1>6. InLoops(u)
  BY <1>1, <1>4 DEF InLoops, Has
<1>7. "emergency" \in did \/ "fullgc" \in did
  BY <1>1, <1>5, <1>6 DEF Placed
<1>8. CASE Has(u, "fnz")
  BY <1>1, <1>5, <1>7, <1>8 DEF Placed
<1>9. CASE ~Has(u, "fnz")
  <2>1. 1 \in DOMAIN u /\ i + 1 \in DOMAIN stack /\ u[1] = stack[i + 1]
    BY <1>1, <1>2, <1>4
  <2>2. u[1].fn \in {"prog", "fnz"}
    BY <1>1, <1>5 DEF Placed, Fits
  <2>3. stack[i + 1].fn = "prog"
    BY <1>9, <2>1, <2>2 DEF Has
  <2>4. stack[i + 1] \in Activation /\ Under(stack, i + 1) \in Seq(Activation)
    BY <1>1, <1>2, <2>1, CutDomain
  <2>5. Under(stack, i + 1) = <<>>
    BY <1>1, <2>1, <2>3, <2>4, Bottom DEF StackOK
  <2>6. Len(Under(stack, i + 1)) = Len(stack) - (i + 1)
    BY <1>1, <1>2, <2>1, CutDomain
  <2>7. j = i + 1
    BY <1>1, <1>2, <2>1, <2>5, <2>6
  <2>8. QED
    BY <1>1, <2>3, <2>7
<1>10. QED
  BY <1>8, <1>9

(* The incremental collector is not entered from itself, unless a          *)
(* finalizer met an emergency collection and switched the collector on, or *)
(* asked for a full collection.                                            *)
THEOREM NotReentered == Spec => []NoReentry
<1>1. IInv => NoReentry
  <2> SUFFICES ASSUME IInv, NEW i \in Entered, NEW j \in Entered, i # j
               PROVE  {"emergency", "setstate"} \subseteq did \/ "fullgc" \in did
    BY DEF NoReentry
  <2>1. i \in Nat /\ j \in Nat
    BY DEF IInv, TypeOK, Entered
  <2>2. i < j \/ j < i
    BY <2>1
  <2>3. QED
    BY <2>2, OneLoop
<1>2. QED
  BY <1>1, Invariant, PTL

(* Closing the state calls every finalizer, unless one of them makes       *)
(* another finalizable object.                                             *)
THEOREM AllAreFinalized == Spec => []AllFinalized
<1>1. IInv => AllFinalized
  BY DEF IInv, FlagsOK, ClosedOK, AllFinalized
<1>2. QED
  BY <1>1, Invariant, PTL

(* A full collection ends in the turn of its loop that finds the cycle     *)
(* ended.                                                                  *)
LEMMA FullEnds ==
  ASSUME NEW s \in Seq(Activation), NEW a \in Activation, a.fn = "full",
         NEW step, NEW w \in {0, 1}, Loop(<<a>> \o s, step, w), stack' = s
  PROVE  step = "Pause"
<1>1. ASSUME NEW b \in Activation PROVE <<b>> \o s # s
  <2>1. Len(<<b>> \o s) = Len(s) + 1 /\ Len(s) \in Nat
    BY Pushed
  <2>2. QED
    BY <2>1
<1>2. QED
  BY <1>1, LoopCases

(* When the full collection on top returns to its caller, ...              *)
LEMMA TopFinalizes ==
  ASSUME IInv, Next, FullReturns(stack, stack')
  PROVE  tobefnz' = <<>>
<1>1. /\ TypeOK /\ StackOK(stack, setting, did) /\ FlagsOK /\ stack # <<>>
      /\ Top.fn = "full" /\ Top.kind = "Normal" /\ stack' = Below /\ stack \in Seq(Activation)
  BY DEF IInv, TypeOK, FullReturns, Top, Below
<1>2. PICK a \in Activation, s \in Seq(Activation) :
        a = Top /\ s = Below /\ stack = <<a>> \o s /\ a.fn = "full"
  BY <1>1, TopPlaced
<1>3. Len(stack') = Len(s) /\ Len(stack) = Len(s) + 1 /\ Len(s) \in Nat
  BY <1>1, <1>2, Pushed
<1>4. ~CallfinBegin
  <2> SUFFICES ASSUME CallfinBegin PROVE FALSE
    OBVIOUS
  <2>1. Callfin(nfnzobj) \in Activation
    BY <1>1 DEF TypeOK, Activation, Callfin
  <2>2. Len(stack') = Len(stack) + 1
    BY <1>1, <2>1, Pushed DEF CallfinBegin
  <2>3. QED
    BY <1>3, <2>2
<1>5. GCStep
  BY <1>1, <1>4 DEF Next, Collector, CallfinNext, CallfinEnd, Closing, ClearNext, ClearPass,
     Return, Throw, Operation, Register, Alloc, FullGC, SetState, Close, Does, Running
<1>6. PICK w \in {0, 1} : Loop(<<a>> \o s, gcstep', w)
  BY <1>2, <1>5 DEF GCStep
<1>7. gcstep' = "Pause"
  BY <1>1, <1>2, <1>6, FullEnds
<1>8. gckind # "Emergency"
  BY <1>1 DEF FlagsOK, KindOK
<1>9. QED
  BY <1>1, <1>5, <1>7, <1>8, GCStepLists DEF GCStep

(* ... and when the one under callfin does.                                *)
LEMMA UnderFinalizes ==
  ASSUME IInv, Next, Running("callfin"), FullReturns(Below, stack')
  PROVE  tobefnz' = <<>> \/ "emergency" \in did
<1>1. /\ TypeOK /\ StackOK(stack, setting, did) /\ FlagsOK /\ stack # <<>>
      /\ Top.fn = "callfin" /\ stack' = Tail(Below) /\ Below # <<>> /\ Head(Below).fn = "full"
  BY DEF IInv, FullReturns, Running
<1>2. Below \in Seq(Activation) /\ Has(stack, "callfin")
  BY <1>1, TopPlaced
<1>3. PICK b \in Activation, t \in Seq(Activation) :
        /\ Below = <<b>> \o t /\ b.fn = "full" /\ t = Tail(Below)
        /\ Len(Below) = Len(t) + 1 /\ Len(t) \in Nat
  BY <1>1, <1>2, Split
<1>4. ~CallfinNext
  <2> SUFFICES ASSUME CallfinNext PROVE FALSE
    OBVIOUS
  <2>1. PICK c \in Activation : c = Callfin(Top.c - 1)
    <3>1. Top \in Activation
      BY <1>1, TopPlaced
    <3>2. Top.c \in 0..(CountLimit - 1) /\ Top.c > 0 /\ CountLimit \in Nat
      BY <1>1, <3>1, Fields, CountAssumption DEF CallfinNext
    <3>3. Top.c - 1 \in 0..(CountLimit - 1)
      BY <3>2
    <3>4. Callfin(Top.c - 1) \in Activation
      BY <3>3 DEF Activation, Callfin
    <3>5. QED
      BY <3>4
  <2>2. PICK r \in Seq(Activation) : r = <<c>> \o Below /\ Len(r) = Len(Below) + 1
    BY <1>2, <2>1, Pushed
  <2>3. PICK o : stack' = r \/ stack' = <<Fnz(o, fgc)>> \o r
    BY <2>1, <2>2 DEF CallfinNext, CallFinalizer
  <2>4. Len(stack') >= Len(r)
    BY <2>2, <2>3
  <2>5. QED
    BY <1>1, <1>3, <2>2, <2>4
<1>5. CallfinEnd
  BY <1>1, <1>4 DEF Next, Collector, GCStep, InLoop, CallfinBegin, Closing, ClearNext,
     ClearPass, Return, Throw, Operation, Register, Alloc, FullGC, SetState, Close, Does, Running
<1>6. gcstep = "Pause"
  <2>1. PICK w \in {0, 1} : Loop(<<b>> \o t, gcstep, w)
    BY <1>3, <1>5 DEF CallfinEnd
  <2>2. QED
    BY <1>1, <1>3, <2>1, FullEnds
<1>7. tobefnz = <<>> \/ "emergency" \in did
  BY <1>1, <1>2, <1>6 DEF FlagsOK, PauseOK
<1>8. QED
  BY <1>5, <1>7 DEF CallfinEnd, lists

(* When a full collection returns, no dead object still waits for its      *)
(* finalizer, unless one of the finalizers met an emergency collection.    *)
THEOREM FullIsComplete == Spec => FullFinalizes
<1>1. IInv /\ [Next]_vars =>
        [FullReturns(stack, stack') \/ (Running("callfin") /\ FullReturns(Below, stack'))
           => tobefnz' = <<>> \/ "emergency" \in did]_vars
  BY TopFinalizes, UnderFinalizes
<1>2. QED
  BY <1>1, Invariant, PTL DEF Spec, FullFinalizes
=============================================================================
