----------------------------- MODULE StackProofs -----------------------------
(***************************************************************************)
(* Facts about the stacks of the models: sequences whose top is at index   *)
(* 1, that are pushed by <<a>> \o s and cut by SubSeq.                     *)
(***************************************************************************)
EXTENDS Naturals, Integers, Sequences, SequenceTheorems, FiniteSets, FiniteSetTheorems,
        WellFoundedInduction, TLAPS

(* What is left of a stack when i elements are popped: what is under its   *)
(* i-th element.                                                           *)
Under(s, i) == SubSeq(s, i + 1, Len(s))

(* The first element of a nonempty set of naturals exists.                 *)
LEMMA LeastExists ==
  ASSUME NEW I \in SUBSET Nat, I # {}
  PROVE  \E i \in I : \A j \in I : i <= j
<1>1. PICK i \in I : \A j \in I : <<j, i>> \notin OpToRel(<, Nat)
  BY NatLessThanWellFounded, WFMin
<1>2. \A j \in I : ~(j < i)
  BY <1>1 DEF OpToRel
<1>3. QED
  BY <1>2

LEMMA Pushed ==
  ASSUME NEW S, NEW s \in Seq(S), NEW a \in S
  PROVE  /\ <<a>> \o s \in Seq(S)
         /\ Len(<<a>> \o s) = Len(s) + 1
         /\ <<a>> \o s # <<>>
         /\ (<<a>> \o s)[1] = a
         /\ \A i \in 1..Len(s) : (<<a>> \o s)[i + 1] = s[i]
         /\ Head(<<a>> \o s) = a
         /\ Tail(<<a>> \o s) = s
<1> DEFINE p == <<a>> \o s
<1>1. <<a>> \in Seq(S) /\ Len(<<a>>) = 1 /\ <<a>>[1] = a
  OBVIOUS
<1>2. Len(s) \in Nat
  OBVIOUS
<1>3. /\ p \in Seq(S) /\ Len(p) = Len(s) + 1
      /\ \A i \in 1..(1 + Len(s)) : p[i] = IF i <= 1 THEN <<a>>[i] ELSE s[i - 1]
  BY <1>1, ConcatProperties
<1>4. p[1] = a /\ \A i \in 1..Len(s) : p[i + 1] = s[i]
  BY <1>1, <1>2, <1>3
<1>5. p # <<>>
  BY <1>2, <1>3
<1>6. Tail(p) = s
  <2>1. Tail(p) \in Seq(S) /\ Len(Tail(p)) = Len(s) /\ \A i \in 1..Len(s) : Tail(p)[i] = p[i + 1]
    BY <1>2, <1>3, <1>5, HeadTailProperties
  <2>2. QED
    BY <1>4, <2>1, SeqEqual
<1>7. Head(p) = a
  BY <1>4, <1>5
<1>8. QED
  BY <1>3, <1>4, <1>5, <1>6, <1>7

(* The elements of a stack, found from those of the stack pushed on, and   *)
(* the other way round.                                                    *)
LEMMA PushedDomain ==
  ASSUME NEW S, NEW s \in Seq(S), NEW a \in S
  PROVE  /\ Len(s) \in Nat /\ DOMAIN s = 1..Len(s)
         /\ DOMAIN (<<a>> \o s) = 1..(Len(s) + 1) /\ 1 \in DOMAIN (<<a>> \o s)
         /\ \A i \in DOMAIN s : i + 1 \in DOMAIN (<<a>> \o s) /\ (<<a>> \o s)[i + 1] = s[i]
         /\ \A i \in DOMAIN (<<a>> \o s) : i # 1 =>
              i - 1 \in DOMAIN s /\ (<<a>> \o s)[i] = s[i - 1]
<1> DEFINE p == <<a>> \o s
<1>1. /\ Len(s) \in Nat /\ p \in Seq(S) /\ Len(p) = Len(s) + 1
      /\ \A i \in 1..Len(s) : p[i + 1] = s[i]
  BY Pushed
<1> HIDE DEF p
<1>2. DOMAIN p = 1..(Len(s) + 1) /\ DOMAIN s = 1..Len(s)
  BY <1>1
<1>3. ASSUME NEW i \in DOMAIN p, i # 1
      PROVE  i - 1 \in DOMAIN s /\ p[i] = s[i - 1]
  <2>1. i - 1 \in 1..Len(s) /\ (i - 1) + 1 = i
    BY <1>1, <1>2, <1>3
  <2>2. QED
    BY <1>1, <1>2, <2>1
<1>4. 1 \in DOMAIN p /\ \A i \in DOMAIN s : i + 1 \in DOMAIN p /\ p[i + 1] = s[i]
  BY <1>1, <1>2
<1>5. QED
  BY <1>1, <1>2, <1>3, <1>4 DEF p

LEMMA Cut ==
  ASSUME NEW S, NEW s \in Seq(S), NEW k \in 0..Len(s)
  PROVE  /\ Under(s, k) \in Seq(S)
         /\ Len(Under(s, k)) = Len(s) - k
         /\ \A i \in 1..(Len(s) - k) : Under(s, k)[i] = s[i + k]
         /\ \A i \in 0..(Len(s) - k) : Under(Under(s, k), i) = Under(s, i + k)
<1>1. ASSUME NEW j \in 0..Len(s)
      PROVE  /\ Under(s, j) \in Seq(S)
             /\ Len(Under(s, j)) = Len(s) - j
             /\ \A i \in 1..(Len(s) - j) : Under(s, j)[i] = s[i + j]
  <2>1. Len(s) \in Nat /\ \A i \in (j + 1)..Len(s) : s[i] \in S
    OBVIOUS
  <2>2. /\ SubSeq(s, j + 1, Len(s)) \in Seq(S)
        /\ Len(SubSeq(s, j + 1, Len(s))) = IF j + 1 <= Len(s) THEN Len(s) - (j + 1) + 1 ELSE 0
        /\ \A i \in 1..(Len(s) - (j + 1) + 1) : SubSeq(s, j + 1, Len(s))[i] = s[(j + 1) + i - 1]
    BY <2>1, SubSeqProperties
  <2>3. QED
    BY <2>1, <2>2 DEF Under
<1>2. ASSUME NEW i \in 0..(Len(s) - k)
      PROVE  Under(Under(s, k), i) = Under(s, i + k)
  <2> DEFINE u == Under(s, k)
  <2>0. Len(s) \in Nat
    OBVIOUS
  <2>1. u \in Seq(S) /\ Len(u) = Len(s) - k /\ \A j \in 1..(Len(s) - k) : u[j] = s[j + k]
    BY <1>1
  <2>2. i + k \in 0..Len(s)
    BY <2>0
  <2>3. /\ Under(s, i + k) \in Seq(S) /\ Len(Under(s, i + k)) = Len(s) - (i + k)
        /\ \A j \in 1..(Len(s) - (i + k)) : Under(s, i + k)[j] = s[j + (i + k)]
    BY <1>1, <2>2
  <2>4. Len(u) \in Nat /\ \A j \in (i + 1)..Len(u) : u[j] \in S
    BY <2>0, <2>1
  <2>5. /\ SubSeq(u, i + 1, Len(u)) \in Seq(S)
        /\ Len(SubSeq(u, i + 1, Len(u))) = IF i + 1 <= Len(u) THEN Len(u) - (i + 1) + 1 ELSE 0
        /\ \A j \in 1..(Len(u) - (i + 1) + 1) : SubSeq(u, i + 1, Len(u))[j] = u[(i + 1) + j - 1]
    BY <2>4, SubSeqProperties
  <2>6. /\ Under(u, i) \in Seq(S) /\ Len(Under(u, i)) = Len(s) - (i + k)
        /\ \A j \in 1..(Len(s) - (i + k)) : Under(u, i)[j] = s[j + (i + k)]
    BY <2>0, <2>1, <2>5 DEF Under
  <2>7. QED
    BY <2>3, <2>6, SeqEqual
<1>3. QED
  BY <1>1, <1>2

(* Nothing is under what is under nothing: a whole stack.                  *)
LEMMA UnderNothing ==
  ASSUME NEW S, NEW s \in Seq(S)
  PROVE  Under(s, 0) = s
BY SubSeqFull DEF Under

LEMMA UnderTop ==
  ASSUME NEW S, NEW s \in Seq(S), s # <<>>
  PROVE  /\ Len(s) \in Nat \ {0} /\ 1 \in DOMAIN s
         /\ Tail(s) = Under(s, 1)
         /\ Head(s) = s[1] /\ s[1] \in S
         /\ Tail(s) \in Seq(S) /\ Len(Tail(s)) = Len(s) - 1
         /\ \A i \in 1..(Len(s) - 1) : Tail(s)[i] = s[i + 1]
<1>1. Len(s) \in Nat \ {0}
  BY EmptySeq
<1>2. Tail(s) = Under(s, 1)
  BY TailIsSubSeq DEF Under
<1>3. QED
  BY <1>1, <1>2, HeadTailProperties

LEMMA PushedUnder ==
  ASSUME NEW S, NEW s \in Seq(S), NEW a \in S, NEW i \in 0..Len(s)
  PROVE  Under(<<a>> \o s, i + 1) = Under(s, i)
<1> DEFINE p == <<a>> \o s
<1>0. Len(s) \in Nat
  OBVIOUS
<1>1. p \in Seq(S) /\ Len(p) = Len(s) + 1 /\ p # <<>> /\ Tail(p) = s
  BY Pushed
<1>2. Under(p, 1) = s
  BY <1>1, UnderTop
<1>3. 1 \in 0..Len(p) /\ i \in 0..(Len(p) - 1)
  BY <1>0, <1>1
<1>4. Under(Under(p, 1), i) = Under(p, i + 1)
  BY <1>1, <1>3, Cut
<1>5. QED
  BY <1>2, <1>4

LEMMA Rebuilt ==
  ASSUME NEW S, NEW s \in Seq(S), NEW k \in 1..Len(s)
  PROVE  /\ s[k] \in S
         /\ Under(s, k) \in Seq(S)
         /\ <<s[k]>> \o Under(s, k) = Under(s, k - 1)
<1>1. Len(s) \in Nat /\ k - 1 \in 0..Len(s) /\ k \in 0..Len(s) /\ Len(s) \in k..Len(s)
  OBVIOUS
<1>2. SubSeq(s, k, Len(s)) = <<s[k]>> \o SubSeq(s, k + 1, Len(s))
  BY <1>1, SubSeqRecursiveFirst
<1>3. Under(s, k - 1) = SubSeq(s, k, Len(s))
  BY <1>1 DEF Under
<1>4. QED
  BY <1>1, <1>2, <1>3, Cut DEF Under

LEMMA CutDomain ==
  ASSUME NEW S, NEW s \in Seq(S), NEW k \in 0..Len(s)
  PROVE  /\ Len(s) \in Nat /\ k \in Nat /\ k <= Len(s) /\ DOMAIN s = 1..Len(s)
         /\ Under(s, k) \in Seq(S) /\ Len(Under(s, k)) = Len(s) - k
         /\ DOMAIN Under(s, k) = 1..(Len(s) - k)
         /\ \A i \in DOMAIN Under(s, k) :
              i \in Nat /\ i + k \in DOMAIN s /\ i + k > k /\ Under(s, k)[i] = s[i + k]
         /\ \A i \in DOMAIN s : i > k => i - k \in DOMAIN Under(s, k) /\ Under(s, k)[i - k] = s[i]
<1>1. Len(s) \in Nat /\ k \in Nat /\ k <= Len(s) /\ DOMAIN s = 1..Len(s)
  OBVIOUS
<1>2. /\ Under(s, k) \in Seq(S) /\ Len(Under(s, k)) = Len(s) - k
      /\ \A i \in 1..(Len(s) - k) : Under(s, k)[i] = s[i + k]
  BY Cut
<1>3. DOMAIN Under(s, k) = 1..(Len(s) - k)
  BY <1>2
<1>4. ASSUME NEW i \in DOMAIN s, i > k
      PROVE  i - k \in DOMAIN Under(s, k) /\ Under(s, k)[i - k] = s[i]
  <2>1. i - k \in 1..(Len(s) - k) /\ (i - k) + k = i
    BY <1>1, <1>4
  <2>2. QED
    BY <1>2, <1>3, <2>1
<1>5. \A i \in DOMAIN Under(s, k) :
        i \in Nat /\ i + k \in DOMAIN s /\ i + k > k /\ Under(s, k)[i] = s[i + k]
  BY <1>1, <1>2, <1>3
<1>6. QED
  BY <1>1, <1>2, <1>3, <1>4, <1>5

LEMMA Popped ==
  ASSUME NEW S, NEW s \in Seq(S), s # <<>>
  PROVE  /\ Len(s) \in Nat \ {0} /\ 1 \in DOMAIN s /\ Head(s) = s[1] /\ s[1] \in S
         /\ Tail(s) = Under(s, 1) /\ s = <<s[1]>> \o Under(s, 1)
         /\ Under(s, 1) \in Seq(S) /\ Len(Under(s, 1)) = Len(s) - 1
         /\ \A i \in DOMAIN Under(s, 1) : i + 1 \in DOMAIN s /\ Under(s, 1)[i] = s[i + 1]
         /\ \A i \in DOMAIN s : i # 1 => i - 1 \in DOMAIN Under(s, 1) /\ Under(s, 1)[i - 1] = s[i]
<1>1. /\ Len(s) \in Nat \ {0} /\ 1 \in DOMAIN s /\ Head(s) = s[1] /\ s[1] \in S
      /\ Tail(s) = Under(s, 1)
  BY UnderTop
<1>2. PICK k \in 0..Len(s) : k = 1
  BY <1>1
<1>3. /\ Len(s) \in Nat /\ DOMAIN s = 1..Len(s)
      /\ Under(s, k) \in Seq(S) /\ Len(Under(s, k)) = Len(s) - k
      /\ \A i \in DOMAIN Under(s, k) : i + k \in DOMAIN s /\ Under(s, k)[i] = s[i + k]
      /\ \A i \in DOMAIN s : i > k => i - k \in DOMAIN Under(s, k) /\ Under(s, k)[i - k] = s[i]
  BY CutDomain
<1>4. PICK l \in 1..Len(s) : l = 1
  BY <1>1
<1>5. <<s[l]>> \o Under(s, l) = Under(s, l - 1)
  BY Rebuilt
<1>6. s = <<s[1]>> \o Under(s, 1)
  BY <1>4, <1>5, UnderNothing
<1>7. \A i \in DOMAIN s : i # 1 => i > 1
  BY <1>3
<1>8. QED
  BY <1>1, <1>2, <1>3, <1>6, <1>7
==============================================================================
