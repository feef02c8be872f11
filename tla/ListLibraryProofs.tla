--------------------------- MODULE ListLibraryProofs ---------------------------
(***************************************************************************)
(* Proofs about ListLibrary: of sort, for every list it may be called      *)
(* with that is too short to be split into runs, every threshold and every *)
(* comparator; of map, filter and the folds, for every list.               *)
(*                                                                         *)
(* While sort inserts elements, they are on the stack and in the list: the *)
(* invariant names the position each came from, says that these positions  *)
(* and those still to be taken are the ones that will be written back,     *)
(* each once, and that every range that waits is within the list.  What    *)
(* is written back is then a rearrangement, which is what `Moved' says.    *)
(*                                                                         *)
(* While map, filter or a fold runs, the elements it has still to read are *)
(* as they were at the call, and its result is the answer for those it has *)
(* read (EachInv).                                                         *)
(***************************************************************************)
EXTENDS ListLibrary, StackProofs, FunctionTheorems

(* l2 has the elements of l1 in other places: the element at i was at q[i]. *)
Rearranges(q, n) == /\ q \in [1..n -> 1..n]
                    /\ \A i, j \in 1..n : q[i] = q[j] => i = j
                    /\ \A j \in 1..n : \E i \in 1..n : q[i] = j
Moved(l1, l2) == /\ Len(l2) = Len(l1)
                 /\ \E q \in [1..Len(l1) -> 1..Len(l1)] :
                      Rearranges(q, Len(l1)) /\ \A i \in 1..Len(l1) : l2[i] = l1[q[i]]

(* Elements that only change places occur as often as before.               *)
LEMMA MovedOccurrences ==
  ASSUME NEW S, NEW l1 \in Seq(S), NEW l2 \in Seq(S), Moved(l1, l2), NEW x
  PROVE  Occurrences(l2, x) = Occurrences(l1, x)
<1> DEFINE n == Len(l1)
           A == {i \in DOMAIN l1 : l1[i] = x}
           B == {i \in DOMAIN l2 : l2[i] = x}
<1>1. n \in Nat /\ DOMAIN l1 = 1..n /\ DOMAIN l2 = 1..n
  BY DEF Moved
<1>2. PICK q \in [1..n -> 1..n] : Rearranges(q, n) /\ \A i \in 1..n : l2[i] = l1[q[i]]
  BY DEF Moved
<1> DEFINE f == [i \in B |-> q[i]]
<1>3. f \in Bijection(B, A)
  <2>1. f \in [B -> A]
    BY <1>1, <1>2
  <2>2. \A i, j \in B : f[i] = f[j] => i = j
    BY <1>1, <1>2 DEF Rearranges
  <2>3. \A j \in A : \E i \in B : f[i] = j
    <3>1. TAKE j \in A
    <3>2. PICK i \in 1..n : q[i] = j
      BY <1>1, <1>2 DEF Rearranges
    <3>3. i \in B
      BY <1>1, <1>2, <3>2
    <3>4. QED
      BY <3>2, <3>3
  <2> HIDE DEF f, A, B
  <2>4. QED
    BY <2>1, <2>2, <2>3, Fun_IsBij
<1>4. IsFiniteSet(B)
  <2>1. IsFiniteSet(1..n)
    BY <1>1, FS_Interval
  <2>2. B \subseteq 1..n
    BY <1>1
  <2>3. QED
    BY <2>1, <2>2, FS_Subset
<1>5. Cardinality(A) = Cardinality(B)
  <2> HIDE DEF f, A, B
  <2>1. ExistsBijection(B, A)
    BY <1>3 DEF ExistsBijection
  <2>2. QED
    BY <1>4, <2>1, FS_Bijection
<1>6. QED
  BY <1>5 DEF Occurrences

(* An element appended to both lists occurs once more in both.             *)
LEMMA AppendedOccurrences ==
  ASSUME NEW S, NEW l \in Seq(S), NEW e \in S, NEW x
  PROVE  Occurrences(Append(l, e), x) = Occurrences(l, x) + (IF e = x THEN 1 ELSE 0)
<1> DEFINE n == Len(l)
           A == {i \in DOMAIN l : l[i] = x}
           B == {i \in DOMAIN Append(l, e) : Append(l, e)[i] = x}
<1>1. /\ n \in Nat /\ DOMAIN l = 1..n /\ DOMAIN Append(l, e) = 1..(n + 1)
      /\ Append(l, e)[n + 1] = e /\ \A i \in 1..n : Append(l, e)[i] = l[i]
  BY AppendProperties
<1>2. IsFiniteSet(A) /\ n + 1 \notin A /\ Cardinality(A) \in Nat
  <2>1. IsFiniteSet(1..n)
    <3>1. 1 \in Int /\ n \in Int
      BY <1>1
    <3> HIDE DEF n
    <3>2. QED
      BY <3>1, FS_Interval
  <2>2. A \subseteq 1..n
    BY <1>1
  <2>3. n + 1 \notin 1..n
    BY <1>1
  <2>4. QED
    BY <2>1, <2>2, <2>3, FS_Subset, FS_CardinalityType
<1>3. B = IF e = x THEN A \cup {n + 1} ELSE A
  <2>1. 1..(n + 1) = 1..n \cup {n + 1}
    BY <1>1
  <2>2. QED
    BY <1>1, <2>1
<1>4. Cardinality(B) = Cardinality(A) + (IF e = x THEN 1 ELSE 0)
  <2> HIDE DEF A, B
  <2>1. CASE e = x
    <3>1. Cardinality(A \cup {n + 1}) = Cardinality(A) + 1
      BY <1>2, FS_AddElement
    <3>2. QED
      BY <1>3, <2>1, <3>1
  <2>2. CASE e # x
    BY <1>2, <1>3, <2>2
  <2>3. QED
    BY <2>1, <2>2
<1>5. QED
  BY <1>4 DEF Occurrences

(* Two elements change places.                                             *)
LEMMA SwapMoves ==
  ASSUME NEW S, NEW l \in Seq(S), NEW i \in 0..(Len(l) - 1), NEW j \in 0..(Len(l) - 1), i # j,
         NEW m, m = Put(Put(l, i, l[j + 1]), j, l[i + 1])
  PROVE  m \in Seq(S) /\ Len(m) = Len(l) /\ Moved(l, m)
<1> DEFINE n == Len(l)
           q == [k \in 1..n |-> IF k = i + 1 THEN j + 1 ELSE IF k = j + 1 THEN i + 1 ELSE k]
<1>1. n \in Nat /\ DOMAIN l = 1..n /\ i + 1 \in 1..n /\ j + 1 \in 1..n /\ i + 1 # j + 1
  OBVIOUS
<1>2. l[i + 1] \in S /\ l[j + 1] \in S
  BY <1>1
<1>3. m \in Seq(S) /\ Len(m) = n
  <2>1. PICK p : p = Put(l, i, l[j + 1])
    OBVIOUS
  <2>2. p \in Seq(S) /\ Len(p) = n
    BY <1>1, <1>2, <2>1, ExceptSeq DEF Put
  <2>3. m = Put(p, j, l[i + 1])
    BY <2>1
  <2>4. j + 1 \in 1..Len(p)
    BY <1>1, <2>2
  <2>5. QED
    BY <1>2, <2>2, <2>3, <2>4, ExceptSeq DEF Put
<1>4. \A k \in 1..n : m[k] = l[q[k]]
  BY <1>1 DEF Put
<1>5. Rearranges(q, n)
  <2>1. q \in [1..n -> 1..n]
    BY <1>1
  <2>2. ASSUME NEW a \in 1..n, NEW b \in 1..n, q[a] = q[b] PROVE a = b
    BY <1>1, <2>2
  <2>3. \A b \in 1..n : \E a \in 1..n : q[a] = b
    <3>1. TAKE b \in 1..n
    <3>2. CASE b = i + 1
      BY <1>1, <3>2
    <3>3. CASE b = j + 1
      BY <1>1, <3>3
    <3>4. CASE b # i + 1 /\ b # j + 1
      BY <1>1, <3>4
    <3>5. QED
      BY <3>2, <3>3, <3>4
  <2> HIDE DEF q
  <2>4. QED
    BY <2>1, <2>2, <2>3 DEF Rearranges
<1>6. q \in [1..n -> 1..n]
  BY <1>5 DEF Rearranges
<1> HIDE DEF q
<1>7. QED
  BY <1>3, <1>4, <1>5, <1>6 DEF Moved

(* What set2 does with the elements of the two positions it writes.        *)
LEMMA Set2Moves ==
  ASSUME NEW S, list \in Seq(S), NEW i \in 0..(Len(list) - 1), NEW j \in 0..(Len(list) - 1), i # j,
         NEW s \in Seq(S), s[Len(s)] = At(j), s[Len(s) - 1] = At(i)
  PROVE  Set2(s, i, j) \in Seq(S) /\ Len(Set2(s, i, j)) = Len(list) /\ Moved(list, Set2(s, i, j))
<1>1. Set2(s, i, j) = Put(Put(list, i, list[j + 1]), j, list[i + 1])
  BY DEF Set2, At
<1>2. QED
  BY <1>1, SwapMoves

-----------------------------------------------------------------------------
(* The stack of an insertion.                                              *)

Distinct(s) == \A i, j \in 1..Len(s) : s[i] = s[j] => i = j
In(x, s) == \E k \in 1..Len(s) : s[k] = x

(* The stack s has the elements that were at the positions src of l; those *)
(* are the positions of back which are not in todo.                        *)
Sources(s, l, src) == /\ src \in Seq(Int) /\ Len(src) = Len(s)
                      /\ \A k \in 1..Len(s) : src[k] \in 0..(Len(l) - 1) /\ s[k] = l[src[k] + 1]
Shared(src, todo, back) == /\ Distinct(src) /\ Distinct(todo) /\ Distinct(back)
                           /\ \A k \in 1..Len(src) : In(src[k], back) /\ ~In(src[k], todo)
                           /\ \A k \in 1..Len(todo) : In(todo[k], back)
                           /\ \A k \in 1..Len(back) : In(back[k], src) \/ In(back[k], todo)

(* Where an element comes from that is written back.                       *)
LEMMA WrittenAt ==
  ASSUME NEW S, NEW l \in Seq(S), NEW s \in Seq(S), NEW back \in Seq(Int), Distinct(back)
  PROVE  /\ DOMAIN WrittenBack(l, s, back) = DOMAIN l
         /\ \A i \in DOMAIN l, k \in 1..Len(back) :
              back[k] = i - 1 => WrittenBack(l, s, back)[i] = s[Len(s) - k + 1]
         /\ \A i \in DOMAIN l : ~In(i - 1, back) => WrittenBack(l, s, back)[i] = l[i]
<1>1. DOMAIN back = 1..Len(back) /\ Len(back) \in Nat
  OBVIOUS
<1>2. ASSUME NEW i \in DOMAIN l, NEW k \in 1..Len(back), back[k] = i - 1
      PROVE  WrittenBack(l, s, back)[i] = s[Len(s) - k + 1]
  <2>1. {j \in DOMAIN back : back[j] = i - 1} = {k}
    BY <1>1, <1>2 DEF Distinct
  <2>2. Max({k}) = k
    BY <1>1 DEF Max
  <2>3. QED
    BY <2>1, <2>2 DEF WrittenBack
<1>3. ASSUME NEW i \in DOMAIN l, ~In(i - 1, back)
      PROVE  WrittenBack(l, s, back)[i] = l[i]
  <2>1. {j \in DOMAIN back : back[j] = i - 1} = {}
    BY <1>1, <1>3 DEF In
  <2>2. QED
    BY <2>1 DEF WrittenBack
<1>4. DOMAIN WrittenBack(l, s, back) = DOMAIN l
  BY DEF WrittenBack
<1>5. QED
  BY <1>2, <1>3, <1>4

(* Writing back rearranges the list.                                       *)
LEMMA WrittenBackMoves ==
  ASSUME NEW S, NEW l \in Seq(S), NEW s \in Seq(S), NEW back \in Seq(Int), NEW src, NEW todo,
         Sources(s, l, src), Shared(src, todo, back), todo = <<>>, Len(back) = Len(s)
  PROVE  /\ WrittenBack(l, s, back) \in Seq(S)
         /\ Len(WrittenBack(l, s, back)) = Len(l)
         /\ Moved(l, WrittenBack(l, s, back))
<1> DEFINE n == Len(l)
           m == Len(s)
           w == WrittenBack(l, s, back)
<1>1. n \in Nat /\ m \in Nat /\ DOMAIN l = 1..n /\ Len(src) = m /\ Len(back) = m
  BY DEF Sources
<1>2. /\ DOMAIN w = 1..n
      /\ \A i \in 1..n, k \in 1..m : back[k] = i - 1 => w[i] = s[m - k + 1]
      /\ \A i \in 1..n : ~In(i - 1, back) => w[i] = l[i]
  <2>1. Distinct(back)
    BY DEF Shared
  <2>2. /\ DOMAIN w = DOMAIN l
        /\ \A i \in DOMAIN l, k \in 1..Len(back) : back[k] = i - 1 => w[i] = s[Len(s) - k + 1]
        /\ \A i \in DOMAIN l : ~In(i - 1, back) => w[i] = l[i]
    BY <2>1, WrittenAt
  <2> HIDE DEF w
  <2>3. QED
    BY <1>1, <2>2
<1>3. /\ \A k \in 1..m : src[k] \in 0..(n - 1) /\ s[k] = l[src[k] + 1]
      /\ \A j, k \in 1..m : src[j] = src[k] => j = k
      /\ \A j, k \in 1..m : back[j] = back[k] => j = k
      /\ \A k \in 1..m : \E j \in 1..m : back[j] = src[k]
      /\ \A k \in 1..m : \E j \in 1..m : src[j] = back[k]
      /\ \A k \in 1..m : back[k] \in 0..(n - 1)
  <2>1. \A x : ~In(x, todo)
    BY DEF In
  <2>2. /\ \A k \in 1..m : src[k] \in 0..(n - 1) /\ s[k] = l[src[k] + 1]
        /\ \A j, k \in 1..m : src[j] = src[k] => j = k
        /\ \A j, k \in 1..m : back[j] = back[k] => j = k
        /\ \A k \in 1..m : \E j \in 1..m : back[j] = src[k]
        /\ \A k \in 1..m : \E j \in 1..m : src[j] = back[k]
    BY <1>1, <2>1 DEF Sources, Shared, Distinct, In
  <2>3. \A k \in 1..m : back[k] \in 0..(n - 1)
    BY <2>2
  <2>4. QED
    BY <2>2, <2>3
<1>4. \A i \in 1..n : \E j \in 1..n :
        \/ \E k \in 1..m : back[k] = i - 1 /\ j = src[m - k + 1] + 1
        \/ ~In(i - 1, back) /\ j = i
  <2>1. TAKE i \in 1..n
  <2>2. CASE In(i - 1, back)
    <3>1. PICK k \in 1..m : back[k] = i - 1
      BY <1>1, <2>2 DEF In
    <3>2. PICK h \in 1..m : h = m - k + 1
      <4>1. m - k + 1 \in 1..m
        BY <1>1
      <4>2. QED
        BY <4>1
    <3>3. src[h] \in 0..(n - 1)
      BY <1>3
    <3>4. src[h] + 1 \in 1..n
      BY <1>1, <3>3
    <3>5. QED
      BY <3>1, <3>2, <3>4
  <2>3. CASE ~In(i - 1, back)
    BY <2>3
  <2>4. QED
    BY <2>2, <2>3
<1> DEFINE Q(i, j) == \/ \E k \in 1..m : back[k] = i - 1 /\ j = src[m - k + 1] + 1
                      \/ ~In(i - 1, back) /\ j = i
           q == [i \in 1..n |-> CHOOSE j \in 1..n : Q(i, j)]
<1>5. q \in [1..n -> 1..n] /\ \A i \in 1..n : Q(i, q[i])
  <2> HIDE DEF Q
  <2>1. \A i \in 1..n : \E j \in 1..n : Q(i, j)
    BY <1>4 DEF Q
  <2>2. QED
    BY <2>1
<1> HIDE DEF q, w, n, m
<1>6. \A i \in 1..n : w[i] = l[q[i]]
  <2>1. TAKE i \in 1..n
  <2>2. CASE \E k \in 1..m : back[k] = i - 1 /\ q[i] = src[m - k + 1] + 1
    <3>1. PICK k \in 1..m : back[k] = i - 1 /\ q[i] = src[m - k + 1] + 1
      BY <2>2
    <3>2. m - k + 1 \in 1..m
      BY <1>1
    <3>3. w[i] = s[m - k + 1] /\ s[m - k + 1] = l[src[m - k + 1] + 1]
      BY <1>2, <1>3, <3>1, <3>2
    <3>4. QED
      BY <3>1, <3>3
  <2>3. CASE ~In(i - 1, back) /\ q[i] = i
    BY <1>2, <2>3
  <2>4. QED
    BY <1>5, <2>2, <2>3 DEF Q
<1>7. ASSUME NEW a \in 1..n, NEW b \in 1..n, q[a] = q[b] PROVE a = b
  <2>1. CASE In(a - 1, back) /\ In(b - 1, back)
    <3>1. PICK j \in 1..m : back[j] = a - 1 /\ q[a] = src[m - j + 1] + 1
      BY <1>5, <2>1 DEF Q
    <3>2. PICK k \in 1..m : back[k] = b - 1 /\ q[b] = src[m - k + 1] + 1
      BY <1>5, <2>1 DEF Q
    <3>3. PICK g \in 1..m, h \in 1..m : g = m - j + 1 /\ h = m - k + 1
      BY <1>1
    <3>4. src[g] \in 0..(n - 1) /\ src[h] \in 0..(n - 1)
      BY <1>3
    <3>5. src[g] + 1 = src[h] + 1
      BY <1>7, <3>1, <3>2, <3>3
    <3>6. src[g] = src[h]
      BY <1>1, <3>4, <3>5
    <3>7. g = h
      BY <1>3, <3>6
    <3>8. j = k
      BY <1>1, <3>3, <3>7
    <3>9. QED
      BY <3>1, <3>2, <3>8
  <2>2. ASSUME NEW c \in 1..n, In(c - 1, back) PROVE In(q[c] - 1, back)
    <3>1. PICK k \in 1..m : back[k] = c - 1 /\ q[c] = src[m - k + 1] + 1
      BY <1>5, <2>2 DEF Q
    <3>2. PICK h \in 1..m : h = m - k + 1
      BY <1>1
    <3>3. src[h] \in Int
      BY <1>1, <1>3
    <3>4. q[c] - 1 = src[h]
      BY <3>1, <3>2, <3>3
    <3>5. \E j \in 1..m : back[j] = src[h]
      BY <1>3
    <3>6. QED
      BY <1>1, <3>4, <3>5 DEF In
  <2>3. ASSUME NEW c \in 1..n, ~In(c - 1, back) PROVE q[c] = c
    BY <1>5, <2>3 DEF Q, In, m
  <2>4. CASE ~In(a - 1, back) /\ ~In(b - 1, back)
    BY <1>7, <2>3, <2>4
  <2>5. CASE In(a - 1, back) /\ ~In(b - 1, back)
    BY <1>7, <2>2, <2>3, <2>5
  <2>6. CASE ~In(a - 1, back) /\ In(b - 1, back)
    BY <1>7, <2>2, <2>3, <2>6
  <2>7. QED
    BY <2>1, <2>4, <2>5, <2>6
<1>8. \A j \in 1..n : \E i \in 1..n : q[i] = j
  <2>1. TAKE j \in 1..n
  <2>2. CASE In(j - 1, back)
    <3>1. PICK k \in 1..m : back[k] = j - 1
      BY <1>1, <2>2 DEF In
    <3>2. PICK h \in 1..m : src[h] = j - 1
      BY <1>3, <3>1
    <3>3. PICK f \in 1..m : f = m - h + 1 /\ m - f + 1 = h
      BY <1>1
    <3>4. back[f] \in 0..(n - 1)
      BY <1>3
    <3>5. PICK i \in 1..n : i - 1 = back[f]
      <4>1. back[f] + 1 \in 1..n /\ (back[f] + 1) - 1 = back[f]
        BY <1>1, <3>4
      <4>2. QED
        BY <4>1
    <3>6. PICK g \in 1..m : back[g] = i - 1 /\ q[i] = src[m - g + 1] + 1
      <4>1. In(i - 1, back)
        BY <1>1, <3>5 DEF In
      <4>2. QED
        BY <1>5, <4>1 DEF Q
    <3>7. g = f
      BY <1>3, <3>5, <3>6
    <3>8. q[i] = j
      BY <1>1, <3>2, <3>3, <3>6, <3>7
    <3>9. QED
      BY <3>8
  <2>3. CASE ~In(j - 1, back)
    BY <1>5, <2>3 DEF Q, In, m
  <2>4. QED
    BY <2>2, <2>3
<1>9. Rearranges(q, n)
  BY <1>5, <1>7, <1>8 DEF Rearranges
<1>10. w \in Seq(S) /\ Len(w) = n
  <2>1. \A i \in 1..n : w[i] \in S
    BY SMTT(40), <1>1, <1>5, <1>6
  <2>2. w \in [1..n -> S]
    <3>1. w = [i \in 1..n |-> w[i]]
      BY <1>1, <1>2 DEF w, WrittenBack
    <3>2. QED
      BY <2>1, <3>1
  <2>3. QED
    BY <1>1, <2>2
<1>11. QED
  BY <1>5, <1>6, <1>9, <1>10 DEF Moved, n, w

(* r is s with its last element put at the place p.                        *)
PutAt(r, s, p) ==
  /\ Len(r) = Len(s)
  /\ \A k \in 1..Len(s) : r[k] = IF k < p THEN s[k] ELSE IF k = p THEN s[Len(s)] ELSE s[k - 1]

(* alo_insert: the top goes to a place below it.                           *)
LEMMA InsertedAt ==
  ASSUME NEW S, NEW s \in Seq(S), NEW p \in 1..Len(s),
         NEW r, r = InsertAt(Drop(s, 1), p, Last(s))
  PROVE  r \in Seq(S) /\ PutAt(r, s, p)
<1> DEFINE n == Len(s)
<1>1. n \in Nat /\ p \in Nat /\ 1 <= p /\ p <= n /\ s[n] \in S /\ DOMAIN s = 1..n
  OBVIOUS
<1>2. PICK d : d = Drop(s, 1)
  OBVIOUS
<1>3. d \in Seq(S) /\ Len(d) = n - 1 /\ \A k \in 1..(n - 1) : d[k] = s[k]
  <2>1. \A i \in 1..(n - 1) : s[i] \in S
    BY <1>1
  <2>2. /\ SubSeq(s, 1, n - 1) \in Seq(S)
        /\ Len(SubSeq(s, 1, n - 1)) = IF 1 <= n - 1 THEN n - 1 - 1 + 1 ELSE 0
        /\ \A i \in 1..(n - 1 - 1 + 1) : SubSeq(s, 1, n - 1)[i] = s[1 + i - 1]
    BY <1>1, <2>1, SubSeqProperties
  <2>3. QED
    BY <1>1, <1>2, <2>2 DEF Drop
<1>4. PICK b : b = SubSeq(d, 1, p - 1)
  OBVIOUS
<1>5. b \in Seq(S) /\ Len(b) = p - 1 /\ \A k \in 1..(p - 1) : b[k] = s[k]
  <2>1. \A i \in 1..(p - 1) : d[i] \in S /\ i \in 1..(n - 1)
    BY <1>1, <1>3
  <2>2. /\ SubSeq(d, 1, p - 1) \in Seq(S)
        /\ Len(SubSeq(d, 1, p - 1)) = IF 1 <= p - 1 THEN p - 1 - 1 + 1 ELSE 0
        /\ \A i \in 1..(p - 1 - 1 + 1) : SubSeq(d, 1, p - 1)[i] = d[1 + i - 1]
    BY <1>1, <1>3, <2>1, SubSeqProperties
  <2>3. \A i \in 1..(p - 1) : i \in 1..(p - 1 - 1 + 1) /\ 1 + i - 1 = i
    BY <1>1
  <2>4. QED
    BY <1>1, <1>3, <1>4, <2>1, <2>2, <2>3
<1>6. PICK a : a = SubSeq(d, p, Len(d))
  OBVIOUS
<1>7. a \in Seq(S) /\ Len(a) = n - p /\ \A k \in 1..(n - p) : a[k] = s[p + k - 1]
  <2>1. \A i \in p..(n - 1) : d[i] \in S
    BY <1>1, <1>3
  <2>2. /\ SubSeq(d, p, n - 1) \in Seq(S)
        /\ Len(SubSeq(d, p, n - 1)) = IF p <= n - 1 THEN n - 1 - p + 1 ELSE 0
        /\ \A i \in 1..(n - 1 - p + 1) : SubSeq(d, p, n - 1)[i] = d[p + i - 1]
    BY <1>1, <1>3, <2>1, SubSeqProperties
  <2>3. \A k \in 1..(n - p) : k \in 1..(n - 1 - p + 1) /\ p + k - 1 \in 1..(n - 1)
    BY <1>1
  <2>4. a \in Seq(S) /\ a = SubSeq(d, p, n - 1)
    BY <1>3, <1>6, <2>2
  <2>5. Len(a) = n - p
    <3> HIDE DEF n
    <3>1. Len(a) = IF p <= n - 1 THEN n - 1 - p + 1 ELSE 0
      BY <2>2, <2>4
    <3>2. QED
      BY <1>1, <3>1
  <2>6. \A k \in 1..(n - p) : a[k] = d[p + k - 1]
    BY <2>2, <2>3, <2>4
  <2>7. \A k \in 1..(n - p) : d[p + k - 1] = s[p + k - 1]
    BY <1>3, <2>3
  <2>8. QED
    BY <2>4, <2>5, <2>6, <2>7
<1>8. PICK e : e = <<s[n]>>
  OBVIOUS
<1>9. e \in Seq(S) /\ Len(e) = 1 /\ e[1] = s[n]
  BY <1>1, <1>8
<1>10. r = (b \o e) \o a
  BY <1>2, <1>4, <1>6, <1>8 DEF InsertAt, Last
<1>11. PICK c : c = b \o e
  OBVIOUS
<1>12. c \in Seq(S) /\ Len(c) = p /\ \A k \in 1..p : c[k] = IF k <= p - 1 THEN b[k] ELSE e[k - (p - 1)]
  <2>1. /\ c \in Seq(S) /\ Len(c) = Len(b) + Len(e)
        /\ \A k \in 1..(Len(b) + Len(e)) : c[k] = IF k <= Len(b) THEN b[k] ELSE e[k - Len(b)]
    BY <1>5, <1>9, <1>11, ConcatProperties
  <2>2. Len(b) + Len(e) = p
    BY <1>1, <1>5, <1>9
  <2>3. QED
    BY <1>5, <2>1, <2>2
<1>13. r \in Seq(S) /\ Len(r) = n /\ \A k \in 1..n : r[k] = IF k <= p THEN c[k] ELSE a[k - p]
  <2>1. /\ r \in Seq(S) /\ Len(r) = Len(c) + Len(a)
        /\ \A k \in 1..(Len(c) + Len(a)) : r[k] = IF k <= Len(c) THEN c[k] ELSE a[k - Len(c)]
    <3>1. r = c \o a /\ c \in Seq(S) /\ a \in Seq(S)
      BY <1>7, <1>10, <1>11, <1>12
    <3>2. QED
      BY ZenonT(40), <3>1, ConcatProperties
  <2>2. Len(c) + Len(a) = n
    BY <1>1, <1>7, <1>12
  <2>3. QED
    BY <1>12, <2>1, <2>2
<1>14. ASSUME NEW k \in 1..n
       PROVE  r[k] = IF k < p THEN s[k] ELSE IF k = p THEN s[n] ELSE s[k - 1]
  <2> HIDE DEF n
  <2>1. CASE k < p
    <3>1. k \in 1..(p - 1) /\ k \in 1..p /\ k <= p
      BY <1>1, <2>1
    <3>2. QED
      BY <1>5, <1>12, <1>13, <2>1, <3>1
  <2>2. CASE k = p
    <3>1. k \in 1..p /\ ~(k <= p - 1) /\ k - (p - 1) = 1 /\ k <= p
      BY <1>1, <2>2
    <3>2. QED
      BY <1>9, <1>12, <1>13, <2>2, <3>1
  <2>3. CASE k > p
    <3>1. k - p \in 1..(n - p) /\ p + (k - p) - 1 = k - 1 /\ ~(k <= p) /\ ~(k < p) /\ k # p
      BY <1>1, <2>3
    <3>2. a[k - p] = s[k - 1]
      BY <1>7, <3>1
    <3>3. QED
      BY <1>13, <3>1, <3>2
  <2>4. QED
    BY <1>1, <2>1, <2>2, <2>3
<1>15. QED
  BY <1>13, <1>14 DEF PutAt

(* The top and the elements above its place change places, no more.        *)
LEMMA InsertedMoves ==
  ASSUME NEW S, NEW s \in Seq(S), NEW p \in 1..Len(s),
         NEW r, r = InsertAt(Drop(s, 1), p, Last(s))
  PROVE  r \in Seq(S) /\ Moved(s, r)
<1> DEFINE n == Len(s)
           q == [k \in 1..n |-> IF k < p THEN k ELSE IF k = p THEN n ELSE k - 1]
<1>1. n \in Nat /\ p \in Nat /\ 1 <= p /\ p <= n
  OBVIOUS
<1>2. /\ r \in Seq(S) /\ Len(r) = n
      /\ \A k \in 1..n : r[k] = IF k < p THEN s[k] ELSE IF k = p THEN s[n] ELSE s[k - 1]
  <2>1. r \in Seq(S) /\ PutAt(r, s, p)
    BY InsertedAt
  <2>2. QED
    BY <2>1 DEF PutAt
<1> HIDE DEF n
<1>3. q \in [1..n -> 1..n]
  BY <1>1
<1>4. \A i, j \in 1..n : q[i] = q[j] => i = j
  BY <1>1
<1>5. \A j \in 1..n : \E i \in 1..n : q[i] = j
  <2>1. TAKE j \in 1..n
  <2>2. CASE j < p
    BY <1>1, <2>2
  <2>3. CASE j = n
    BY <1>1, <2>3
  <2>4. CASE j >= p /\ j # n
    <3>1. j + 1 \in 1..n /\ ~(j + 1 < p) /\ j + 1 # p /\ j + 1 - 1 = j
      BY <1>1, <2>4
    <3>2. q[j + 1] = j
      BY <3>1
    <3>3. QED
      BY <3>1, <3>2
  <2>5. QED
    BY <1>1, <2>2, <2>3, <2>4
<1>6. \A k \in 1..n : r[k] = s[q[k]]
  BY <1>2
<1>7. Rearranges(q, n)
  BY <1>3, <1>4, <1>5 DEF Rearranges
<1> HIDE DEF q
<1>8. QED
  BY <1>2, <1>3, <1>6, <1>7 DEF Moved, n

(* A list nobody writes has its elements at their places.                  *)
LEMMA UnmovedMoves == ASSUME NEW S, NEW s \in Seq(S) PROVE Moved(s, s)
<1> DEFINE n == Len(s)
           q == [k \in 1..n |-> k]
<1>1. n \in Nat
  OBVIOUS
<1>2. q \in [1..n -> 1..n] /\ Rearranges(q, n) /\ \A k \in 1..n : s[k] = s[q[k]]
  BY DEF Rearranges
<1> HIDE DEF q
<1>3. QED
  BY <1>2 DEF Moved

(* Elements that change places on the stack keep their sources.            *)
LEMMA MovedSources ==
  ASSUME NEW S, NEW s \in Seq(S), NEW r \in Seq(S), Moved(s, r), NEW l, NEW src, NEW todo, NEW back,
         Sources(s, l, src), Shared(src, todo, back)
  PROVE  \E rs : Sources(r, l, rs) /\ Shared(rs, todo, back)
<1> DEFINE n == Len(s)
<1>1. n \in Nat /\ Len(r) = n /\ src \in Seq(Int) /\ Len(src) = n
  BY DEF Moved, Sources
<1>2. PICK q \in [1..n -> 1..n] : Rearranges(q, n) /\ \A i \in 1..n : r[i] = s[q[i]]
  BY DEF Moved
<1> DEFINE rs == [k \in 1..n |-> src[q[k]]]
<1>3. rs \in Seq(Int) /\ Len(rs) = n /\ \A k \in 1..n : rs[k] = src[q[k]] /\ q[k] \in 1..n
  <2> HIDE DEF n
  <2>1. \A k \in 1..n : q[k] \in 1..n
    BY <1>2
  <2>2. \A k \in 1..n : src[k] \in Int
    BY <1>1
  <2>3. rs \in [1..n -> Int]
    BY <2>1, <2>2
  <2>4. rs \in Seq(Int) /\ Len(rs) = n
    BY <1>1, <2>3
  <2>5. QED
    BY <2>1, <2>4
<1>4. Sources(r, l, rs)
  <2>1. \A k \in 1..n : src[k] \in 0..(Len(l) - 1) /\ s[k] = l[src[k] + 1]
    BY DEF Sources
  <2> HIDE DEF rs, n
  <2>2. \A k \in 1..n : rs[k] \in 0..(Len(l) - 1) /\ r[k] = l[rs[k] + 1]
    <3>1. TAKE k \in 1..n
    <3>2. PICK j \in 1..n : j = q[k]
      BY <1>2
    <3>3. rs[k] = src[j] /\ r[k] = s[j]
      BY <1>2, <1>3, <3>2
    <3>4. QED
      BY <2>1, <3>3
  <2>3. QED
    BY <1>1, <1>3, <2>2 DEF Sources
<1>5. Shared(rs, todo, back)
  <2> HIDE DEF rs, n
  <2>1. Distinct(rs)
    BY <1>1, <1>2, <1>3 DEF Distinct, Shared, Rearranges
  <2>2. \A k \in 1..Len(rs) : In(rs[k], back) /\ ~In(rs[k], todo)
    BY <1>1, <1>3 DEF Shared
  <2>3. ASSUME NEW x, In(x, src) PROVE In(x, rs)
    <3>1. PICK k \in 1..n : src[k] = x
      BY <1>1, <2>3 DEF In
    <3>2. PICK i \in 1..n : q[i] = k
      BY <1>2 DEF Rearranges
    <3>3. QED
      BY <1>3, <3>1, <3>2 DEF In
  <2>4. QED
    BY <2>1, <2>2, <2>3 DEF Shared
<1> HIDE DEF rs
<1>6. QED
  BY <1>4, <1>5

(* The element of the next position goes to the stack.                     *)
LEMMA NextSources ==
  ASSUME NEW S, NEW s \in Seq(S), NEW l, NEW src, NEW todo \in Seq(Int), NEW back \in Seq(Int),
         Sources(s, l, src), Shared(src, todo, back), todo # <<>>,
         \A k \in 1..Len(back) : back[k] \in 0..(Len(l) - 1), NEW x \in S, x = l[Head(todo) + 1]
  PROVE  \E rs : Sources(Append(s, x), l, rs) /\ Shared(rs, Tail(todo), back)
<1> DEFINE n == Len(s)
           h == Head(todo)
           rs == Append(src, h)
           u == Tail(todo)
           r == Append(s, x)
           m == Len(todo)
<1>1. n \in Nat /\ src \in Seq(Int) /\ Len(src) = n
  BY DEF Sources
<1>2. /\ m \in Nat \ {0} /\ h = todo[1] /\ h \in Int /\ u \in Seq(Int) /\ Len(u) = m - 1
      /\ \A k \in 1..(m - 1) : u[k] = todo[k + 1]
  BY UnderTop
<1>3. rs \in Seq(Int) /\ Len(rs) = n + 1 /\ rs[n + 1] = h /\ \A k \in 1..n : rs[k] = src[k]
  <2> HIDE DEF h
  <2>1. QED
    BY <1>1, <1>2, AppendProperties
<1>4. r \in Seq(S) /\ Len(r) = n + 1 /\ r[n + 1] = x /\ \A k \in 1..n : r[k] = s[k]
  BY AppendProperties
<1>5. In(h, back) /\ h \in 0..(Len(l) - 1)
  <2>1. In(h, back)
    BY <1>2 DEF Shared
  <2>2. QED
    BY <2>1 DEF In
<1>6. x = l[h + 1]
  OBVIOUS
<1> HIDE DEF n, h, rs, u, r, m
<1>7. \A k \in 1..(n + 1) : k \in 1..n \/ k = n + 1
  BY <1>1
<1>8. Sources(r, l, rs)
  <2>1. \A k \in 1..n : src[k] \in 0..(Len(l) - 1) /\ s[k] = l[src[k] + 1]
    BY DEF Sources, n
  <2>2. \A k \in 1..(n + 1) : rs[k] \in 0..(Len(l) - 1) /\ r[k] = l[rs[k] + 1]
    BY <1>3, <1>4, <1>5, <1>6, <1>7, <2>1
  <2>3. QED
    BY <1>3, <1>4, <2>2 DEF Sources
<1>9. /\ Distinct(src) /\ Distinct(todo) /\ Distinct(back)
      /\ \A k \in 1..n : In(src[k], back) /\ ~In(src[k], todo)
      /\ \A k \in 1..m : In(todo[k], back)
      /\ \A k \in 1..Len(back) : In(back[k], src) \/ In(back[k], todo)
  BY <1>1 DEF Shared, m
<1>10. 1 \in 1..m /\ \A k \in 1..(m - 1) : k + 1 \in 1..m /\ k + 1 # 1
  BY <1>2
<1>11. \A y : In(y, u) => In(y, todo)
  BY <1>2, <1>10 DEF In, m
<1>12. \A y : In(y, todo) => In(y, u) \/ y = h
  <2>1. TAKE y
  <2>2. HAVE In(y, todo)
  <2>3. PICK k \in 1..m : todo[k] = y
    BY <2>2 DEF In, m
  <2>4. CASE k = 1
    BY <1>2, <2>3, <2>4
  <2>5. CASE k # 1
    <3>1. k - 1 \in 1..(m - 1) /\ k - 1 + 1 = k
      BY <1>2, <2>5
    <3>2. u[k - 1] = y
      BY <1>2, <2>3, <3>1
    <3>3. QED
      BY <1>2, <3>1, <3>2 DEF In
  <2>6. QED
    BY <2>4, <2>5
<1>13. In(h, todo) /\ ~In(h, u)
  <2>1. In(h, todo)
    BY <1>2, <1>10 DEF In, m
  <2>2. \A k \in 1..(m - 1) : u[k] # h
    BY <1>2, <1>9, <1>10 DEF Distinct, m
  <2>3. QED
    BY <1>2, <2>1, <2>2 DEF In
<1>14. Distinct(rs)
  <2>1. \A k \in 1..n : src[k] # h
    BY <1>9, <1>13
  <2>2. \A i, j \in 1..n : src[i] = src[j] => i = j
    BY <1>1, <1>9 DEF Distinct
  <2>3. \A i, j \in 1..(n + 1) : rs[i] = rs[j] => i = j
    BY <1>3, <1>7, <2>1, <2>2
  <2>4. QED
    BY <1>3, <2>3 DEF Distinct
<1>15. Distinct(u)
  <2>1. \A i, j \in 1..(m - 1) : u[i] = u[j] => i + 1 = j + 1
    BY ZenonT(40), <1>2, <1>9, <1>10 DEF Distinct, m
  <2>2. \A i, j \in 1..(m - 1) : u[i] = u[j] => i = j
    BY <1>2, <2>1
  <2>3. QED
    BY <1>2, <2>2 DEF Distinct
<1>16. \A k \in 1..Len(rs) : In(rs[k], back) /\ ~In(rs[k], u)
  <2>1. \A k \in 1..(n + 1) : In(rs[k], back) /\ ~In(rs[k], u)
    BY <1>3, <1>5, <1>7, <1>9, <1>11, <1>13
  <2>2. QED
    BY <1>3, <2>1
<1>17. \A y : In(y, src) \/ y = h => In(y, rs)
  <2>1. n + 1 \in 1..(n + 1) /\ \A k \in 1..n : k \in 1..(n + 1)
    BY <1>1
  <2>2. QED
    BY <1>1, <1>3, <2>1 DEF In
<1>18. \A k \in 1..Len(u) : In(u[k], back)
  BY <1>2, <1>9, <1>10
<1>19. \A k \in 1..Len(back) : In(back[k], rs) \/ In(back[k], u)
  BY <1>9, <1>12, <1>17
<1>20. Shared(rs, u, back)
  BY <1>9, <1>14, <1>15, <1>16, <1>18, <1>19 DEF Shared
<1>21. QED
  BY <1>8, <1>20 DEF r, u

-----------------------------------------------------------------------------
(* What sort is doing: the call on top, and those that wait for it.        *)

Waits == [do : {"qsort", "split"}, l : Int, h : Int]
Pairs == [do : {"pair"}, i : Int]
Sorts == [do : {"sorting"}, todo : Seq(Int), back : Seq(Int), n : Int, lo : Int, hi : Int]
Parts == [do : {"rise", "fall"}, l : Int, h : Int, a : Int, b : Int]
SortTask == Waits \cup Pairs \cup Sorts \cup Parts

\* N is the length of the list when sort was called, s the stack, l the list.
Waiting(N, t) == /\ t \in Waits
                 /\ 0 <= t.l /\ t.l <= t.h + 1 /\ t.h < N
                 /\ t.do = "split" => t.l < t.h
Pairing(N, t, s) == /\ t \in Pairs /\ s = <<>>
                    /\ 0 <= t.i /\ t.i + 1 < N
Inserting(N, t, s, l) ==
    /\ t \in Sorts
    /\ t.n >= -1 /\ Len(s) = t.n + 1 /\ Len(t.todo) + Len(s) = Len(t.back)
    /\ 2 <= t.lo /\ t.lo <= t.hi
    /\ IF t.n = -1 THEN t.hi = 2 ELSE t.hi <= t.n + 2
    /\ \A k \in 1..Len(t.back) : t.back[k] \in 0..(N - 1)
    /\ \E src : Sources(s, l, src) /\ Shared(src, t.todo, t.back)
Parting(N, t) == t \in Parts /\ 0 <= t.l /\ t.l < t.a /\ t.a < t.b /\ t.b <= t.h + 1 /\ t.h < N
Rising(N, t, s, l) == Parting(N, t) /\ t.do = "rise" /\ s = <<l[t.l + 1]>>
Falling(N, t, s, l) == Parting(N, t) /\ t.do = "fall" /\ t.b <= t.h /\ s = <<l[t.l + 1], l[t.a + 1]>>

Doing(N, t, s, l) == \/ Waiting(N, t) /\ s = <<>>
                     \/ Pairing(N, t, s)
                     \/ Inserting(N, t, s, l)
                     \/ Rising(N, t, s, l)
                     \/ Falling(N, t, s, l)

WorkOK(N, w, s, l) == /\ w \in Seq(SortTask)
                      /\ w = <<>> => s = <<>>
                      /\ w # <<>> => Doing(N, w[1], s, l)
                      /\ \A k \in 2..Len(w) : Waiting(N, w[k])

SortInv == /\ list \in Seq(Int) /\ given \in Seq(Int) /\ st \in Seq(Int)
           /\ Len(list) >= size
           /\ \A x : Occurrences(list, x) = Occurrences(given, x)
           /\ phase = "run" => WorkOK(size, work, st, list)

LInv == call \in Calls /\ (Short => SortInv)

(* What sort does, and what it has put off, are calls of sort.             *)
LEMMA DoingTask == ASSUME NEW N, NEW t, NEW s, NEW l, Doing(N, t, s, l) PROVE t \in SortTask
BY DEF Doing, Waiting, Pairing, Inserting, Rising, Falling, Parting, SortTask

(* A range that waits for its turn is a call of sort.                      *)
LEMMA WaitingTask == ASSUME NEW N, NEW t, Waiting(N, t) PROVE t \in SortTask
BY DEF Waiting, SortTask

(* A call returns, is replaced by another, or by two of which the second   *)
(* waits.                                                                  *)
LEMMA ProceedNone ==
  ASSUME NEW N, NEW w, NEW s, NEW l, NEW m, WorkOK(N, w, s, l), w # <<>>
  PROVE  WorkOK(N, <<>> \o Tail(w), <<>>, m)
<1>1. w \in Seq(SortTask) /\ \A k \in 2..Len(w) : Waiting(N, w[k])
  BY DEF WorkOK
<1>2. PICK u : u = Tail(w)
  OBVIOUS
<1>3. /\ Len(w) \in Nat \ {0} /\ u \in Seq(SortTask) /\ Len(u) = Len(w) - 1
      /\ \A i \in 1..(Len(w) - 1) : u[i] = w[i + 1]
  BY <1>1, <1>2, UnderTop
<1>4. \A k \in 1..Len(u) : Waiting(N, u[k])
  <2>1. TAKE k \in 1..Len(u)
  <2>2. k \in 1..(Len(w) - 1) /\ k + 1 \in 2..Len(w)
    BY <1>3
  <2>3. QED
    BY <1>1, <1>3, <2>2
<1>5. u # <<>> => 1 \in 1..Len(u)
  BY <1>3, EmptySeq
<1>6. <<>> \o Tail(w) = u
  BY <1>2, <1>3, ConcatEmptySeq
<1>7. \A k \in 2..Len(u) : k \in 1..Len(u)
  BY <1>3
<1>8. QED
  BY <1>3, <1>4, <1>5, <1>6, <1>7 DEF WorkOK, Doing

(* The call on top is replaced by one that has its stack.                  *)
LEMMA ProceedOne ==
  ASSUME NEW N, NEW w, NEW s, NEW l, NEW r, NEW m, NEW t,
         WorkOK(N, w, s, l), w # <<>>, Doing(N, t, r, m)
  PROVE  WorkOK(N, <<t>> \o Tail(w), r, m)
<1>1. w \in Seq(SortTask) /\ \A k \in 2..Len(w) : Waiting(N, w[k])
  BY DEF WorkOK
<1>2. PICK u : u = Tail(w)
  OBVIOUS
<1>3. /\ Len(w) \in Nat \ {0} /\ u \in Seq(SortTask) /\ Len(u) = Len(w) - 1
      /\ \A i \in 1..(Len(w) - 1) : u[i] = w[i + 1]
  BY <1>1, <1>2, UnderTop
<1>4. PICK v : v = <<t>> \o u
  OBVIOUS
<1>5. /\ v \in Seq(SortTask) /\ Len(v) = Len(u) + 1 /\ v # <<>> /\ v[1] = t
      /\ \A i \in 1..Len(u) : v[i + 1] = u[i]
  BY <1>3, <1>4, DoingTask, Pushed
<1>6. \A k \in 2..Len(v) : Waiting(N, v[k])
  <2>1. TAKE k \in 2..Len(v)
  <2>2. k - 1 \in 1..Len(u) /\ k - 1 \in 1..(Len(w) - 1) /\ (k - 1) + 1 = k /\ k \in 2..Len(w)
    BY <1>3, <1>5
  <2>3. v[k] = w[k]
    BY <1>3, <1>5, <2>2
  <2>4. QED
    BY <1>1, <2>2, <2>3
<1>7. QED
  BY <1>2, <1>4, <1>5, <1>6 DEF WorkOK

(* The call on top is replaced by one that asks next and one that waits.   *)
LEMMA ProceedTwo ==
  ASSUME NEW N, NEW w, NEW s, NEW l, NEW r, NEW m, NEW t, NEW u,
         WorkOK(N, w, s, l), w # <<>>, Doing(N, t, r, m), Waiting(N, u)
  PROVE  WorkOK(N, <<t, u>> \o Tail(w), r, m)
<1>1. Doing(N, u, <<>>, m)
  BY DEF Doing
<1>2. PICK v : v = <<u>> \o Tail(w)
  OBVIOUS
<1>3. WorkOK(N, v, <<>>, m)
  BY <1>1, <1>2, ProceedOne
<1>4. /\ w \in Seq(SortTask) /\ Tail(w) \in Seq(SortTask) /\ t \in SortTask /\ u \in SortTask
  BY UnderTop, DoingTask, WaitingTask DEF WorkOK
<1>5. v \in Seq(SortTask) /\ v # <<>> /\ v[1] = u /\ Len(v) \in Nat
  BY <1>2, <1>4, Pushed
<1>6. <<t, u>> \o Tail(w) = <<t>> \o v
  <2>1. <<t, u>> = <<t>> \o <<u>>
    <3>1. PICK p : p = <<t, u>>
      OBVIOUS
    <3>2. PICK q : q = <<t>> \o <<u>>
      OBVIOUS
    <3>3. p \in Seq(SortTask) /\ Len(p) = 2 /\ p[1] = t /\ p[2] = u
      BY <1>4, <3>1
    <3>4. <<u>> \in Seq(SortTask) /\ Len(<<u>>) = 1 /\ <<u>>[1] = u
      BY <1>4
    <3>5. /\ q \in Seq(SortTask) /\ Len(q) = 1 + 1 /\ q[1] = t
          /\ \A i \in 1..1 : q[i + 1] = <<u>>[i]
      BY <1>4, <3>2, <3>4, Pushed
    <3>6. Len(q) = 2 /\ q[2] = u
      BY <3>4, <3>5
    <3>7. \A i \in 1..Len(p) : p[i] = q[i]
      BY <3>3, <3>5, <3>6
    <3>8. p = q
      BY <3>3, <3>5, <3>6, <3>7, SeqEqual
    <3>9. QED
      BY <3>1, <3>2, <3>8
  <2>2. <<t>> \in Seq(SortTask) /\ <<u>> \in Seq(SortTask)
    BY <1>4
  <2>3. QED
    BY <1>2, <1>4, <2>1, <2>2, ConcatAssociative
<1>7. /\ <<t>> \o v \in Seq(SortTask) /\ Len(<<t>> \o v) = Len(v) + 1 /\ <<t>> \o v # <<>>
      /\ (<<t>> \o v)[1] = t /\ \A i \in 1..Len(v) : (<<t>> \o v)[i + 1] = v[i]
  BY <1>4, <1>5, Pushed
<1>8. PICK z : z = <<t>> \o v
  OBVIOUS
<1>9. \A k \in 2..Len(z) : Waiting(N, z[k])
  <2>1. TAKE k \in 2..Len(z)
  <2>2. k - 1 \in 1..Len(v) /\ (k - 1) + 1 = k
    BY <1>5, <1>7, <1>8
  <2>3. z[k] = v[k - 1]
    BY <1>7, <1>8, <2>2
  <2>4. CASE k = 2
    BY <1>5, <2>3, <2>4
  <2>5. CASE k # 2
    <3>1. k - 1 \in 2..Len(v)
      BY <2>2, <2>5
    <3>2. QED
      BY <1>3, <2>3, <3>1 DEF WorkOK
  <2>6. QED
    BY <2>4, <2>5
<1>10. QED
  BY <1>6, <1>7, <1>8, <1>9 DEF WorkOK

(* A step that rearranges the list at most, and leaves what is left to do  *)
(* in order.                                                               *)
LEMMA SortStep ==
  ASSUME Short, SortInv, UNCHANGED fixed, st' \in Seq(Int), list' \in Seq(Int), Moved(list, list'),
         WorkOK(size, work', st', list')
  PROVE  SortInv'
<1>1. call' = call /\ given' = given /\ phase' = phase /\ size' = size
  BY DEF fixed, size
<1>2. list \in Seq(Int) /\ given \in Seq(Int) /\ Len(list) >= size
      /\ \A x : Occurrences(list, x) = Occurrences(given, x)
  BY DEF SortInv
<1>3. \A x : Occurrences(list', x) = Occurrences(given', x)
  BY <1>1, <1>2, MovedOccurrences
<1>4. Len(list') >= size'
  BY <1>1, <1>2 DEF Moved
<1>5. QED
  BY <1>1, <1>2, <1>3, <1>4 DEF SortInv

(* What partition pushes and drops: one element, or two, on the pivot.     *)
LEMMA ShortStacks ==
  ASSUME NEW x \in Int, NEW y \in Int, NEW z \in Int
  PROVE  /\ <<x>> \o <<y>> = <<x, y>> /\ <<x, y>> \o <<z>> = <<x, y, z>> /\ <<>> \o <<x, y>> = <<x, y>>
         /\ Drop(<<x, y>>, 2) = <<>> /\ Drop(<<x, y, z>>, 2) = <<x>>
<1>1. ASSUME NEW p \in Seq(Int), NEW a \in Int, NEW r \in Seq(Int), Len(r) = Len(p) + 1, r[Len(p) + 1] = a,
             \A i \in 1..Len(p) : r[i] = p[i]
      PROVE  p \o <<a>> = r
  <2>1. <<a>> \in Seq(Int) /\ Len(<<a>>) = 1 /\ <<a>>[1] = a
    OBVIOUS
  <2>2. PICK q : q = p \o <<a>>
    OBVIOUS
  <2>3. /\ q \in Seq(Int) /\ Len(q) = Len(p) + 1
        /\ \A i \in 1..(Len(p) + 1) : q[i] = IF i <= Len(p) THEN p[i] ELSE <<a>>[i - Len(p)]
    BY <2>1, <2>2, ConcatProperties
  <2>4. Len(p) \in Nat
    OBVIOUS
  <2>5. \A i \in 1..(Len(p) + 1) : q[i] = r[i]
    <3>1. TAKE i \in 1..(Len(p) + 1)
    <3>2. CASE i <= Len(p)
      BY SMTT(40), <1>1, <2>3, <2>4, <3>2
    <3>3. CASE i = Len(p) + 1
      BY <1>1, <2>1, <2>3, <2>4, <3>3
    <3>4. QED
      BY <2>4, <3>2, <3>3
  <2>6. q = r
    BY <1>1, <2>3, <2>5, SeqEqual
  <2>7. QED
    BY <2>2, <2>6
<1>2. <<x>> \o <<y>> = <<x, y>>
  <2>1. PICK p : p = <<x>>
    OBVIOUS
  <2>2. PICK r : r = <<x, y>>
    OBVIOUS
  <2>3. p \in Seq(Int) /\ Len(p) = 1 /\ p[1] = x
    BY <2>1
  <2>4. r \in Seq(Int) /\ Len(r) = 2 /\ r[1] = x /\ r[2] = y
    BY <2>2
  <2>5. Len(r) = Len(p) + 1 /\ r[Len(p) + 1] = y /\ \A i \in 1..Len(p) : r[i] = p[i]
    BY <2>3, <2>4
  <2>6. QED
    BY <1>1, <2>1, <2>2, <2>3, <2>4, <2>5
<1>3. <<x, y>> \o <<z>> = <<x, y, z>>
  <2>1. PICK p : p = <<x, y>>
    OBVIOUS
  <2>2. PICK r : r = <<x, y, z>>
    OBVIOUS
  <2>3. p \in Seq(Int) /\ Len(p) = 2 /\ p[1] = x /\ p[2] = y
    BY <2>1
  <2>4. r \in Seq(Int) /\ Len(r) = 3 /\ r[1] = x /\ r[2] = y /\ r[3] = z
    BY <2>2
  <2>5. Len(r) = Len(p) + 1 /\ r[Len(p) + 1] = z /\ \A i \in 1..Len(p) : r[i] = p[i]
    BY <2>3, <2>4
  <2>6. QED
    BY <1>1, <2>1, <2>2, <2>3, <2>4, <2>5
<1>4. <<>> \o <<x, y>> = <<x, y>>
  <2>1. <<x, y>> \in Seq(Int)
    OBVIOUS
  <2>2. QED
    BY <2>1, ConcatEmptySeq
<1>5. Drop(<<x, y>>, 2) = <<>>
  <2>1. SubSeq(<<x, y>>, 1, 0) = <<>>
    BY SubSeqEmpty
  <2>2. QED
    BY <2>1 DEF Drop
<1>6. Drop(<<x, y, z>>, 2) = <<x>>
  <2>1. PICK r : r = <<x, y, z>>
    OBVIOUS
  <2>2. r \in Seq(Int) /\ Len(r) = 3 /\ r[1] = x
    BY <2>1
  <2>3. PICK q : q = SubSeq(r, 1, 1)
    OBVIOUS
  <2>4. q \in Seq(Int) /\ Len(q) = 1 /\ q[1] = x
    <3>1. \A i \in 1..1 : r[i] \in Int
      BY <2>2
    <3>2. /\ SubSeq(r, 1, 1) \in Seq(Int)
          /\ Len(SubSeq(r, 1, 1)) = IF 1 <= 1 THEN 1 - 1 + 1 ELSE 0
          /\ \A i \in 1..(1 - 1 + 1) : SubSeq(r, 1, 1)[i] = r[1 + i - 1]
      BY <3>1, SubSeqProperties
    <3>3. QED
      BY <2>2, <2>3, <3>2
  <2>5. PICK p : p = <<x>>
    OBVIOUS
  <2>6. p \in Seq(Int) /\ Len(p) = 1 /\ p[1] = x
    BY <2>5
  <2>7. \A i \in 1..Len(p) : p[i] = q[i]
    BY <2>4, <2>6
  <2>8. p = q
    BY <2>4, <2>6, <2>7, SeqEqual
  <2>9. Len(r) - 2 = 1
    BY <2>2
  <2>10. QED
    BY <2>1, <2>3, <2>5, <2>8, <2>9 DEF Drop
<1>7. QED
  BY <1>2, <1>3, <1>4, <1>5, <1>6

(* The call on top is one of those of sort.                                *)
LEMMA TaskIs ==
  ASSUME call \in Calls, SortInv, phase = "run", work # <<>>
  PROVE  /\ WorkOK(size, work, st, list) /\ Doing(size, Task, st, list)
         /\ list \in Seq(Int) /\ st \in Seq(Int) /\ size \in Nat /\ Len(list) \in Nat /\ Len(list) >= size
         /\ \A k \in 0..(size - 1) : k \in 0..(Len(list) - 1) /\ At(k) \in Int
<1>1. WorkOK(size, work, st, list) /\ Doing(size, Task, st, list)
  <2>1. WorkOK(size, work, st, list)
    BY DEF SortInv
  <2>2. work \in Seq(SortTask) /\ Doing(size, work[1], st, list)
    BY <2>1 DEF WorkOK
  <2>3. Task = work[1]
    BY <2>2, UnderTop DEF Task
  <2>4. QED
    BY <2>1, <2>2, <2>3
<1>2. list \in Seq(Int) /\ st \in Seq(Int) /\ Len(list) \in Nat /\ Len(list) >= size
  BY DEF SortInv
<1>3. size \in Nat
  BY CallsAssumption DEF size
<1>4. \A k \in 0..(size - 1) : k \in 0..(Len(list) - 1) /\ k + 1 \in 1..Len(list)
  BY <1>2, <1>3
<1>5. \A k \in 0..(size - 1) : At(k) \in Int
  BY <1>2, <1>4 DEF At
<1>6. QED
  BY <1>1, <1>2, <1>3, <1>4, <1>5

(* Which kind of call it is says what it keeps on the stack.               *)
LEMMA DoingIs ==
  ASSUME NEW N, NEW t, NEW s, NEW l, Doing(N, t, s, l)
  PROVE  /\ t.do \in {"qsort", "split", "pair", "sorting", "rise", "fall"}
         /\ t.do \in {"qsort", "split"} => Waiting(N, t) /\ s = <<>>
         /\ t.do = "pair" => Pairing(N, t, s)
         /\ t.do = "sorting" => Inserting(N, t, s, l)
         /\ t.do = "rise" => Rising(N, t, s, l)
         /\ t.do = "fall" => Falling(N, t, s, l)
<1>1. Waiting(N, t) => t.do \in {"qsort", "split"}
  BY DEF Waiting, Waits
<1>2. Pairing(N, t, s) => t.do = "pair"
  BY DEF Pairing, Pairs
<1>3. Inserting(N, t, s, l) => t.do = "sorting"
  BY DEF Inserting, Sorts
<1>4. QED
  BY <1>1, <1>2, <1>3 DEF Doing, Rising, Falling

(* elecmp: a pair keeps its order, or changes it.                          *)
LEMMA PairKeeps ==
  ASSUME call \in Calls, Short, SortInv, NEW lt \in BOOLEAN, Pair(lt)
  PROVE  SortInv'
<1>1. phase = "run" /\ work # <<>> /\ Task.do = "pair"
  BY DEF Pair, Asked, Asks
<1>2. /\ list' = IF lt THEN list ELSE Set2(Full, Task.i, Task.i + 1)
      /\ work' = <<>> \o Tail(work) /\ st' = st /\ UNCHANGED fixed
  BY DEF Pair, Continue, Proceed
<1>3. /\ WorkOK(size, work, st, list) /\ Pairing(size, Task, st)
      /\ list \in Seq(Int) /\ size \in Nat /\ Len(list) \in Nat /\ Len(list) >= size
      /\ \A k \in 0..(size - 1) : k \in 0..(Len(list) - 1) /\ At(k) \in Int
  BY <1>1, TaskIs, DoingIs
<1>4. PICK i : i = Task.i
  OBVIOUS
<1>5. i \in 0..(size - 1) /\ i + 1 \in 0..(size - 1) /\ i # i + 1 /\ st = <<>>
  BY SMTT(40), <1>3, <1>4 DEF Pairing, Pairs
<1>6. st' = <<>> /\ WorkOK(size, work', st', list')
  BY <1>1, <1>2, <1>3, <1>5, ProceedNone
<1>7. list' \in Seq(Int) /\ Moved(list, list')
  <2>1. CASE lt
    BY <1>2, <1>3, <2>1, UnmovedMoves
  <2>2. CASE ~lt
    <3>1. Full = <<At(i), At(i + 1)>>
      <4>1. Operands = <<At(i), At(i + 1)>>
        BY <1>1, <1>4 DEF Operands
      <4>2. At(i) \in Int /\ At(i + 1) \in Int
        BY <1>3, <1>5
      <4>3. QED
        BY <1>5, <4>1, <4>2, ShortStacks DEF Full
    <3>2. At(i) \in Int /\ At(i + 1) \in Int /\ i \in 0..(Len(list) - 1) /\ i + 1 \in 0..(Len(list) - 1)
      BY <1>3, <1>5
    <3>3. Full \in Seq(Int) /\ Full[Len(Full)] = At(i + 1) /\ Full[Len(Full) - 1] = At(i)
      BY <3>1, <3>2
    <3>4. list' = Set2(Full, i, i + 1)
      BY <1>2, <1>4, <2>2
    <3>5. QED
      BY <1>3, <1>5, <3>2, <3>3, <3>4, Set2Moves
  <2>3. QED
    BY <2>1, <2>2
<1>8. QED
  BY <1>2, <1>6, <1>7, SortStep

(* insert: the place of the top is looked for.                             *)
LEMMA SearchKeeps ==
  ASSUME call \in Calls, Short, SortInv, NEW lt \in BOOLEAN, Search(lt)
  PROVE  SortInv'
<1>1. phase = "run" /\ work # <<>> /\ Task.do = "sorting" /\ Task.lo < Task.hi
  BY DEF Search, Asked, Asks
<1>2. PICK t : t = IF lt THEN [Task EXCEPT !.lo = Middle + 1] ELSE [Task EXCEPT !.hi = Middle]
  OBVIOUS
<1>3. work' = <<t>> \o Tail(work) /\ list' = list /\ st' = st /\ UNCHANGED fixed
  BY <1>2 DEF Search, Step, Continue, Proceed
<1>4. /\ WorkOK(size, work, st, list) /\ Inserting(size, Task, st, list)
      /\ list \in Seq(Int) /\ st \in Seq(Int)
  BY <1>1, TaskIs, DoingIs
<1>5. Task \in Sorts /\ Task.lo \in Int /\ Task.hi \in Int /\ Task.n \in Int
  BY <1>4 DEF Inserting, Sorts
<1>6. /\ Middle \in Int /\ Task.lo <= Middle /\ Middle < Task.hi
  BY <1>1, <1>5 DEF Middle
<1>7. /\ t \in Sorts /\ t.todo = Task.todo /\ t.back = Task.back /\ t.n = Task.n
      /\ t.lo = (IF lt THEN Middle + 1 ELSE Task.lo) /\ t.hi = IF lt THEN Task.hi ELSE Middle
  <2>1. CASE lt
    BY <1>2, <1>5, <1>6, <2>1 DEF Sorts
  <2>2. CASE ~lt
    BY <1>2, <1>5, <1>6, <2>2 DEF Sorts
  <2>3. QED
    BY <2>1, <2>2
<1>8. 2 <= t.lo /\ t.lo <= t.hi /\ IF t.n = -1 THEN t.hi = 2 ELSE t.hi <= t.n + 2
  <2>1. 2 <= Task.lo /\ IF Task.n = -1 THEN Task.hi = 2 ELSE Task.hi <= Task.n + 2
    BY <1>4 DEF Inserting
  <2>2. QED
    BY <1>1, <1>5, <1>6, <1>7, <2>1
<1>9. Inserting(size, t, st, list)
  BY <1>4, <1>7, <1>8 DEF Inserting
<1>10. WorkOK(size, work', st', list')
  BY <1>1, <1>3, <1>4, <1>9, ProceedOne DEF Doing
<1>11. QED
  BY <1>3, <1>4, <1>10, SortStep, UnmovedMoves

(* What the stack is when the place of the top has been found.             *)
LEMMA PlacedIs ==
  ASSUME NEW N, NEW l, Inserting(N, Task, st, l), st \in Seq(Int)
  PROVE  /\ Placed \in Seq(Int) /\ Moved(st, Placed) /\ Len(Placed) = Task.n + 1
         /\ \E src : Sources(Placed, l, src) /\ Shared(src, Task.todo, Task.back)
<1>1. Task.n \in Int /\ Task.lo \in Int /\ Task.hi \in Int
  BY DEF Inserting, Sorts
<1>2. /\ Task.n >= -1 /\ Len(st) = Task.n + 1 /\ 2 <= Task.lo /\ Task.lo <= Task.hi
      /\ IF Task.n = -1 THEN Task.hi = 2 ELSE Task.hi <= Task.n + 2
      /\ \E src : Sources(st, l, src) /\ Shared(src, Task.todo, Task.back)
  BY DEF Inserting
<1>3. Placed \in Seq(Int) /\ Moved(st, Placed)
  <2>1. CASE Task.n <= 0
    <3>1. Placed = st
      BY <2>1 DEF Placed
    <3>2. QED
      BY <3>1, UnmovedMoves
  <2>2. CASE ~(Task.n <= 0)
    <3>1. Task.lo - 1 \in 1..Len(st)
      BY SMTT(40), <1>1, <1>2, <2>2
    <3>2. Placed = InsertAt(Drop(st, 1), Task.lo - 1, Last(st))
      BY <2>2 DEF Placed
    <3>3. QED
      BY <3>1, <3>2, InsertedMoves
  <2>3. QED
    BY <2>1, <2>2
<1>4. Len(Placed) = Task.n + 1
  BY <1>2, <1>3 DEF Moved
<1>5. PICK src : Sources(st, l, src) /\ Shared(src, Task.todo, Task.back)
  BY <1>2
<1>6. \E rs : Sources(Placed, l, rs) /\ Shared(rs, Task.todo, Task.back)
  BY <1>3, <1>5, MovedSources
<1>7. QED
  BY <1>3, <1>4, <1>6

(* The next element goes to the stack.                                     *)
LEMMA NextSampleKeeps ==
  ASSUME call \in Calls, Short, SortInv, NextSample
  PROVE  SortInv'
<1>1. phase = "run" /\ work # <<>> /\ Task.do = "sorting" /\ Task.todo # <<>>
  BY DEF NextSample, Expands
<1>2. PICK t : t = [Task EXCEPT !.todo = Tail(@), !.n = @ + 1, !.lo = 2, !.hi = 3 + Task.n]
  OBVIOUS
<1>3. PICK x : x = At(Head(Task.todo))
  OBVIOUS
<1>4. /\ work' = <<t>> \o Tail(work) /\ list' = list /\ st' = Append(Placed, x)
      /\ UNCHANGED fixed
  BY <1>2, <1>3 DEF NextSample, Continue, Proceed
<1>5. /\ WorkOK(size, work, st, list) /\ Inserting(size, Task, st, list)
      /\ list \in Seq(Int) /\ st \in Seq(Int)
      /\ \A k \in 0..(size - 1) : k \in 0..(Len(list) - 1) /\ At(k) \in Int
  BY <1>1, TaskIs, DoingIs
<1>6. /\ Task \in Sorts /\ Task.n \in Int /\ Task.todo \in Seq(Int) /\ Task.back \in Seq(Int)
  BY <1>5 DEF Inserting, Sorts
<1>7. /\ Task.n >= -1 /\ Len(st) = Task.n + 1 /\ Len(Task.todo) + Len(st) = Len(Task.back)
      /\ \A k \in 1..Len(Task.back) : Task.back[k] \in 0..(size - 1)
  BY <1>5 DEF Inserting
<1>8. /\ Len(Task.todo) \in Nat \ {0} /\ Head(Task.todo) = Task.todo[1]
      /\ Tail(Task.todo) \in Seq(Int) /\ Len(Tail(Task.todo)) = Len(Task.todo) - 1
  BY <1>1, <1>6, UnderTop
<1>9. /\ t \in Sorts /\ t.todo = Tail(Task.todo) /\ t.back = Task.back /\ t.n = Task.n + 1
      /\ t.lo = 2 /\ t.hi = 3 + Task.n
  <2>1. PICK q : q = Tail(Task.todo)
    OBVIOUS
  <2>2. PICK k : k = Task
    OBVIOUS
  <2>3. PICK m \in Int : m = Task.n + 1
    BY <1>6
  <2>4. PICK h \in Int : h = 3 + Task.n
    BY <1>6
  <2>5. t = [k EXCEPT !.todo = q, !.n = m, !.lo = 2, !.hi = h]
    BY <1>2, <2>1, <2>2, <2>3, <2>4
  <2>6. k \in Sorts /\ q \in Seq(Int)
    BY <1>6, <1>8, <2>1, <2>2
  <2>7. /\ t \in Sorts /\ t.todo = q /\ t.back = k.back /\ t.n = m /\ t.lo = 2 /\ t.hi = h
    <3>1. PICK a : a = [k EXCEPT !.todo = q]
      OBVIOUS
    <3>2. PICK b : b = [a EXCEPT !.n = m]
      OBVIOUS
    <3>3. PICK c : c = [b EXCEPT !.lo = 2]
      OBVIOUS
    <3>4. t = [c EXCEPT !.hi = h]
      BY <2>5, <3>1, <3>2, <3>3
    <3>5. a \in Sorts /\ a.todo = q /\ a.back = k.back
      BY <2>6, <3>1 DEF Sorts
    <3>6. b \in Sorts /\ b.todo = q /\ b.back = k.back /\ b.n = m
      BY <3>2, <3>5 DEF Sorts
    <3>7. c \in Sorts /\ c.todo = q /\ c.back = k.back /\ c.n = m /\ c.lo = 2
      BY SMTT(40), <3>3, <3>6 DEF Sorts
    <3>8. QED
      BY <3>4, <3>7 DEF Sorts
  <2>8. QED
    BY <2>1, <2>2, <2>3, <2>4, <2>7
<1>10. PICK p : p = Placed
  OBVIOUS
<1>11. p \in Seq(Int) /\ Len(p) = Task.n + 1
  BY <1>5, <1>10, PlacedIs
<1>12. PICK src : Sources(p, list, src) /\ Shared(src, Task.todo, Task.back)
  BY <1>5, <1>10, PlacedIs
<1>13. \A k \in 1..Len(Task.back) : Task.back[k] \in 0..(Len(list) - 1)
  BY <1>5, <1>7
<1>14. Head(Task.todo) \in 0..(size - 1)
  <2>1. In(Task.todo[1], Task.back)
    BY <1>8, <1>12 DEF Shared
  <2>2. QED
    BY <1>7, <1>8, <2>1 DEF In
<1>15. x \in Int /\ x = list[Head(Task.todo) + 1]
  BY <1>3, <1>5, <1>14 DEF At
<1>16. PICK rs : Sources(Append(p, x), list, rs) /\ Shared(rs, Tail(Task.todo), Task.back)
  BY <1>1, <1>6, <1>11, <1>12, <1>13, <1>15, NextSources
<1>17. st' \in Seq(Int) /\ Len(st') = Task.n + 2
  BY <1>4, <1>6, <1>10, <1>11, <1>15, AppendProperties
<1>18. Inserting(size, t, st', list)
  <2>1. t.n >= -1 /\ Len(st') = t.n + 1 /\ Len(t.todo) + Len(st') = Len(t.back)
    <3>1. t.n >= -1 /\ Len(st') = t.n + 1
      BY <1>6, <1>7, <1>9, <1>17
    <3>2. PICK a \in Int, b \in Int, c \in Int, n \in Int :
            a = Len(Task.todo) /\ b = Len(st) /\ c = Len(Task.back) /\ n = Task.n
      BY <1>5, <1>6
    <3>3. Len(t.todo) = a - 1 /\ Len(st') = n + 2 /\ Len(t.back) = c /\ b = n + 1 /\ a + b = c
      BY <1>7, <1>8, <1>9, <1>17, <3>2
    <3>4. QED
      BY <3>1, <3>3
  <2>2. 2 <= t.lo /\ t.lo <= t.hi /\ IF t.n = -1 THEN t.hi = 2 ELSE t.hi <= t.n + 2
    BY <1>6, <1>7, <1>9
  <2>3. Sources(st', list, rs) /\ Shared(rs, t.todo, t.back)
    BY <1>4, <1>9, <1>10, <1>16
  <2>4. QED
    BY <1>7, <1>9, <2>1, <2>2, <2>3 DEF Inserting
<1>19. WorkOK(size, work', st', list')
  BY <1>1, <1>4, <1>5, <1>18, ProceedOne DEF Doing
<1>20. QED
  BY <1>4, <1>5, <1>17, <1>19, SortStep, UnmovedMoves

(* All of them are written back.                                           *)
LEMMA PutBackKeeps ==
  ASSUME call \in Calls, Short, SortInv, PutBack
  PROVE  SortInv'
<1>1. phase = "run" /\ work # <<>> /\ Task.do = "sorting" /\ Task.todo = <<>>
  BY DEF PutBack, Expands
<1>2. PICK p : p = Placed
  OBVIOUS
<1>3. /\ work' = <<>> \o Tail(work) /\ list' = WrittenBack(list, p, Task.back)
      /\ st' = Drop(p, Len(Task.back)) /\ UNCHANGED fixed
  BY <1>2 DEF PutBack, Continue, Proceed
<1>4. /\ WorkOK(size, work, st, list) /\ Inserting(size, Task, st, list)
      /\ list \in Seq(Int) /\ st \in Seq(Int)
  BY <1>1, TaskIs, DoingIs
<1>5. Task.back \in Seq(Int) /\ Len(st) = Task.n + 1 /\ Len(Task.todo) + Len(st) = Len(Task.back)
  BY <1>4 DEF Inserting, Sorts
<1>6. p \in Seq(Int) /\ Len(p) = Task.n + 1
  BY <1>2, <1>4, PlacedIs
<1>7. PICK src : Sources(p, list, src) /\ Shared(src, Task.todo, Task.back)
  BY <1>2, <1>4, PlacedIs
<1>8. Len(Task.back) = Len(p)
  BY <1>1, <1>4, <1>5, <1>6
<1>9. list' \in Seq(Int) /\ Moved(list, list')
  BY <1>1, <1>3, <1>4, <1>5, <1>6, <1>7, <1>8, WrittenBackMoves
<1>10. st' = <<>>
  <2>1. Len(p) \in Nat /\ Len(p) - Len(p) = 0
    BY <1>6
  <2>2. QED
    BY <1>3, <1>6, <1>8, <2>1, SubSeqEmpty DEF Drop
<1>11. WorkOK(size, work', st', list')
  BY <1>1, <1>3, <1>4, <1>10, ProceedNone
<1>12. QED
  BY <1>3, <1>9, <1>10, <1>11, SortStep

(* A range of positions goes to the stack, or five samples of a longer one. *)
LEMMA NothingStacked ==
  ASSUME NEW N \in Nat, NEW l, NEW todo \in Seq(Int), NEW back \in Seq(Int),
         Len(todo) = Len(back), Distinct(todo), Distinct(back),
         \A x : In(x, todo) <=> In(x, back), \A k \in 1..Len(back) : back[k] \in 0..(N - 1)
  PROVE  Inserting(N, Sorting(todo, back), <<>>, l)
<1>1. PICK t : t = Sorting(todo, back)
  OBVIOUS
<1>2. t \in Sorts /\ t.todo = todo /\ t.back = back /\ t.n = -1 /\ t.lo = 2 /\ t.hi = 2
  BY <1>1 DEF Sorting, Sorts
<1>3. PICK e : e = <<>>
  OBVIOUS
<1>4. e \in Seq(Int) /\ Len(e) = 0
  BY <1>3
<1>5. Sources(e, l, e)
  BY <1>4 DEF Sources
<1>6. Shared(e, todo, back)
  <2>1. Distinct(e)
    BY <1>4 DEF Distinct
  <2>2. \A k \in 1..Len(todo) : In(todo[k], todo)
    BY DEF In
  <2>3. \A k \in 1..Len(back) : In(back[k], back)
    BY DEF In
  <2>4. \A k \in 1..Len(e) : FALSE
    BY <1>4
  <2>5. QED
    BY <2>1, <2>2, <2>3, <2>4 DEF Shared
<1>7. Len(t.todo) + Len(e) = Len(t.back) /\ Len(e) = t.n + 1
  BY <1>2, <1>4
<1>8. Inserting(N, t, e, l)
  BY <1>2, <1>5, <1>6, <1>7 DEF Inserting
<1>9. QED
  BY <1>1, <1>3, <1>8

(* isort: the positions of a range, which go back from the top down.       *)
LEMMA RangeInserting ==
  ASSUME NEW N \in Nat, NEW a \in Nat, NEW m \in Nat, a + m <= N, NEW l
  PROVE  Inserting(N, Sorting(Indices(a, a + m), Reverse(Indices(a, a + m))), <<>>, l)
<1>1. PICK p : p = Indices(a, a + m)
  OBVIOUS
<1>2. PICK q : q = Reverse(Indices(a, a + m))
  OBVIOUS
<1>3. p \in Seq(Int) /\ Len(p) = m /\ \A k \in 1..m : p[k] = a + k - 1
  <2>1. p = [k \in 1..m |-> a + k - 1]
    BY <1>1 DEF Indices
  <2>2. \A k \in 1..m : a + k - 1 \in Int
    OBVIOUS
  <2>3. QED
    BY <2>1, <2>2
<1>4. q \in Seq(Int) /\ Len(q) = m /\ \A k \in 1..m : q[k] = a + m - k
  <2>1. q = [k \in 1..m |-> p[(m - k) + 1]]
    BY <1>1, <1>2, <1>3 DEF Reverse
  <2>2. \A k \in 1..m : p[(m - k) + 1] = a + m - k /\ a + m - k \in Int
    <3>1. TAKE k \in 1..m
    <3>2. (m - k) + 1 \in 1..m /\ a + ((m - k) + 1) - 1 = a + m - k
      OBVIOUS
    <3>3. QED
      BY <1>3, <3>2
  <2>3. QED
    BY <2>1, <2>2
<1>5. Distinct(p) /\ Distinct(q)
  BY SMTT(40), <1>3, <1>4 DEF Distinct
<1>6. ASSUME NEW x PROVE In(x, p) <=> In(x, q)
  <2>1. ASSUME NEW k \in 1..m PROVE In(p[k], q) /\ In(q[k], p)
    <3>1. PICK h \in 1..m : h = m - k + 1
      <4>1. m - k + 1 \in 1..m
        OBVIOUS
      <4>2. QED
        BY <4>1
    <3>2. q[h] = p[k] /\ p[h] = q[k]
      BY <1>3, <1>4, <3>1
    <3>3. QED
      BY <1>3, <1>4, <3>2 DEF In
  <2>2. QED
    BY <1>3, <1>4, <2>1 DEF In
<1>7. \A k \in 1..Len(q) : q[k] \in 0..(N - 1)
  BY <1>4
<1>8. Inserting(N, Sorting(p, q), <<>>, l)
  BY <1>3, <1>4, <1>5, <1>6, <1>7, NothingStacked
<1>9. QED
  BY <1>1, <1>2, <1>8

(* findpivot: the five samples are different positions, and go back to the *)
(* same five.                                                              *)
LEMMA PivotInserting ==
  ASSUME NEW N \in Nat, NEW a \in Nat, NEW m \in Nat, m >= 4, a + m < N, NEW l
  PROVE  Inserting(N, FindPivot(a, m), <<>>, l)
<1>1. /\ Sample(a, m, 0) = a /\ Sample(a, m, 4) = a + m
      /\ Sample(a, m, 1) \in Int /\ Sample(a, m, 2) \in Int /\ Sample(a, m, 3) \in Int
      /\ a < Sample(a, m, 1) /\ Sample(a, m, 1) < Sample(a, m, 2)
      /\ Sample(a, m, 2) < Sample(a, m, 3) /\ Sample(a, m, 3) < a + m
  BY DEF Sample
<1>2. PICK x \in Int, y \in Int, z \in Int :
        x = Sample(a, m, 1) /\ y = Sample(a, m, 2) /\ z = Sample(a, m, 3)
  BY <1>1
<1>3. a < x /\ x < y /\ y < z /\ z < a + m
  BY <1>1, <1>2
<1>4. PICK p : p = [k \in 1..5 |-> Sample(a, m, k - 1)]
  OBVIOUS
<1>5. PICK q : q = <<a + m, z, a, y, x>>
  OBVIOUS
<1>6. /\ p \in Seq(Int) /\ Len(p) = 5
      /\ p[1] = a /\ p[2] = x /\ p[3] = y /\ p[4] = z /\ p[5] = a + m
  <2>1. p[1] = a /\ p[2] = x /\ p[3] = y /\ p[4] = z /\ p[5] = a + m
    BY <1>1, <1>2, <1>4
  <2>2. \A k \in 1..5 : p[k] \in Int
    <3>1. TAKE k \in 1..5
    <3>2. k = 1 \/ k = 2 \/ k = 3 \/ k = 4 \/ k = 5
      OBVIOUS
    <3>3. QED
      BY <2>1, <3>2
  <2>3. p = [k \in 1..5 |-> p[k]]
    BY <1>4
  <2>4. p \in [1..5 -> Int]
    BY <2>2, <2>3
  <2>5. p \in Seq(Int) /\ Len(p) = 5
    <3>1. PICK j \in Nat : j = 5
      OBVIOUS
    <3>2. p \in [1..j -> Int]
      BY <2>4, <3>1
    <3>3. p \in Seq(Int) /\ Len(p) = j
      BY <3>2
    <3>4. QED
      BY <3>1, <3>3
  <2>6. QED
    BY <2>1, <2>5
<1>7. /\ q \in Seq(Int) /\ Len(q) = 5
      /\ q[1] = a + m /\ q[2] = z /\ q[3] = a /\ q[4] = y /\ q[5] = x
  BY <1>5
<1>8. \A k \in 1..5 : k = 1 \/ k = 2 \/ k = 3 \/ k = 4 \/ k = 5
  OBVIOUS
<1>9. Distinct(p)
  BY <1>3, <1>6, <1>8 DEF Distinct
<1>10. Distinct(q)
  BY <1>3, <1>7, <1>8 DEF Distinct
<1>11. \A e : In(e, p) <=> e \in {a, x, y, z, a + m}
  BY <1>6, <1>8 DEF In
<1>12. \A e : In(e, q) <=> e \in {a, x, y, z, a + m}
  BY <1>7, <1>8 DEF In
<1>13. \A k \in 1..Len(q) : q[k] \in 0..(N - 1)
  BY SMTT(40), <1>3, <1>7, <1>8
<1>14. \A e : In(e, p) <=> In(e, q)
  BY <1>11, <1>12
<1>15. Inserting(N, Sorting(p, q), <<>>, l)
  BY <1>6, <1>7, <1>9, <1>10, <1>13, <1>14, NothingStacked
<1>16. FindPivot(a, m) = Sorting(p, q)
  BY <1>2, <1>4, <1>5 DEF FindPivot
<1>17. QED
  BY <1>15, <1>16

(* qsortaux: a short range is sorted by insertion, a longer one is split    *)
(* at a pivot.                                                              *)
LEMMA ExpandQsortKeeps ==
  ASSUME call \in Calls, Short, SortInv, ExpandQsort
  PROVE  SortInv'
<1>1. phase = "run" /\ work # <<>> /\ Task.do = "qsort"
  BY DEF ExpandQsort, Expands
<1>2. /\ WorkOK(size, work, st, list) /\ Waiting(size, Task) /\ st = <<>>
      /\ list \in Seq(Int) /\ st \in Seq(Int) /\ size \in Nat
  BY <1>1, TaskIs, DoingIs
<1>3. PICK l, h : l = Task.l /\ h = Task.h
  OBVIOUS
<1>4. Task \in Waits /\ l \in Nat /\ h \in Int /\ l <= h + 1 /\ h < size
  BY <1>2, <1>3 DEF Waiting, Waits
<1>5. PICK n \in Nat : n = h - l + 1
  BY <1>4
<1>6. PICK s : s = [Task EXCEPT !.do = "split"]
  OBVIOUS
<1>7. /\ work' = (IF n < InsertThreshold THEN Isort(l, n) ELSE <<FindPivot(l, n - 1), s>>) \o Tail(work)
      /\ list' = list /\ st' = st /\ UNCHANGED fixed
  <2>1. Step(IF n < InsertThreshold THEN Isort(l, n) ELSE <<FindPivot(l, n - 1), s>>)
    BY <1>3, <1>5, <1>6 DEF ExpandQsort
  <2>2. QED
    BY <2>1 DEF Step, Continue, Proceed
<1>8. WorkOK(size, work', st', list')
  <2>1. CASE n < InsertThreshold
    <3>1. CASE n <= 1
      <4>1. work' = <<>> \o Tail(work)
        BY <1>7, <2>1, <3>1 DEF Isort
      <4>2. QED
        BY <1>1, <1>2, <1>7, <4>1, ProceedNone
    <3>2. CASE n = 2
      <4>1. PICK t : t = [do |-> "pair", i |-> l]
        OBVIOUS
      <4>2. work' = <<t>> \o Tail(work)
        <5>1. Isort(l, n) = <<t>>
          BY <3>2, <4>1 DEF Isort
        <5>2. QED
          BY <1>7, <2>1, <5>1
      <4>3. t \in Pairs /\ t.i = l /\ l + 1 < size
        BY <1>2, <1>4, <1>5, <3>2, <4>1 DEF Pairs
      <4>4. Pairing(size, t, st')
        BY <1>2, <1>4, <1>7, <4>3 DEF Pairing
      <4>5. Doing(size, t, st', list')
        BY <4>4 DEF Doing
      <4>6. QED
        BY <1>1, <1>2, <4>2, <4>5, ProceedOne
    <3>3. CASE n > 2
      <4>1. PICK t : t = Sorting(Indices(l, l + n), Reverse(Indices(l, l + n)))
        OBVIOUS
      <4>2. work' = <<t>> \o Tail(work)
        <5>1. Isort(l, n) = <<t>>
          BY <3>3, <4>1 DEF Isort
        <5>2. QED
          BY <1>7, <2>1, <5>1
      <4>3. l + n <= size
        BY <1>2, <1>4, <1>5
      <4>4. Inserting(size, t, st', list')
        BY <1>2, <1>4, <1>7, <4>1, <4>3, RangeInserting
      <4>5. Doing(size, t, st', list')
        BY <4>4 DEF Doing
      <4>6. QED
        BY <1>1, <1>2, <4>2, <4>5, ProceedOne
    <3>4. QED
      BY <3>1, <3>2, <3>3
  <2>2. CASE ~(n < InsertThreshold)
    <3>1. n >= 5
      BY <2>2, ThresholdsAssumption
    <3>2. PICK t : t = FindPivot(l, n - 1)
      OBVIOUS
    <3>3. work' = <<t, s>> \o Tail(work)
      BY <1>7, <2>2, <3>2
    <3>4. n - 1 \in Nat /\ n - 1 >= 4 /\ l + (n - 1) < size
      BY <1>2, <1>4, <1>5, <3>1
    <3>5. Inserting(size, t, st', list')
      BY <1>2, <1>4, <1>7, <3>2, <3>4, PivotInserting
    <3>6. s \in Waits /\ s.do = "split" /\ s.l = l /\ s.h = h
      BY <1>3, <1>4, <1>6 DEF Waits
    <3>7. Waiting(size, s)
      BY <1>4, <1>5, <3>1, <3>6 DEF Waiting
    <3>8. QED
      BY <1>1, <1>2, <3>3, <3>5, <3>7, ProceedTwo DEF Doing
  <2>3. QED
    BY <2>1, <2>2
<1>9. QED
  BY <1>2, <1>7, <1>8, SortStep, UnmovedMoves

(* partition begins: the pivot goes to the stack.                          *)
LEMMA SplitKeeps ==
  ASSUME call \in Calls, Short, SortInv, Split
  PROVE  SortInv'
<1>1. phase = "run" /\ work # <<>> /\ Task.do = "split"
  BY DEF Split, Expands
<1>2. /\ WorkOK(size, work, st, list) /\ Waiting(size, Task) /\ st = <<>>
      /\ list \in Seq(Int) /\ size \in Nat
      /\ \A k \in 0..(size - 1) : k \in 0..(Len(list) - 1) /\ At(k) \in Int
  BY <1>1, TaskIs, DoingIs
<1>3. /\ Task.l \in Int /\ Task.h \in Int
      /\ 0 <= Task.l /\ Task.l < Task.h /\ Task.h < size
  BY <1>1, <1>2 DEF Waiting, Waits
<1>4. PICK t : t = Rise(Task, Task.l + 1, Task.h + 1)
  OBVIOUS
<1>5. t \in Parts /\ t.do = "rise" /\ t.l = Task.l /\ t.h = Task.h /\ t.a = Task.l + 1 /\ t.b = Task.h + 1
  BY <1>3, <1>4 DEF Rise, Parts
<1>6. /\ work' = <<t>> \o Tail(work) /\ list' = list /\ st' = Append(st, At(Task.l)) /\ UNCHANGED fixed
  BY <1>4 DEF Split, Continue, Proceed
<1>7. At(Task.l) \in Int
  BY <1>2, <1>3
<1>8. st' = <<At(Task.l)>>
  BY <1>2, <1>6
<1>9. Rising(size, t, st', list')
  BY <1>2, <1>3, <1>5, <1>6, <1>8 DEF Rising, Parting, At
<1>10. WorkOK(size, work', st', list')
  BY <1>1, <1>2, <1>9, <1>6, ProceedOne DEF Doing
<1>11. st' \in Seq(Int)
  BY <1>7, <1>8
<1>12. QED
  BY <1>2, <1>6, <1>10, <1>11, SortStep, UnmovedMoves

(* partition ends: the pivot goes between the parts.                       *)
LEMMA PartedKeeps ==
  ASSUME call \in Calls, Short, SortInv, phase = "run", work # <<>>,
         Parting(size, Task), Task.a <= Task.h,
         NEW s, s = <<At(Task.l), At(Task.a)>>, Parted(s)
  PROVE  SortInv'
<1>1. /\ WorkOK(size, work, st, list) /\ list \in Seq(Int) /\ size \in Nat
      /\ \A k \in 0..(size - 1) : k \in 0..(Len(list) - 1) /\ At(k) \in Int
  BY TaskIs
<1>2. PICK l, h, a : l = Task.l /\ h = Task.h /\ a = Task.a
  OBVIOUS
<1>3. l \in Int /\ h \in Int /\ a \in Int /\ 0 <= l /\ l < a /\ a <= h /\ h < size
  BY <1>2 DEF Parting, Parts
<1>4. PICK below, above : below = Qsort(l, a - 1) /\ above = Qsort(a + 1, h)
  OBVIOUS
<1>5. Waiting(size, below) /\ Waiting(size, above)
  BY <1>1, <1>3, <1>4 DEF Waiting, Waits, Qsort
<1>6. /\ list' = Set2(s, l, a) /\ st' = Drop(s, 2) /\ UNCHANGED fixed
      /\ \/ work' = <<below, above>> \o Tail(work)
         \/ work' = <<above, below>> \o Tail(work)
  <2>1. list' = Set2(s, l, a) /\ st' = Drop(s, 2)
    BY <1>2 DEF Parted
  <2>2. Continue(IF a - l > h - a THEN <<above, below>> ELSE <<below, above>>)
    BY <1>2, <1>4 DEF Parted
  <2>3. /\ work' = (IF a - l > h - a THEN <<above, below>> ELSE <<below, above>>) \o Tail(work)
        /\ UNCHANGED fixed
    BY <2>2 DEF Continue, Proceed
  <2>4. QED
    BY <2>1, <2>3
<1>7. /\ l \in 0..(Len(list) - 1) /\ a \in 0..(Len(list) - 1) /\ l # a
      /\ At(l) \in Int /\ At(a) \in Int
  BY <1>1, <1>3
<1>8. s \in Seq(Int) /\ s[Len(s)] = At(a) /\ s[Len(s) - 1] = At(l) /\ Drop(s, 2) = <<>>
  <2>1. PICK x \in Int, y \in Int : x = At(l) /\ y = At(a)
    BY <1>7
  <2>2. s = <<x, y>>
    BY <1>2, <2>1
  <2>3. s \in Seq(Int) /\ Len(s) = 2 /\ s[2] = y /\ s[1] = x
    BY <2>2
  <2>4. Drop(s, 2) = <<>>
    BY <2>2, ShortStacks
  <2>5. QED
    BY <2>1, <2>3, <2>4
<1>9. list' \in Seq(Int) /\ Moved(list, list')
  BY <1>1, <1>6, <1>7, <1>8, Set2Moves
<1>10. st' = <<>>
  BY <1>6, <1>8
<1>11. Doing(size, below, st', list') /\ Doing(size, above, st', list')
  BY <1>5, <1>10 DEF Doing
<1>12. WorkOK(size, work', st', list')
  <2>1. CASE work' = <<below, above>> \o Tail(work)
    BY <1>1, <1>5, <1>11, <2>1, ProceedTwo
  <2>2. CASE work' = <<above, below>> \o Tail(work)
    BY <1>1, <1>5, <1>11, <2>2, ProceedTwo
  <2>3. QED
    BY <1>6, <2>1, <2>2
<1>13. st' \in Seq(Int)
  BY <1>10
<1>14. QED
  BY <1>6, <1>9, <1>12, <1>13, SortStep

(* partition looks upwards for an element not less than the pivot, and     *)
(* keeps it on the stack when it finds one.                                *)
LEMMA RisePastKeeps ==
  ASSUME call \in Calls, Short, SortInv, NEW lt \in BOOLEAN, RisePast(lt)
  PROVE  SortInv'
<1>1. phase = "run" /\ work # <<>> /\ Task.do = "rise"
  BY DEF RisePast, Asked, Asks
<1>2. /\ WorkOK(size, work, st, list) /\ Rising(size, Task, st, list)
      /\ list \in Seq(Int) /\ st \in Seq(Int) /\ size \in Nat
      /\ \A k \in 0..(size - 1) : k \in 0..(Len(list) - 1) /\ At(k) \in Int
  BY <1>1, TaskIs, DoingIs
<1>3. PICK l, h, a, b : l = Task.l /\ h = Task.h /\ a = Task.a /\ b = Task.b
  OBVIOUS
<1>4. /\ l \in Int /\ h \in Int /\ a \in Int /\ b \in Int
      /\ 0 <= l /\ l < a /\ a < b /\ b <= h + 1 /\ h < size
  BY <1>2, <1>3 DEF Rising, Parting, Parts
<1>5. At(l) \in Int /\ At(a) \in Int /\ l \in 0..(size - 1) /\ a \in 0..(size - 1) /\ a <= h
  BY <1>2, <1>4
<1>6. Full = <<At(l), At(a)>>
  <2>1. Operands = <<At(a)>>
    BY <1>1, <1>3 DEF Operands
  <2>2. st = <<At(l)>>
    BY <1>2, <1>3 DEF Rising, At
  <2>3. QED
    BY <1>5, <2>1, <2>2, ShortStacks DEF Full
<1>7. CASE a + 1 = b
  <2>1. Parted(Full)
    BY <1>3, <1>7 DEF RisePast
  <2>2. Parting(size, Task)
    BY <1>2 DEF Rising
  <2>3. QED
    BY <1>1, <1>3, <1>5, <1>6, <2>1, <2>2, PartedKeeps
<1>8. CASE a + 1 # b /\ lt
  <2>1. PICK t : t = Rise(Task, a + 1, b)
    OBVIOUS
  <2>2. t \in Parts /\ t.do = "rise" /\ t.l = l /\ t.h = h /\ t.a = a + 1 /\ t.b = b
    BY <1>3, <1>4, <2>1 DEF Rise, Parts
  <2>3. Step(<<t>>)
    BY <1>3, <1>8, <2>1 DEF RisePast
  <2>4. work' = <<t>> \o Tail(work) /\ list' = list /\ st' = st /\ UNCHANGED fixed
    BY <2>3 DEF Step, Continue, Proceed
  <2>5. Parting(size, t)
    BY <1>4, <1>8, <2>2 DEF Parting
  <2>6. Rising(size, t, st', list')
    BY <1>2, <1>3, <2>2, <2>4, <2>5 DEF Rising
  <2>7. Doing(size, t, st', list')
    BY <2>6 DEF Doing
  <2>8. WorkOK(size, work', st', list')
    BY <1>1, <1>2, <2>4, <2>7, ProceedOne
  <2>9. QED
    BY <1>2, <2>4, <2>8, SortStep, UnmovedMoves
<1>9. CASE a + 1 # b /\ ~lt
  <2>1. PICK t : t = Fall(Task, a, b - 1)
    OBVIOUS
  <2>2. t \in Parts /\ t.do = "fall" /\ t.l = l /\ t.h = h /\ t.a = a /\ t.b = b - 1
    BY <1>3, <1>4, <2>1 DEF Fall, Rise, Parts
  <2>3. st' = Full /\ Continue(<<t>>) /\ list' = list
    BY <1>3, <1>9, <2>1 DEF RisePast
  <2>4. work' = <<t>> \o Tail(work) /\ UNCHANGED fixed
    BY <2>3 DEF Continue, Proceed
  <2>5. Parting(size, t)
    BY <1>4, <1>9, <2>2 DEF Parting
  <2>6. Falling(size, t, st', list')
    <3>1. t.b <= t.h
      BY <1>4, <2>2
    <3>2. QED
      BY <1>6, <2>2, <2>3, <2>5, <3>1 DEF Falling, At
  <2>7. Doing(size, t, st', list')
    BY <2>6 DEF Doing
  <2>8. WorkOK(size, work', st', list')
    BY <1>1, <1>2, <2>4, <2>7, ProceedOne
  <2>9. st' \in Seq(Int)
    BY <1>5, <1>6, <2>3
  <2>10. QED
    BY <1>2, <2>3, <2>4, <2>8, <2>9, SortStep, UnmovedMoves
<1>10. QED
  BY <1>7, <1>8, <1>9

(* partition looks downwards for one that is less; the two change places.  *)
LEMMA FallPastKeeps ==
  ASSUME call \in Calls, Short, SortInv, NEW lt \in BOOLEAN, FallPast(lt)
  PROVE  SortInv'
<1>1. phase = "run" /\ work # <<>> /\ Task.do = "fall"
  BY DEF FallPast, Asked, Asks
<1>2. /\ WorkOK(size, work, st, list) /\ Falling(size, Task, st, list)
      /\ list \in Seq(Int) /\ st \in Seq(Int) /\ size \in Nat /\ Len(list) \in Nat
      /\ \A k \in 0..(size - 1) : k \in 0..(Len(list) - 1) /\ At(k) \in Int
  BY <1>1, TaskIs, DoingIs
<1>3. PICK l, h, a, b : l = Task.l /\ h = Task.h /\ a = Task.a /\ b = Task.b
  OBVIOUS
<1>4. /\ l \in Int /\ h \in Int /\ a \in Int /\ b \in Int
      /\ 0 <= l /\ l < a /\ a < b /\ b <= h /\ h < size
  BY <1>2, <1>3 DEF Falling, Parting, Parts
<1>5. /\ At(l) \in Int /\ At(a) \in Int /\ At(b) \in Int
      /\ l \in 0..(Len(list) - 1) /\ a \in 0..(Len(list) - 1) /\ b \in 0..(Len(list) - 1)
  <2>1. l \in 0..(size - 1) /\ a \in 0..(size - 1) /\ b \in 0..(size - 1)
    BY <1>2, <1>4
  <2>2. QED
    BY <1>2, <2>1
<1>6. st = <<At(l), At(a)>>
  BY <1>2, <1>3 DEF Falling, At
<1>7. CASE a + 1 = b
  <2>1. Parted(st)
    BY <1>3, <1>7 DEF FallPast
  <2>2. Parting(size, Task) /\ Task.a <= Task.h
    BY <1>2, <1>3, <1>4 DEF Falling
  <2>3. st = <<At(Task.l), At(Task.a)>>
    BY <1>3, <1>6
  <2>4. QED
    BY <1>1, <2>1, <2>2, <2>3, PartedKeeps
<1>8. CASE a + 1 # b /\ lt
  <2>1. PICK t : t = Fall(Task, a, b - 1)
    OBVIOUS
  <2>2. t \in Parts /\ t.do = "fall" /\ t.l = l /\ t.h = h /\ t.a = a /\ t.b = b - 1
    BY <1>3, <1>4, <2>1 DEF Fall, Rise, Parts
  <2>3. Step(<<t>>)
    BY <1>3, <1>8, <2>1 DEF FallPast
  <2>4. work' = <<t>> \o Tail(work) /\ list' = list /\ st' = st /\ UNCHANGED fixed
    BY <2>3 DEF Step, Continue, Proceed
  <2>5. Parting(size, t) /\ t.b <= t.h
    BY <1>4, <1>8, <2>2 DEF Parting
  <2>6. Falling(size, t, st', list')
    BY <1>2, <1>3, <2>2, <2>4, <2>5 DEF Falling
  <2>7. Doing(size, t, st', list')
    BY <2>6 DEF Doing
  <2>8. WorkOK(size, work', st', list')
    BY <1>1, <1>2, <2>4, <2>7, ProceedOne
  <2>9. QED
    BY <1>2, <2>4, <2>8, SortStep, UnmovedMoves
<1>9. CASE a + 1 # b /\ ~lt
  <2>1. PICK t : t = Rise(Task, a + 1, b)
    OBVIOUS
  <2>2. t \in Parts /\ t.do = "rise" /\ t.l = l /\ t.h = h /\ t.a = a + 1 /\ t.b = b
    BY <1>3, <1>4, <2>1 DEF Rise, Parts
  <2>3. list' = Set2(Full, a, b) /\ st' = Drop(Full, 2) /\ Continue(<<t>>)
    BY <1>3, <1>9, <2>1 DEF FallPast
  <2>4. work' = <<t>> \o Tail(work) /\ UNCHANGED fixed
    BY <2>3 DEF Continue, Proceed
  <2>5. Full = <<At(l), At(a), At(b)>>
    <3>1. Operands = <<At(b)>>
      BY <1>1, <1>3 DEF Operands
    <3>2. QED
      BY <1>5, <1>6, <3>1, ShortStacks DEF Full
  <2>6. Full \in Seq(Int) /\ Full[Len(Full)] = At(b) /\ Full[Len(Full) - 1] = At(a)
    BY <1>5, <2>5
  <2>7. list' \in Seq(Int) /\ Moved(list, list')
    <3>1. a # b
      BY <1>4
    <3>2. QED
      BY <1>2, <1>5, <2>3, <2>6, <3>1, Set2Moves
  <2>8. list'[l + 1] = At(l)
    <3>1. PICK x, y : list' = Put(Put(list, a, x), b, y)
      BY <2>3 DEF Set2
    <3>2. l + 1 # a + 1 /\ l + 1 # b + 1 /\ l + 1 \in DOMAIN list
      <4>1. DOMAIN list = 1..Len(list)
        BY <1>2
      <4>2. QED
        BY <1>2, <1>4, <1>5, <4>1
    <3>3. QED
      BY <3>1, <3>2 DEF Put, At
  <2>9. st' = <<At(l)>>
    BY <1>5, <2>3, <2>5, ShortStacks
  <2>10. Parting(size, t)
    BY <1>4, <1>9, <2>2 DEF Parting
  <2>11. Rising(size, t, st', list')
    BY <2>2, <2>8, <2>9, <2>10 DEF Rising
  <2>12. Doing(size, t, st', list')
    BY <2>11 DEF Doing
  <2>13. WorkOK(size, work', st', list')
    BY <1>1, <1>2, <2>4, <2>12, ProceedOne
  <2>14. st' \in Seq(Int)
    BY <1>5, <2>9
  <2>15. QED
    BY <2>4, <2>7, <2>13, <2>14, SortStep
<1>10. QED
  BY <1>7, <1>8, <1>9

(* The comparator appends to the list.                                     *)
LEMMA AppendKeeps ==
  ASSUME call \in Calls, Short, SortInv, NEW x \in Extra, AppendByScript(x)
  PROVE  SortInv'
<1>1. phase = "run" /\ work # <<>>
  BY DEF AppendByScript, Asks
<1>2. /\ list' = Append(list, x) /\ given' = Append(given, x) /\ x \in Int
      /\ st' = st /\ work' = work /\ phase' = phase /\ size' = size
  BY ExtraAssumption DEF AppendByScript, size
<1>3. /\ WorkOK(size, work, st, list) /\ Doing(size, Task, st, list)
      /\ list \in Seq(Int) /\ st \in Seq(Int) /\ size \in Nat
      /\ Len(list) \in Nat /\ Len(list) >= size
  BY <1>1, TaskIs
<1>4. given \in Seq(Int) /\ \A y : Occurrences(list, y) = Occurrences(given, y)
  BY DEF SortInv
<1>5. /\ list' \in Seq(Int) /\ given' \in Seq(Int) /\ Len(list') = Len(list) + 1
      /\ \A k \in 1..Len(list) : list'[k] = list[k]
  BY <1>2, <1>3, <1>4, AppendProperties
<1>6. \A y : Occurrences(list', y) = Occurrences(given', y)
  <2>1. TAKE y
  <2>2. Occurrences(list', y) = Occurrences(list, y) + (IF x = y THEN 1 ELSE 0)
    <3>1. list \in Seq(Int) /\ x \in Int /\ list' = Append(list, x)
      BY <1>2, <1>3
    <3>2. Occurrences(Append(list, x), y) = Occurrences(list, y) + (IF x = y THEN 1 ELSE 0)
      BY <3>1, AppendedOccurrences
    <3>3. QED
      BY <3>1, <3>2
  <2>3. Occurrences(given', y) = Occurrences(given, y) + (IF x = y THEN 1 ELSE 0)
    <3>1. given \in Seq(Int) /\ x \in Int /\ given' = Append(given, x)
      BY <1>2, <1>4
    <3>2. Occurrences(Append(given, x), y) = Occurrences(given, y) + (IF x = y THEN 1 ELSE 0)
      BY <3>1, AppendedOccurrences
    <3>3. QED
      BY <3>1, <3>2
  <2>4. QED
    BY <1>4, <2>2, <2>3
<1>7. \A k \in Int : 0 <= k /\ k < size => list'[k + 1] = list[k + 1]
  <2>1. \A k \in Int : 0 <= k /\ k < size => k + 1 \in 1..Len(list)
    BY <1>3
  <2>2. QED
    BY <1>5, <2>1
<1>8. ASSUME NEW t, Doing(size, t, st, list) PROVE Doing(size, t, st, list')
  <2>1. ASSUME Inserting(size, t, st, list) PROVE Inserting(size, t, st, list')
    <3>1. PICK src : Sources(st, list, src) /\ Shared(src, t.todo, t.back)
      BY <2>1 DEF Inserting
    <3>2. Sources(st, list', src)
      <4>1. src \in Seq(Int) /\ Len(src) = Len(st)
        BY <3>1 DEF Sources
      <4>2. ASSUME NEW k \in 1..Len(st) PROVE src[k] \in 0..(Len(list') - 1) /\ st[k] = list'[src[k] + 1]
        <5>1. src[k] \in 0..(Len(list) - 1) /\ st[k] = list[src[k] + 1]
          BY <3>1 DEF Sources
        <5>2. src[k] + 1 \in 1..Len(list) /\ src[k] \in 0..(Len(list') - 1)
          <6>1. PICK j \in Int : j = src[k]
            BY <5>1
          <6>2. PICK n \in Nat : n = Len(list) /\ n + 1 = Len(list')
            BY <1>3, <1>5
          <6>3. j + 1 \in 1..n /\ j \in 0..(n + 1 - 1)
            BY <5>1, <6>1, <6>2
          <6>4. QED
            BY <6>1, <6>2, <6>3
        <5>3. QED
          BY <1>5, <5>1, <5>2
      <4>3. QED
        BY <4>1, <4>2 DEF Sources
    <3>3. QED
      BY <2>1, <3>1, <3>2 DEF Inserting
  <2>2. ASSUME Rising(size, t, st, list) PROVE Rising(size, t, st, list')
    <3>1. t.l \in Int /\ 0 <= t.l /\ t.l < size
      BY <1>3, <2>2 DEF Rising, Parting, Parts
    <3>2. QED
      BY <1>7, <2>2, <3>1 DEF Rising
  <2>3. ASSUME Falling(size, t, st, list) PROVE Falling(size, t, st, list')
    <3>1. t.l \in Int /\ 0 <= t.l /\ t.l < size /\ t.a \in Int /\ 0 <= t.a /\ t.a < size
      <4>1. t.l \in Int /\ t.h \in Int /\ t.a \in Int /\ t.b \in Int
        BY <2>3 DEF Falling, Parting, Parts
      <4>2. 0 <= t.l /\ t.l < t.a /\ t.a < t.b /\ t.b <= t.h /\ t.h < size
        BY <2>3 DEF Falling, Parting
      <4>3. QED
        BY <1>3, <4>1, <4>2
    <3>2. QED
      BY <1>7, <2>3, <3>1 DEF Falling
  <2>4. QED
    BY <1>8, <2>1, <2>2, <2>3 DEF Doing
<1>9. WorkOK(size, work', st', list')
  BY <1>2, <1>3, <1>8 DEF WorkOK
<1>10. Len(list') >= size'
  BY <1>2, <1>3, <1>5
<1>11. QED
  BY <1>2, <1>3, <1>5, <1>6, <1>9, <1>10 DEF SortInv

-----------------------------------------------------------------------------
(* A call begins with nothing on the stack and the list as it was given.   *)
LEMMA SortInit == ASSUME Init PROVE LInv
<1>1. call \in Calls /\ list = call.list /\ given = list /\ st = <<>> /\ call.list \in Seq(Int)
  BY CallsAssumption DEF Init
<1>2. size \in Nat /\ Len(list) = size
  BY <1>1 DEF size
<1>3. ASSUME Short PROVE WorkOK(size, work, st, list)
  <2>1. PICK t : t = Qsort(0, size - 1)
    OBVIOUS
  <2>2. work = <<t>>
    BY <1>3, <2>1 DEF Init, Short
  <2>3. Waiting(size, t)
    BY <1>2, <2>1 DEF Waiting, Waits, Qsort
  <2>4. t \in SortTask /\ Doing(size, t, st, list)
    BY <1>1, <2>3, WaitingTask DEF Doing
  <2>5. work \in Seq(SortTask) /\ work # <<>> /\ work[1] = t /\ Len(work) = 1
    BY <2>2, <2>4
  <2>6. \A k \in 2..Len(work) : FALSE
    BY <2>5
  <2>7. QED
    BY <2>4, <2>5, <2>6 DEF WorkOK
<1>4. ASSUME Short PROVE SortInv
  <2>1. st \in Seq(Int)
    BY <1>1
  <2>2. QED
    BY <1>1, <1>2, <1>3, <1>4, <2>1 DEF SortInv
<1>5. QED
  BY <1>1, <1>4 DEF LInv

(* What sort asks for or expands, a list that is short, is never a run or  *)
(* a merge.                                                                *)
LEMMA SortNext == ASSUME LInv, [Next]_vars PROVE LInv'
<1>1. call' = call /\ call \in Calls
  BY DEF LInv, Next, vars, fixed, Pair, Search, RisePast, FallPast, StartRun, RunOn, RunBroken, RunAtEnd, EndRun,
     Lead, Take, ShiftOn, ShiftedAll, Settle, NextSample, PutBack, ExpandQsort, Split, Parted, Scanned, ExpandMsort,
     Basis, Merged, Return, Map, Filter, Trim, Accumulate, AccumulateBack, Iterated, Throw, AppendByScript,
     Step, Continue, Proceed
<1>2. size' = size /\ (Short' <=> Short)
  BY <1>1 DEF Short, size
<1>3. SUFFICES ASSUME Short, SortInv PROVE SortInv'
  BY <1>1, <1>2 DEF LInv
<1>4. ASSUME UNCHANGED vars PROVE SortInv'
  BY <1>2, <1>3, <1>4 DEF vars, fixed, SortInv
<1>5. ASSUME Return PROVE SortInv'
  BY <1>2, <1>3, <1>5 DEF Return, SortInv
<1>6. ASSUME Throw PROVE SortInv'
  <2>1. /\ list' = list /\ given' = given /\ phase' = "error" /\ st' = <<>>
    BY <1>6 DEF Throw
  <2>2. st' \in Seq(Int)
    BY <2>1
  <2>3. QED
    BY <1>2, <1>3, <2>1, <2>2 DEF SortInv
<1>7. ASSUME phase = "run", work # <<>>
      PROVE  Task.do \in {"qsort", "split", "pair", "sorting", "rise", "fall"}
  BY <1>1, <1>3, <1>7, TaskIs, DoingIs
<1>8. ASSUME NEW lt \in BOOLEAN
      PROVE  ~StartRun(lt) /\ ~RunOn(lt) /\ ~RunBroken(lt) /\ ~Lead(lt) /\ ~Take(lt) /\ ~ShiftOn(lt)
  BY <1>7 DEF Asks, Asked, StartRun, RunOn, RunBroken, Lead, Take, ShiftOn
<1>9. /\ ~RunAtEnd /\ ~Scanned /\ ~ExpandMsort /\ ~Basis /\ ~ShiftedAll /\ ~Merged("lead") /\ ~Merged("take")
      /\ ~Trim /\ \A do \in {"map", "fold", "foldl", "foldr"} : ~Iterated(do)
  BY <1>7 DEF Expands, RunAtEnd, Scanned, ExpandMsort, Basis, ShiftedAll, Merged, Trim, Iterated
<1>10. ~Map /\ ~Filter /\ ~Accumulate("fold") /\ ~Accumulate("foldl") /\ ~AccumulateBack
  BY <1>7 DEF Asks, Iterating, Map, Filter, Accumulate, AccumulateBack
<1>11. QED
  BY SMTT(60), <1>1, <1>3, <1>4, <1>5, <1>6, <1>8, <1>9, <1>10, PairKeeps, SearchKeeps, RisePastKeeps, FallPastKeeps,
     NextSampleKeeps, PutBackKeeps, ExpandQsortKeeps, SplitKeeps, AppendKeeps DEF Next

(* Whatever the comparator answers, throws or appends, and whatever the    *)
(* thresholds are, the list that sort leaves has the elements it was given,*)
(* each as often as before, and so it is between two answers: the elements *)
(* that are held on the stack are never the only copies.                   *)
THEOREM NothingIsLost == Spec => []NothingLost
<1>1. LInv => NothingLost
  BY DEF LInv, SortInv, NothingLost
<1>2. QED
  BY <1>1, SortInit, SortNext, PTL DEF Spec

-----------------------------------------------------------------------------
(* A list too short to be partitioned, in the natural order.               *)

Insertion == call.op = "sort" /\ call.cmp = "natural" /\ size < InsertThreshold
Ascends(l) == \A i \in 1..(size - 1) : l[i] <= l[i + 1]

(* Below the top, which is slot n + 2, the stack is in order; what is below *)
(* slot lo is less than the top, and what is not below slot hi is not.      *)
Placing(t, s) == /\ \A i, j \in 1..t.n : i <= j => s[i] <= s[j]
                 /\ \A k \in 1..(t.lo - 2) : s[k] < s[t.n + 1]
                 /\ \A k \in (t.hi - 1)..t.n : s[t.n + 1] <= s[k]
Whole(t, s) == \/ t.do = "qsort" /\ t.l = 0 /\ t.h = size - 1
               \/ t.do = "pair" /\ t.i = 0 /\ size = 2
               \/ /\ t.do = "sorting" /\ Len(t.back) = size
                  /\ \A k \in 1..size : t.back[k] = size - k
                  /\ Placing(t, s)

OrderInv == /\ Len(list) = size /\ phase # "error"
            /\ phase = "run" /\ work # <<>> => Tail(work) = <<>> /\ Whole(Task, st)
            /\ phase = "done" \/ work = <<>> => Ascends(list)

(* A list below InsertThreshold is never sorted by runs.                   *)
LEMMA InsertionShort == ASSUME Insertion PROVE Short
BY ThresholdsAssumption, CallsAssumption DEF Insertion, Short, size

(* One call is on the stack, or none.                                      *)
LEMMA LastCall ==
  ASSUME NEW t
  PROVE  /\ <<t>> \o <<>> = <<t>> /\ <<t>> # <<>> /\ Head(<<t>>) = t /\ Tail(<<t>>) = <<>>
         /\ <<>> \o <<>> = <<>>
<1>1. <<t>> \in Seq({t}) /\ <<>> \in Seq({t})
  OBVIOUS
<1>2. <<t>> \o <<>> = <<t>> /\ <<>> \o <<>> = <<>>
  BY <1>1, ConcatEmptySeq
<1>3. QED
  BY <1>2

(* The natural comparator says whether one slot is less than the other.    *)
LEMMA AnswerIs ==
  ASSUME call.cmp = "natural", NEW do, NEW lt \in BOOLEAN, Asked(do, lt),
         NEW i, NEW j, Slots = <<i, j>>
  PROVE  lt <=> Full[i - 1] < Full[j - 1]
<1>1. Slots[1] = i /\ Slots[2] = j
  OBVIOUS
<1>2. lt \in {Slot(Full, i) < Slot(Full, j)}
  BY <1>1 DEF Asked, Answers
<1>3. QED
  BY <1>2 DEF Slot

(* A list of two: the pair is put in order.                                *)
LEMMA PairOrders ==
  ASSUME call \in Calls, Insertion, SortInv, OrderInv, NEW lt \in BOOLEAN, Pair(lt)
  PROVE  OrderInv'
<1>1. phase = "run" /\ work # <<>> /\ Task.do = "pair" /\ Asked("pair", lt)
  BY DEF Pair, Asked, Asks
<1>2. Tail(work) = <<>> /\ Task.i = 0 /\ size = 2
  BY <1>1 DEF OrderInv, Whole
<1>3. /\ list' = (IF lt THEN list ELSE Set2(Full, 0, 0 + 1)) /\ work' = <<>>
      /\ phase' = phase /\ size' = size
  <2>1. work' = <<>> \o Tail(work) /\ UNCHANGED fixed
    BY DEF Pair, Continue, Proceed
  <2>2. work' = <<>>
    BY <1>2, <2>1, LastCall
  <2>3. QED
    BY <1>2, <2>1, <2>2 DEF Pair, fixed, size
<1>4. list \in Seq(Int) /\ Len(list) = 2 /\ st = <<>>
  BY <1>1, <1>2, TaskIs, DoingIs DEF OrderInv, Pairing
<1>5. PICK x \in Int, y \in Int : x = list[1] /\ y = list[2]
  <2>1. 1 \in 1..Len(list) /\ 2 \in 1..Len(list)
    BY <1>4
  <2>2. list[1] \in Int /\ list[2] \in Int
    BY <1>4, <2>1
  <2>3. QED
    BY <2>2
<1>6. Full = <<x, y>>
  <2>1. At(0) = x /\ At(0 + 1) = y
    BY <1>5 DEF At
  <2>2. Operands = <<x, y>>
    BY <1>1, <1>2, <2>1 DEF Operands
  <2>3. QED
    BY <1>4, <2>2, ShortStacks DEF Full
<1>7. lt <=> x < y
  <2>1. Slots = <<2, 3>>
    BY <1>1 DEF Slots
  <2>2. lt <=> Full[2 - 1] < Full[3 - 1]
    BY <1>1, <2>1, AnswerIs DEF Insertion
  <2>3. QED
    BY <1>6, <2>2
<1>8. Len(list') = 2 /\ list'[1] <= list'[2]
  <2>1. CASE lt
    BY <1>3, <1>4, <1>5, <1>7, <2>1
  <2>2. CASE ~lt
    <3>1. Full[Len(Full)] = y /\ Full[Len(Full) - 1] = x
      BY <1>6
    <3>2. list' = Put(Put(list, 0, y), 0 + 1, x)
      BY <1>3, <2>2, <3>1 DEF Set2
    <3>3. DOMAIN list = 1..2 /\ 1 \in 1..2 /\ 2 \in 1..2
      BY <1>4
    <3>4. list'[1] = y /\ list'[2] = x
      BY <3>2, <3>3 DEF Put
    <3>5. Len(list') = 2
      <4>1. DOMAIN list' = 1..2
        BY <3>2, <3>3 DEF Put
      <4>2. list' = [k \in 1..2 |-> list'[k]]
        BY <3>2, <4>1 DEF Put
      <4>3. PICK m \in Nat : m = 2
        OBVIOUS
      <4>4. list' = [k \in 1..m |-> list'[k]]
        BY <4>2, <4>3
      <4>5. Len(list') = m
        BY <4>4
      <4>6. QED
        BY <4>3, <4>5
    <3>6. QED
      BY <1>5, <1>7, <2>2, <3>4, <3>5
  <2>3. QED
    BY <2>1, <2>2
<1>9. Ascends(list)'
  <2>1. \A i \in 1..(2 - 1) : i = 1
    OBVIOUS
  <2>2. QED
    BY <1>2, <1>3, <1>8, <2>1 DEF Ascends
<1>10. QED
  BY <1>1, <1>2, <1>3, <1>8, <1>9 DEF OrderInv

(* Half of the range where the top may go is left, the half that the       *)
(* answer names.                                                           *)
LEMMA SearchOrders ==
  ASSUME call \in Calls, Insertion, SortInv, OrderInv, NEW lt \in BOOLEAN, Search(lt)
  PROVE  OrderInv'
<1>1. phase = "run" /\ work # <<>> /\ Task.do = "sorting" /\ Task.lo < Task.hi /\ Asked("sorting", lt)
  BY DEF Search, Asked, Asks
<1>2. /\ Tail(work) = <<>> /\ Len(Task.back) = size /\ Placing(Task, st)
      /\ \A k \in 1..size : Task.back[k] = size - k
  BY <1>1 DEF OrderInv, Whole
<1>3. PICK t : t = IF lt THEN [Task EXCEPT !.lo = Middle + 1] ELSE [Task EXCEPT !.hi = Middle]
  OBVIOUS
<1>4. work' = <<t>> /\ list' = list /\ st' = st /\ phase' = phase /\ size' = size
  <2>1. work' = <<t>> \o Tail(work) /\ list' = list /\ st' = st /\ UNCHANGED fixed
    BY <1>3 DEF Search, Step, Continue, Proceed
  <2>2. QED
    BY <1>2, <2>1, LastCall DEF fixed, size
<1>5. Inserting(size, Task, st, list) /\ st \in Seq(Int)
  BY <1>1, TaskIs, DoingIs
<1>6. /\ Task \in Sorts /\ Task.lo \in Int /\ Task.hi \in Int /\ Task.n \in Int
      /\ Task.n >= -1 /\ Len(st) = Task.n + 1 /\ 2 <= Task.lo /\ Task.hi <= Task.n + 2
  BY <1>1, <1>5 DEF Inserting, Sorts
<1>7. PICK m \in Int : m = Middle /\ Task.lo <= m /\ m < Task.hi
  BY <1>1, <1>6 DEF Middle
<1>8. /\ t.do = "sorting" /\ t.back = Task.back /\ t.n = Task.n
      /\ t.lo = (IF lt THEN m + 1 ELSE Task.lo) /\ t.hi = IF lt THEN Task.hi ELSE m
  <2>1. CASE lt
    BY <1>1, <1>3, <1>6, <1>7, <2>1 DEF Sorts
  <2>2. CASE ~lt
    BY <1>1, <1>3, <1>6, <1>7, <2>2 DEF Sorts
  <2>3. QED
    BY <2>1, <2>2
<1>9. PICK n \in Int, lo \in Int, hi \in Int : n = Task.n /\ lo = Task.lo /\ hi = Task.hi
  BY <1>6
<1>10. Full = st
  <2>1. Operands = <<>>
    BY <1>1 DEF Operands
  <2>2. QED
    BY <1>5, <2>1, ConcatEmptySeq DEF Full
<1>11. lt <=> st[m - 1] < st[n + 1]
  <2>1. Slots = <<m, 2 + n>>
    BY <1>1, <1>7, <1>9 DEF Slots
  <2>2. lt <=> Full[m - 1] < Full[(2 + n) - 1]
    BY <1>1, <2>1, AnswerIs DEF Insertion
  <2>3. (2 + n) - 1 = n + 1
    OBVIOUS
  <2>4. QED
    BY <1>10, <2>2, <2>3
<1>12. /\ \A i, j \in 1..n : i <= j => st[i] <= st[j]
       /\ \A k \in 1..(lo - 2) : st[k] < st[n + 1]
       /\ \A k \in (hi - 1)..n : st[n + 1] <= st[k]
  BY <1>2, <1>9 DEF Placing
<1>13. \A k \in 1..(n + 1) : st[k] \in Int
  BY <1>5, <1>6, <1>9
<1>14. m - 1 \in 1..n /\ n + 1 \in 1..(n + 1) /\ m - 1 \in 1..(n + 1)
  BY SMTT(40), <1>6, <1>7, <1>9
<1>15. Placing(t, st)
  <2>1. CASE lt
    <3>1. \A k \in 1..(m + 1 - 2) : st[k] < st[n + 1]
      <4>1. TAKE k \in 1..(m + 1 - 2)
      <4>2. k \in 1..n /\ k \in 1..(n + 1) /\ k <= m - 1
        BY SMTT(40), <1>6, <1>7, <1>9
      <4>3. st[k] <= st[m - 1]
        BY <1>12, <1>14, <4>2
      <4>4. st[m - 1] < st[n + 1]
        BY <1>11, <2>1
      <4>5. QED
        BY <1>13, <1>14, <4>2, <4>3, <4>4
    <3>2. t.n = n /\ t.lo = m + 1 /\ t.hi = hi
      BY <1>8, <1>9, <2>1
    <3>3. QED
      BY <1>12, <3>1, <3>2 DEF Placing
  <2>2. CASE ~lt
    <3>1. \A k \in (m - 1)..n : st[n + 1] <= st[k]
      <4>1. TAKE k \in (m - 1)..n
      <4>2. k \in 1..n /\ k \in 1..(n + 1) /\ m - 1 <= k
        BY <1>6, <1>7, <1>9
      <4>3. st[m - 1] <= st[k]
        BY <1>12, <1>14, <4>2
      <4>4. ~(st[m - 1] < st[n + 1])
        BY <1>11, <2>2
      <4>5. QED
        BY <1>13, <1>14, <4>2, <4>3, <4>4
    <3>2. t.n = n /\ t.lo = lo /\ t.hi = m
      BY <1>8, <1>9, <2>2
    <3>3. QED
      BY <1>12, <3>1, <3>2 DEF Placing
  <2>3. QED
    BY <2>1, <2>2
<1>16. Whole(t, st)
  BY <1>2, <1>8, <1>15 DEF Whole
<1>17. Whole(Task, st)'
  <2>1. Task' = t
    BY <1>4, LastCall DEF Task
  <2>2. QED
    BY <1>4, <1>16, <2>1 DEF Whole
<1>18. Tail(work') = <<>> /\ work' # <<>> /\ Len(list') = size' /\ phase' = "run"
  BY <1>1, <1>4, LastCall DEF OrderInv
<1>19. QED
  BY <1>17, <1>18 DEF OrderInv

(* Once its place is found, the top goes where the stack stays in order.   *)
LEMMA PlacedOrders ==
  ASSUME NEW N, NEW l, Inserting(N, Task, st, l), st \in Seq(Int), Placing(Task, st), Task.lo >= Task.hi
  PROVE  \A i, j \in 1..(Task.n + 1) : i <= j => Placed[i] <= Placed[j]
<1>1. PICK n \in Int, lo \in Int, hi \in Int : n = Task.n /\ lo = Task.lo /\ hi = Task.hi
  BY DEF Inserting, Sorts
<1>2. /\ n >= -1 /\ Len(st) = n + 1 /\ 2 <= lo /\ lo = hi
      /\ IF n = -1 THEN hi = 2 ELSE hi <= n + 2
  BY <1>1 DEF Inserting
<1>3. /\ \A i, j \in 1..n : i <= j => st[i] <= st[j]
      /\ \A k \in 1..(lo - 2) : st[k] < st[n + 1]
      /\ \A k \in (lo - 1)..n : st[n + 1] <= st[k]
  BY <1>1, <1>2 DEF Placing
<1>4. \A k \in 1..(n + 1) : st[k] \in Int
  BY <1>2
<1>5. CASE n <= 0
  <2>1. Placed = st
    BY <1>1, <1>5 DEF Placed
  <2>2. ASSUME NEW i \in 1..(n + 1), NEW j \in 1..(n + 1), i <= j PROVE st[i] <= st[j]
    <3>1. i = j
      BY <1>5, <2>2
    <3>2. QED
      BY <1>4, <3>1
  <2>3. QED
    BY <1>1, <2>1, <2>2
<1>6. CASE n > 0
  <2>1. PICK p \in 1..(n + 1) : p = lo - 1
    BY <1>2, <1>6
  <2>2. PICK r : r = Placed
    OBVIOUS
  <2>3. r = InsertAt(Drop(st, 1), p, Last(st))
    BY <1>1, <1>6, <2>1, <2>2 DEF Placed
  <2>4. \A k \in 1..(n + 1) : r[k] = IF k < p THEN st[k] ELSE IF k = p THEN st[n + 1] ELSE st[k - 1]
    <3>1. p \in 1..Len(st)
      BY <1>2, <2>1
    <3>2. PutAt(r, st, p)
      BY <2>3, <3>1, InsertedAt
    <3>3. QED
      BY <1>2, <3>2 DEF PutAt
  <2>5. ASSUME NEW i \in 1..(n + 1), NEW j \in 1..(n + 1), i <= j PROVE r[i] <= r[j]
    <3>1. CASE j < p
      <4>1. i \in 1..n /\ j \in 1..n /\ i < p
        BY <2>1, <2>5, <3>1
      <4>2. QED
        BY <1>3, <2>4, <2>5, <3>1, <4>1
    <3>2. CASE j = p /\ i < p
      <4>1. i \in 1..(lo - 2) /\ n + 1 \in 1..(n + 1)
        BY <1>2, <2>1, <2>5, <3>2
      <4>2. r[i] = st[i] /\ r[j] = st[n + 1] /\ st[i] < st[n + 1]
        BY <1>3, <2>4, <3>2, <4>1
      <4>3. QED
        BY <1>4, <4>1, <4>2
    <3>3. CASE j = p /\ i = p
      <4>1. r[i] = st[n + 1] /\ r[j] = st[n + 1] /\ n + 1 \in 1..(n + 1)
        BY <1>2, <2>4, <3>3
      <4>2. QED
        BY <1>4, <4>1
    <3>4. CASE j > p /\ i < p
      <4>1. i \in 1..n /\ j - 1 \in 1..n /\ i <= j - 1
        BY <2>1, <3>4
      <4>2. r[i] = st[i] /\ r[j] = st[j - 1]
        BY <2>1, <2>4, <3>4
      <4>3. QED
        BY <1>3, <4>1, <4>2
    <3>5. CASE j > p /\ i = p
      <4>1. j - 1 \in (lo - 1)..n
        BY <2>1, <3>5
      <4>2. r[i] = st[n + 1] /\ r[j] = st[j - 1]
        BY <2>1, <2>4, <3>5
      <4>3. QED
        BY <1>3, <4>1, <4>2
    <3>6. CASE j > p /\ i > p
      <4>1. i - 1 \in 1..n /\ j - 1 \in 1..n /\ i - 1 <= j - 1
        BY <2>1, <2>5, <3>6
      <4>2. r[i] = st[i - 1] /\ r[j] = st[j - 1]
        BY <2>1, <2>4, <3>6
      <4>3. QED
        BY <1>3, <4>1, <4>2
    <3>7. QED
      BY <2>1, <2>5, <3>1, <3>2, <3>3, <3>4, <3>5, <3>6
  <2>6. QED
    BY <1>1, <2>2, <2>5
<1>7. QED
  BY <1>2, <1>5, <1>6

(* The next element goes on an ordered stack.                              *)
LEMMA NextSampleOrders ==
  ASSUME call \in Calls, Insertion, SortInv, OrderInv, NextSample
  PROVE  OrderInv'
<1>1. phase = "run" /\ work # <<>> /\ Task.do = "sorting" /\ Task.lo >= Task.hi
  <2>1. phase = "run" /\ work # <<>> /\ Task.do = "sorting" /\ ~(Task.lo < Task.hi)
    BY DEF NextSample, Expands, Asks
  <2>2. Inserting(size, Task, st, list)
    BY <2>1, TaskIs, DoingIs
  <2>3. Task.lo \in Int /\ Task.hi \in Int
    BY <2>2 DEF Inserting, Sorts
  <2>4. QED
    BY <2>1, <2>3
<1>2. /\ Tail(work) = <<>> /\ Len(Task.back) = size /\ Placing(Task, st)
      /\ \A k \in 1..size : Task.back[k] = size - k
  BY <1>1 DEF OrderInv, Whole
<1>3. PICK n, x, q : n = Task.n + 1 /\ x = At(Head(Task.todo)) /\ q = Tail(Task.todo)
  OBVIOUS
<1>4. PICK t : t = [Task EXCEPT !.todo = Tail(@), !.n = @ + 1, !.lo = 2, !.hi = 3 + Task.n]
  OBVIOUS
<1>5. /\ work' = <<t>> /\ list' = list /\ st' = Append(Placed, x)
      /\ phase' = phase /\ size' = size
  <2>1. /\ work' = <<t>> \o Tail(work) /\ list' = list /\ st' = Append(Placed, x) /\ UNCHANGED fixed
    BY <1>3, <1>4 DEF NextSample, Continue, Proceed
  <2>2. QED
    BY <1>2, <2>1, LastCall DEF fixed, size
<1>6. Inserting(size, Task, st, list) /\ st \in Seq(Int)
  BY <1>1, TaskIs, DoingIs
<1>7. Task \in Sorts /\ Task.n \in Int /\ Task.n >= -1
  BY <1>6 DEF Inserting, Sorts
<1>8. n \in Nat /\ 3 + Task.n = n + 2
  BY <1>3, <1>7
<1>9. t.do = "sorting" /\ t.back = Task.back /\ t.n = n /\ t.lo = 2 /\ t.hi = n + 2
  <2>1. PICK k : k = Task
    OBVIOUS
  <2>2. PICK a : a = [k EXCEPT !.todo = q]
    OBVIOUS
  <2>3. PICK b : b = [a EXCEPT !.n = n]
    OBVIOUS
  <2>4. PICK c : c = [b EXCEPT !.lo = 2]
    OBVIOUS
  <2>5. t = [c EXCEPT !.hi = n + 2]
    BY <1>3, <1>4, <1>8, <2>1, <2>2, <2>3, <2>4
  <2>6. DOMAIN k = {"do", "todo", "back", "n", "lo", "hi"} /\ k.do = "sorting" /\ k.back = Task.back
    BY <1>7, <2>1 DEF Sorts
  <2>7. DOMAIN a = {"do", "todo", "back", "n", "lo", "hi"} /\ a.do = "sorting" /\ a.back = Task.back
    BY <2>2, <2>6
  <2>8. DOMAIN b = {"do", "todo", "back", "n", "lo", "hi"} /\ b.do = "sorting" /\ b.back = Task.back /\ b.n = n
    BY <2>3, <2>7
  <2>9. /\ DOMAIN c = {"do", "todo", "back", "n", "lo", "hi"} /\ c.do = "sorting" /\ c.back = Task.back
        /\ c.n = n /\ c.lo = 2
    BY <2>4, <2>8
  <2>10. QED
    BY <2>5, <2>9
<1>10. PICK p : p = Placed
  OBVIOUS
<1>11. p \in Seq(Int) /\ Len(p) = n /\ \A i, j \in 1..n : i <= j => p[i] <= p[j]
  BY <1>1, <1>2, <1>3, <1>6, <1>10, PlacedIs, PlacedOrders
<1>12. \A k \in 1..n : Append(p, x)[k] = p[k]
  <2>1. \A k \in 1..Len(p) : Append(p, x)[k] = p[k]
    BY <1>11
  <2>2. QED
    BY <1>11, <2>1
<1>13. Placing(t, st')
  <2>1. \A i, j \in 1..n : i <= j => st'[i] <= st'[j]
    BY <1>5, <1>10, <1>11, <1>12
  <2>2. \A k \in 1..(2 - 2) : FALSE
    OBVIOUS
  <2>3. \A k \in (n + 2 - 1)..n : FALSE
    BY <1>8
  <2>4. t.n = n /\ t.lo = 2 /\ t.hi = n + 2
    BY <1>9
  <2>5. \A i, j \in 1..t.n : i <= j => st'[i] <= st'[j]
    BY <2>1, <2>4
  <2>6. \A k \in 1..(t.lo - 2) : st'[k] < st'[t.n + 1]
    BY <2>2, <2>4
  <2>7. \A k \in (t.hi - 1)..t.n : st'[t.n + 1] <= st'[k]
    <3>1. \A k \in (t.hi - 1)..t.n : FALSE
      BY <1>8, <2>4
    <3>2. QED
      BY <3>1
  <2>8. QED
    BY <2>5, <2>6, <2>7 DEF Placing
<1>14. Whole(t, st')
  BY <1>2, <1>9, <1>13 DEF Whole
<1>15. Whole(Task, st)'
  <2>1. Task' = t
    BY <1>5, LastCall DEF Task
  <2>2. QED
    BY <1>5, <1>14, <2>1 DEF Whole
<1>16. Tail(work') = <<>> /\ work' # <<>> /\ Len(list') = size' /\ phase' = "run"
  BY <1>1, <1>5, LastCall DEF OrderInv
<1>17. QED
  BY <1>15, <1>16 DEF OrderInv

(* The top is the greatest, and goes to the last position: the list is in  *)
(* order when the last element is back.                                    *)
LEMMA PutBackOrders ==
  ASSUME call \in Calls, Insertion, SortInv, OrderInv, PutBack
  PROVE  OrderInv'
<1>1. phase = "run" /\ work # <<>> /\ Task.do = "sorting" /\ Task.todo = <<>> /\ Task.lo >= Task.hi
  <2>1. phase = "run" /\ work # <<>> /\ Task.do = "sorting" /\ Task.todo = <<>> /\ ~(Task.lo < Task.hi)
    BY DEF PutBack, Expands, Asks
  <2>2. Inserting(size, Task, st, list)
    BY <2>1, TaskIs, DoingIs
  <2>3. Task.lo \in Int /\ Task.hi \in Int
    BY <2>2 DEF Inserting, Sorts
  <2>4. QED
    BY <2>1, <2>3
<1>2. /\ Tail(work) = <<>> /\ Len(Task.back) = size /\ Placing(Task, st)
      /\ \A k \in 1..size : Task.back[k] = size - k
  BY <1>1 DEF OrderInv, Whole
<1>3. PICK p : p = Placed
  OBVIOUS
<1>4. work' = <<>> /\ list' = WrittenBack(list, p, Task.back) /\ phase' = phase /\ size' = size
  <2>1. work' = <<>> \o Tail(work) /\ list' = WrittenBack(list, p, Task.back) /\ UNCHANGED fixed
    BY <1>3 DEF PutBack, Continue, Proceed
  <2>2. QED
    BY <1>2, <2>1, LastCall DEF fixed, size
<1>5. Inserting(size, Task, st, list) /\ st \in Seq(Int) /\ list \in Seq(Int) /\ size \in Nat
  BY <1>1, TaskIs, DoingIs
<1>6. Task.back \in Seq(Int) /\ Len(st) = Task.n + 1 /\ Len(Task.todo) + Len(st) = Len(Task.back)
  BY <1>5 DEF Inserting, Sorts
<1>7. p \in Seq(Int) /\ Len(p) = Task.n + 1 /\ \A i, j \in 1..(Task.n + 1) : i <= j => p[i] <= p[j]
  BY <1>1, <1>2, <1>3, <1>5, PlacedIs, PlacedOrders
<1>8. Task.n + 1 = size
  BY <1>1, <1>2, <1>5, <1>6
<1>9. Distinct(Task.back)
  BY <1>2, <1>5 DEF Distinct
<1>10. DOMAIN list = 1..size /\ Len(list) = size
  BY <1>5 DEF OrderInv
<1>11. \A i \in 1..size : list'[i] = p[i]
  <2>1. TAKE i \in 1..size
  <2>2. PICK k \in 1..size : k = size - i + 1
    <3>1. size - i + 1 \in 1..size
      BY <1>5
    <3>2. QED
      BY <3>1
  <2>3. Task.back[k] = i - 1
    BY <1>2, <1>5, <2>2
  <2>4. WrittenBack(list, p, Task.back)[i] = p[Len(p) - k + 1]
    <3>1. PICK b : b = Task.back
      OBVIOUS
    <3>2. b \in Seq(Int) /\ Distinct(b) /\ p \in Seq(Int) /\ list \in Seq(Int)
      BY <1>5, <1>6, <1>7, <1>9, <3>1
    <3>3. /\ DOMAIN WrittenBack(list, p, b) = DOMAIN list
          /\ \A j \in DOMAIN list, h \in 1..Len(b) : b[h] = j - 1 => WrittenBack(list, p, b)[j] = p[Len(p) - h + 1]
          /\ \A j \in DOMAIN list : ~In(j - 1, b) => WrittenBack(list, p, b)[j] = list[j]
      BY <3>2, WrittenAt
    <3>4. i \in DOMAIN list /\ k \in 1..Len(b) /\ b[k] = i - 1
      BY <1>2, <1>10, <2>3, <3>1
    <3>5. QED
      BY <3>1, <3>3, <3>4
  <2>5. Len(p) - k + 1 = i
    BY <1>5, <1>7, <1>8, <2>2
  <2>6. QED
    BY <1>4, <2>4, <2>5
<1>12. Len(list') = size
  <2>1. DOMAIN list' = 1..size
    BY <1>4, <1>10 DEF WrittenBack
  <2>2. list' = [i \in 1..size |-> list'[i]]
    BY <1>4, <2>1 DEF WrittenBack
  <2>3. QED
    BY <1>5, <2>2
<1>13. \A i \in 1..(size - 1) : list'[i] <= list'[i + 1]
  <2>1. TAKE i \in 1..(size - 1)
  <2>2. i \in 1..size /\ i + 1 \in 1..size /\ i <= i + 1
    BY <1>5
  <2>3. p[i] <= p[i + 1]
    BY <1>7, <1>8, <2>2
  <2>4. QED
    BY <1>11, <2>2, <2>3
<1>14. Ascends(list)'
  BY <1>4, <1>13 DEF Ascends
<1>15. QED
  BY <1>1, <1>4, <1>12, <1>14 DEF OrderInv

(* A list below InsertThreshold is one range, sorted without a pivot.      *)
LEMMA ExpandQsortOrders ==
  ASSUME call \in Calls, Insertion, SortInv, OrderInv, ExpandQsort
  PROVE  OrderInv'
<1>1. phase = "run" /\ work # <<>> /\ Task.do = "qsort"
  BY DEF ExpandQsort, Expands
<1>2. Tail(work) = <<>> /\ Task.l = 0 /\ Task.h = size - 1
  BY <1>1 DEF OrderInv, Whole
<1>3. st = <<>> /\ size \in Nat
  BY <1>1, TaskIs, DoingIs
<1>4. size < InsertThreshold
  BY DEF Insertion
<1>5. Step(Isort(0, size))
  <2>1. Task.h - Task.l + 1 = size
    BY <1>2, <1>3
  <2>2. QED
    BY <1>2, <1>4, <2>1 DEF ExpandQsort
<1>6. /\ work' = Isort(0, size) \o Tail(work) /\ list' = list /\ st' = st
      /\ phase' = phase /\ size' = size
  BY <1>5 DEF Step, Continue, Proceed, fixed, size
<1>7. Len(list) = size
  BY DEF OrderInv
<1>8. CASE size <= 1
  <2>1. Isort(0, size) = <<>>
    BY <1>8 DEF Isort
  <2>2. work' = <<>>
    BY <1>2, <1>6, <2>1, LastCall
  <2>3. Ascends(list)'
    <3>1. \A i \in 1..(size - 1) : FALSE
      BY <1>3, <1>8
    <3>2. QED
      BY <1>6, <3>1 DEF Ascends
  <2>4. QED
    BY <1>1, <1>6, <1>7, <2>2, <2>3 DEF OrderInv
<1>9. CASE size > 1
  <2>1. PICK t : Isort(0, size) = <<t>> /\ Whole(t, <<>>)
    <3>1. CASE size = 2
      <4>1. PICK t : t = [do |-> "pair", i |-> 0]
        OBVIOUS
      <4>2. Isort(0, size) = <<t>>
        BY <3>1, <4>1 DEF Isort
      <4>3. Whole(t, <<>>)
        BY <3>1, <4>1 DEF Whole
      <4>4. QED
        BY <4>2, <4>3
    <3>2. CASE size > 2
      <4>1. PICK p, q : p = Indices(0, 0 + size) /\ q = Reverse(p)
        OBVIOUS
      <4>2. PICK t : t = Sorting(p, q)
        OBVIOUS
      <4>3. Isort(0, size) = <<t>>
        <5>1. Isort(0, size) = <<Sorting(Indices(0, 0 + size), Reverse(Indices(0, 0 + size)))>>
          BY <1>3, <3>2 DEF Isort
        <5>2. QED
          BY <4>1, <4>2, <5>1
      <4>4. Len(p) = size /\ \A k \in 1..size : p[k] = k - 1
        <5>1. p = [k \in 1..size |-> 0 + k - 1]
          BY <1>3, <4>1 DEF Indices
        <5>2. QED
          BY <1>3, <5>1
      <4>5. Len(q) = size /\ \A k \in 1..size : q[k] = size - k
        <5>1. q = [k \in 1..size |-> p[(size - k) + 1]]
          BY <4>1, <4>4 DEF Reverse
        <5>2. \A k \in 1..size : (size - k) + 1 \in 1..size /\ (size - k) + 1 - 1 = size - k
          BY <1>3
        <5>3. \A k \in 1..size : q[k] = size - k
          BY <4>4, <5>1, <5>2
        <5>4. Len(q) = size
          BY <1>3, <5>1
        <5>5. QED
          BY <5>3, <5>4
      <4>6. t.do = "sorting" /\ t.back = q /\ t.n = -1 /\ t.lo = 2 /\ t.hi = 2
        BY <4>2 DEF Sorting
      <4>7. Placing(t, <<>>)
        BY <4>6 DEF Placing
      <4>8. Whole(t, <<>>)
        BY <4>5, <4>6, <4>7 DEF Whole
      <4>9. QED
        BY <4>3, <4>8
    <3>3. QED
      BY <1>3, <1>9, <3>1, <3>2
  <2>2. work' = <<t>>
    BY <1>2, <1>6, <2>1, LastCall
  <2>3. Task' = t /\ work' # <<>> /\ Tail(work') = <<>>
    BY <2>2, LastCall DEF Task
  <2>4. Whole(Task, st)'
    BY <1>3, <1>6, <2>1, <2>3 DEF Whole
  <2>5. QED
    BY <1>1, <1>6, <1>7, <2>3, <2>4 DEF OrderInv
<1>10. QED
  BY <1>3, <1>8, <1>9

(* The call begins with the whole list to sort.                            *)
LEMMA OrderInit == ASSUME Init, Insertion PROVE OrderInv
<1>1. call \in Calls /\ list = call.list /\ phase = "run" /\ size \in Nat /\ size <= QuickThreshold
  BY CallsAssumption, InsertionShort DEF Init, Short, size
<1>2. Len(list) = size
  BY <1>1 DEF size
<1>3. PICK t : t = Qsort(0, size - 1)
  OBVIOUS
<1>4. work = <<t>>
  BY <1>1, <1>3 DEF Init, Insertion
<1>5. Whole(t, st)
  BY <1>3 DEF Whole, Qsort
<1>6. Task = t /\ Tail(work) = <<>> /\ work # <<>>
  BY <1>4, LastCall DEF Task
<1>7. QED
  BY <1>1, <1>2, <1>5, <1>6 DEF OrderInv

OInv == Insertion => OrderInv

(* No other step is taken for such a list.                                 *)
LEMMA OrderNext == ASSUME LInv, OInv, [Next]_vars PROVE OInv'
<1>1. call' = call /\ call \in Calls /\ size' = size
  BY DEF LInv, Next, vars, fixed, Pair, Search, RisePast, FallPast, StartRun, RunOn, RunBroken, RunAtEnd, EndRun,
     Lead, Take, ShiftOn, ShiftedAll, Settle, NextSample, PutBack, ExpandQsort, Split, Parted, Scanned, ExpandMsort,
     Basis, Merged, Return, Map, Filter, Trim, Accumulate, AccumulateBack, Iterated, Throw, AppendByScript,
     Step, Continue, Proceed, size
<1>2. Insertion' <=> Insertion
  BY <1>1 DEF Insertion
<1>3. SUFFICES ASSUME Insertion, SortInv, OrderInv PROVE OrderInv'
  BY <1>2, InsertionShort DEF LInv, OInv
<1>4. ASSUME UNCHANGED vars PROVE OrderInv'
  BY <1>1, <1>3, <1>4 DEF vars, fixed, OrderInv, Whole, Ascends, Task
<1>5. ASSUME Return PROVE OrderInv'
  BY <1>1, <1>3, <1>5 DEF Return, OrderInv, Ascends
<1>6. ~Throw /\ \A x : ~AppendByScript(x)
  BY <1>3 DEF Insertion, Throw, AppendByScript
<1>7. ASSUME phase = "run", work # <<>> PROVE Task.do \in {"qsort", "pair", "sorting"}
  BY <1>3, <1>7 DEF OrderInv, Whole
<1>8. ASSUME NEW lt \in BOOLEAN
      PROVE  /\ ~StartRun(lt) /\ ~RunOn(lt) /\ ~RunBroken(lt) /\ ~Lead(lt) /\ ~Take(lt) /\ ~ShiftOn(lt)
             /\ ~RisePast(lt) /\ ~FallPast(lt)
  BY <1>7 DEF Asks, Asked, StartRun, RunOn, RunBroken, Lead, Take, ShiftOn, RisePast, FallPast
<1>9. /\ ~RunAtEnd /\ ~Scanned /\ ~ExpandMsort /\ ~Basis /\ ~ShiftedAll /\ ~Merged("lead") /\ ~Merged("take")
      /\ ~Trim /\ ~Split /\ \A do \in {"map", "fold", "foldl", "foldr"} : ~Iterated(do)
  BY <1>7 DEF Expands, RunAtEnd, Scanned, ExpandMsort, Basis, ShiftedAll, Merged, Trim, Iterated, Split
<1>10. ~Map /\ ~Filter /\ ~Accumulate("fold") /\ ~Accumulate("foldl") /\ ~AccumulateBack
  BY <1>7 DEF Asks, Iterating, Map, Filter, Accumulate, AccumulateBack
<1>11. QED
  BY SMTT(60), <1>1, <1>3, <1>4, <1>5, <1>6, <1>8, <1>9, <1>10, PairOrders, SearchOrders, NextSampleOrders, PutBackOrders,
     ExpandQsortOrders DEF Next

(* A list shorter than InsertThreshold, compared in its natural order, is  *)
(* in order when sort returns: for every list and every threshold.         *)
THEOREM ShortListsAreSorted == Spec => []InOrderWhenShort
<1>1. Init => OInv
  BY OrderInit DEF OInv
<1>2. OInv => InOrderWhenShort
  BY DEF OInv, OrderInv, Insertion, Ascends, InOrderWhenShort, InOrder
<1>3. QED
  BY <1>1, <1>2, OrderNext, SortInit, SortNext, PTL DEF Spec

-----------------------------------------------------------------------------
(* map, filter and the folds.  FoldLeft and FoldRight are defined by a     *)
(* recursion over the sets of positions, from which a function chooses the *)
(* last or the first.  Such a recursion has a solution because it has one  *)
(* over the k positions that are folded first, for every k.                *)

Combine(op, a, x) == IF op = "filter" THEN Keep(a, x) ELSE IF op = "foldr" THEN Joined(x, a) ELSE Joined(a, x)
Chosen(op, s) == IF op = "foldr" THEN Min(s) ELSE Max(s)
Nth(op, n, k) == IF op = "foldr" THEN n + 1 - k ELSE k
Nearest(op, n, k) == {Nth(op, n, m) : m \in 1..k}

FoldsBy(op, base, leaves, D, f) ==
  f = [s \in SUBSET D |-> IF s = {} THEN base
                          ELSE Combine(op, f[s \ {Chosen(op, s)}], leaves[Chosen(op, s)])]

(* g has what is folded of the first k elements, for every k.              *)
Tower(op, n, base, leaves, g) ==
  g[0] = base /\ \A k \in 1..n : g[k] = Combine(op, g[k - 1], leaves[Nth(op, n, k)])

(* Of a set with the k-th position and others before it, that one is       *)
(* chosen.                                                                 *)
LEMMA ChosenIs ==
  ASSUME NEW op, NEW n \in Nat, NEW k \in 1..n, NEW s \in SUBSET Nearest(op, n, k), Nth(op, n, k) \in s
  PROVE  Chosen(op, s) = Nth(op, n, k)
<1>1. \A x \in s : x \in Int
  BY DEF Nearest, Nth
<1>2. CASE op = "foldr"
  <2>1. Nth(op, n, k) \in s /\ \A x \in s : Nth(op, n, k) <= x
    BY <1>2 DEF Nearest, Nth
  <2>2. \A y \in s : (\A x \in s : y <= x) => y = Nth(op, n, k)
    BY <1>1, <2>1
  <2>3. QED
    BY <1>2, <2>1, <2>2 DEF Chosen, Min
<1>3. CASE op # "foldr"
  <2>1. Nth(op, n, k) \in s /\ \A x \in s : Nth(op, n, k) >= x
    BY <1>3 DEF Nearest, Nth
  <2>2. \A y \in s : (\A x \in s : y >= x) => y = Nth(op, n, k)
    BY <1>1, <2>1
  <2>3. QED
    BY <1>3, <2>1, <2>2 DEF Chosen, Max
<1>4. QED
  BY <1>2, <1>3

(* The first k positions without the k-th.                                 *)
LEMMA NearestStep ==
  ASSUME NEW op, NEW n \in Nat, NEW k \in 1..n
  PROVE  /\ Nth(op, n, k) \in Nearest(op, n, k)
         /\ Nearest(op, n, k) \ {Nth(op, n, k)} = Nearest(op, n, k - 1)
<1>1. \A m \in 1..k : m = k \/ m \in 1..(k - 1)
  OBVIOUS
<1>2. \A m \in 1..(k - 1) : m \in 1..k /\ Nth(op, n, m) # Nth(op, n, k)
  BY DEF Nth
<1>3. k \in 1..k
  OBVIOUS
<1>4. QED
  BY <1>1, <1>2, <1>3 DEF Nearest

LEMMA NearestAll ==
  ASSUME NEW op, NEW n \in Nat
  PROVE  Nearest(op, n, n) = 1..n /\ Nearest(op, n, 0) = {}
<1>1. Nearest(op, n, 0) = {}
  BY DEF Nearest
<1>2. \A m \in 1..n : Nth(op, n, m) \in 1..n
  BY DEF Nth
<1>3. \A m \in 1..n : Nth(op, n, m) \in 1..n /\ Nth(op, n, Nth(op, n, m)) = m
  BY <1>2 DEF Nth
<1>4. \A m \in 1..n : m \in Nearest(op, n, n)
  BY <1>3 DEF Nearest
<1>5. QED
  BY <1>1, <1>2, <1>4 DEF Nearest

(* A solution for the first k - 1 positions is one for the first k, with   *)
(* what it makes of the sets that have the k-th.                           *)
LEMMA FoldExtends ==
  ASSUME NEW op, NEW base, NEW leaves, NEW n \in Nat, NEW k \in 1..n,
         NEW f, FoldsBy(op, base, leaves, Nearest(op, n, k - 1), f)
  PROVE  \E h : FoldsBy(op, base, leaves, Nearest(op, n, k), h)
<1> DEFINE e == Nth(op, n, k)
           D == Nearest(op, n, k)
           C == Nearest(op, n, k - 1)
           h == [s \in SUBSET D |-> IF e \in s THEN Combine(op, f[s \ {e}], leaves[e]) ELSE f[s]]
<1>1. e \in D /\ D \ {e} = C
  BY NearestStep
<1>2. \A s \in SUBSET D : e \in s => Chosen(op, s) = e
  BY ChosenIs
<1> HIDE DEF e, C, D
<1>3. ASSUME NEW s \in SUBSET D
      PROVE  h[s] = IF s = {} THEN base ELSE Combine(op, h[s \ {Chosen(op, s)}], leaves[Chosen(op, s)])
  <2>1. CASE e \in s
    <3>1. s \ {e} \in SUBSET D /\ e \notin s \ {e} /\ s # {}
      BY <2>1
    <3>2. h[s \ {e}] = f[s \ {e}]
      BY <3>1
    <3>3. h[s] = Combine(op, f[s \ {e}], leaves[e])
      BY <2>1
    <3> HIDE DEF h
    <3>4. QED
      BY <1>2, <2>1, <3>1, <3>2, <3>3
  <2>2. CASE e \notin s
    <3> DEFINE r == s \ {Chosen(op, s)}
    <3>1. s \in SUBSET C /\ r \in SUBSET C /\ r \in SUBSET D /\ e \notin r
      BY <1>1, <2>2
    <3>2. h[s] = f[s] /\ h[r] = f[r]
      BY <2>2, <3>1
    <3> HIDE DEF h, r
    <3>3. f[s] = IF s = {} THEN base ELSE Combine(op, f[r], leaves[Chosen(op, s)])
      BY <3>1 DEF FoldsBy, C, r
    <3>4. QED
      BY <3>2, <3>3 DEF r
  <2>3. QED
    BY <2>1, <2>2
<1>4. h = [s \in SUBSET D |-> h[s]]
  OBVIOUS
<1> HIDE DEF h
<1>5. FoldsBy(op, base, leaves, D, h)
  BY <1>3, <1>4 DEF FoldsBy
<1>6. QED
  BY <1>5 DEF D

LEMMA FoldExists ==
  ASSUME NEW op, NEW base, NEW leaves, NEW n \in Nat
  PROVE  \E f : FoldsBy(op, base, leaves, 1..n, f)
<1> DEFINE Lacks == {k \in 0..n : ~\E f : FoldsBy(op, base, leaves, Nearest(op, n, k), f)}
<1>1. ASSUME Lacks # {} PROVE FALSE
  <2>1. Lacks \in SUBSET Nat
    OBVIOUS
  <2>2. PICK k \in Lacks : \A j \in Lacks : k <= j
    BY <1>1, <2>1, LeastExists
  <2>3. k # 0
    <3>1. Nearest(op, n, 0) = {}
      BY NearestAll
    <3>2. PICK f : f = [s \in SUBSET {} |-> base]
      OBVIOUS
    <3>3. \A s \in SUBSET {} : s = {} /\ f[s] = base
      BY <3>2
    <3>4. FoldsBy(op, base, leaves, {}, f)
      BY <3>2, <3>3 DEF FoldsBy
    <3>5. QED
      BY <2>2, <3>1, <3>4
  <2>4. k \in 1..n /\ k - 1 \in 0..n /\ ~(k <= k - 1)
    BY <2>2, <2>3
  <2>5. \E f : FoldsBy(op, base, leaves, Nearest(op, n, k - 1), f)
    BY <2>2, <2>4
  <2>6. \E f : FoldsBy(op, base, leaves, Nearest(op, n, k), f)
    BY <2>4, <2>5, FoldExtends
  <2>7. QED
    BY <2>2, <2>6
<1>2. n \in 0..n
  OBVIOUS
<1>3. QED
  BY <1>1, <1>2, NearestAll

(* What a solution makes of all positions is on top of a tower.            *)
LEMMA FoldIsTower ==
  ASSUME NEW op, NEW base, NEW leaves, NEW n \in Nat, NEW f, FoldsBy(op, base, leaves, 1..n, f)
  PROVE  \E g : Tower(op, n, base, leaves, g) /\ f[1..n] = g[n]
<1> DEFINE g == [k \in 0..n |-> f[Nearest(op, n, k)]]
<1>1. g[0] = base /\ f[1..n] = g[n]
  <2>1. Nearest(op, n, 0) = {} /\ Nearest(op, n, n) = 1..n /\ {} \in SUBSET (1..n)
    BY NearestAll
  <2>2. f[{}] = base
    BY <2>1 DEF FoldsBy
  <2>3. 0 \in 0..n /\ n \in 0..n
    OBVIOUS
  <2>4. QED
    BY <2>1, <2>2, <2>3
<1>2. ASSUME NEW k \in 1..n PROVE g[k] = Combine(op, g[k - 1], leaves[Nth(op, n, k)])
  <2> DEFINE s == Nearest(op, n, k)
             e == Nth(op, n, k)
  <2>1. e \in s /\ s \ {e} = Nearest(op, n, k - 1)
    BY NearestStep
  <2>2. Chosen(op, s) = e
    BY <2>1, ChosenIs
  <2>3. s \in SUBSET (1..n)
    BY DEF Nearest, Nth
  <2>4. k \in 0..n /\ k - 1 \in 0..n
    OBVIOUS
  <2>5. g[k] = f[s] /\ g[k - 1] = f[s \ {e}]
    BY <2>1, <2>4
  <2> HIDE DEF s, e, g
  <2>6. f[s] = Combine(op, f[s \ {e}], leaves[e])
    BY <2>1, <2>2, <2>3 DEF FoldsBy
  <2>7. QED
    BY <2>5, <2>6 DEF e
<1> HIDE DEF g
<1>3. QED
  BY <1>1, <1>2 DEF Tower

(* The folds of the answers.                                               *)
LEMMA FoldedLeft ==
  ASSUME NEW op \in {"fold", "foldl"}, NEW base, NEW n \in Nat, NEW leaves, DOMAIN leaves = 1..n
  PROVE  \E g : Tower(op, n, base, leaves, g) /\ FoldLeft(Joined, base, leaves) = g[n]
<1> DEFINE f == CHOOSE f : f = [s \in SUBSET DOMAIN leaves |->
                                  IF s = {} THEN base ELSE Joined(f[s \ {Max(s)}], leaves[Max(s)])]
<1>1. FoldLeft(Joined, base, leaves) = f[DOMAIN leaves]
  BY DEF FoldLeft, MapThenFoldSet
<1>2. \E h : h = [s \in SUBSET DOMAIN leaves |->
                    IF s = {} THEN base ELSE Joined(h[s \ {Max(s)}], leaves[Max(s)])]
  <2>1. PICK h : FoldsBy(op, base, leaves, 1..n, h)
    BY FoldExists
  <2>2. QED
    BY <2>1 DEF FoldsBy, Combine, Chosen
<1>3. f = [s \in SUBSET DOMAIN leaves |-> IF s = {} THEN base ELSE Joined(f[s \ {Max(s)}], leaves[Max(s)])]
  BY <1>2
<1> HIDE DEF f
<1>4. FoldsBy(op, base, leaves, 1..n, f)
  BY <1>3 DEF FoldsBy, Combine, Chosen
<1>5. QED
  BY <1>1, <1>4, FoldIsTower

LEMMA FoldedRight ==
  ASSUME NEW base, NEW n \in Nat, NEW leaves, DOMAIN leaves = 1..n
  PROVE  \E g : Tower("foldr", n, base, leaves, g) /\ FoldRight(Joined, leaves, base) = g[n]
<1> DEFINE f == CHOOSE f : f = [s \in SUBSET DOMAIN leaves |->
                                  IF s = {} THEN base ELSE Joined(leaves[Min(s)], f[s \ {Min(s)}])]
<1>1. FoldRight(Joined, leaves, base) = f[DOMAIN leaves]
  BY DEF FoldRight, MapThenFoldSet
<1>2. \E h : h = [s \in SUBSET DOMAIN leaves |->
                    IF s = {} THEN base ELSE Joined(leaves[Min(s)], h[s \ {Min(s)}])]
  <2>1. PICK h : FoldsBy("foldr", base, leaves, 1..n, h)
    BY FoldExists
  <2>2. QED
    BY <2>1 DEF FoldsBy, Combine, Chosen
<1>3. f = [s \in SUBSET DOMAIN leaves |-> IF s = {} THEN base ELSE Joined(leaves[Min(s)], f[s \ {Min(s)}])]
  BY <1>2
<1> HIDE DEF f
<1>4. FoldsBy("foldr", base, leaves, 1..n, f)
  BY <1>3 DEF FoldsBy, Combine, Chosen
<1>5. QED
  BY <1>1, <1>4, FoldIsTower

LEMMA FoldedKept ==
  ASSUME NEW base, NEW n \in Nat, NEW leaves, DOMAIN leaves = 1..n
  PROVE  \E g : Tower("filter", n, base, leaves, g) /\ FoldLeft(Keep, base, leaves) = g[n]
<1> DEFINE f == CHOOSE f : f = [s \in SUBSET DOMAIN leaves |->
                                  IF s = {} THEN base ELSE Keep(f[s \ {Max(s)}], leaves[Max(s)])]
<1>1. FoldLeft(Keep, base, leaves) = f[DOMAIN leaves]
  BY DEF FoldLeft, MapThenFoldSet
<1>2. \E h : h = [s \in SUBSET DOMAIN leaves |->
                    IF s = {} THEN base ELSE Keep(h[s \ {Max(s)}], leaves[Max(s)])]
  <2>1. PICK h : FoldsBy("filter", base, leaves, 1..n, h)
    BY FoldExists
  <2>2. QED
    BY <2>1 DEF FoldsBy, Combine, Chosen
<1>3. f = [s \in SUBSET DOMAIN leaves |-> IF s = {} THEN base ELSE Keep(f[s \ {Max(s)}], leaves[Max(s)])]
  BY <1>2
<1> HIDE DEF f
<1>4. FoldsBy("filter", base, leaves, 1..n, f)
  BY <1>3 DEF FoldsBy, Combine, Chosen
<1>5. QED
  BY <1>1, <1>4, FoldIsTower

-----------------------------------------------------------------------------
(* A call in progress: the elements it has still to read are in the list   *)
(* as they were at the call, and what it has read has become what the      *)
(* answer makes of as many elements.                                       *)

Leaves == [i \in DOMAIN call.list |-> Value(call.list[i])]
Base == CASE call.op = "filter" -> <<>> [] call.op = "fold" -> Leaves[1] [] OTHER -> HeadValue
Fed == CASE call.op = "filter" -> call.list [] call.op = "fold" -> Tail(Leaves) [] OTHER -> Leaves
Folds(g) == Tower(call.op, IF call.op = "fold" THEN size - 1 ELSE size, Base, Fed, g)

Unread(k, i) == call.create \/ call.op \notin {"map", "filter"} \/ k > i

MapSoFar(i) ==
  /\ 0 <= i /\ i <= size
  /\ IF call.create
     THEN out \in Seq(Int) /\ Len(out) = i /\ \A k \in 1..i : out[k] = Image(call.list[k])
     ELSE \A k \in 1..i : list[k] = Image(call.list[k])
FilterSoFar(i, j) ==
  /\ 0 <= j /\ j <= i /\ i <= size
  /\ \A g : Folds(g) => /\ g[i] \in Seq(Int)
                        /\ IF call.create THEN out = g[i]
                           ELSE Len(g[i]) = j /\ \A k \in 1..j : list[k] = g[i][k]
FoldSoFar(i) == IF size = 0 THEN i = 1 /\ out = Unit
                ELSE 1 <= i /\ i <= size /\ \A g : Folds(g) => out = g[i - 1]
FoldlSoFar(i) == 0 <= i /\ i <= size /\ \A g : Folds(g) => out = g[i]
FoldrSoFar(i) == -1 <= i /\ i < size /\ \A g : Folds(g) => out = g[size - 1 - i]

SoFar(i, j) == /\ call.op = "map" => MapSoFar(i)
               /\ call.op = "filter" => FilterSoFar(i, j)
               /\ call.op = "fold" => FoldSoFar(i)
               /\ call.op = "foldl" => FoldlSoFar(i)
               /\ call.op = "foldr" => FoldrSoFar(i)

Underway(i, j) ==
  /\ phase = "run" /\ work = <<Each(call.op, i, j)>>
  /\ list \in Seq(Int) /\ Len(list) >= size
  /\ \A k \in 1..size : Unread(k, i) => list[k] = call.list[k]
  /\ SoFar(i, j)

EachInv == /\ call \in Calls
           /\ call.op # "sort" => \/ phase = "error"
                                  \/ work = <<>> /\ Answered
                                  \/ \E i, j \in Int : Underway(i, j)

NoFoldrOfOne == \A c \in Calls : c.op = "foldr" => Len(c.list) # 1

LEMMA CallIs ==
  ASSUME call \in Calls
  PROVE  /\ call.op \in Ops /\ call.create \in BOOLEAN /\ call.list \in Seq(Int)
         /\ size \in Nat /\ size = Len(call.list) /\ DOMAIN call.list = 1..size
BY CallsAssumption DEF size

LEMMA LeavesAre ==
  ASSUME call \in Calls
  PROVE  /\ DOMAIN Leaves = 1..size /\ \A k \in 1..size : Leaves[k] = Value(call.list[k])
         /\ size > 0 => /\ DOMAIN Tail(Leaves) = 1..(size - 1)
                        /\ \A k \in 1..(size - 1) : Tail(Leaves)[k] = Value(call.list[k + 1])
<1>1. call.list \in Seq(Int) /\ size \in Nat /\ size = Len(call.list) /\ DOMAIN call.list = 1..size
  BY CallIs
<1>2. DOMAIN Leaves = 1..size /\ \A k \in 1..size : Leaves[k] = Value(call.list[k])
  BY <1>1 DEF Leaves
<1> DEFINE E == {Leaves[k] : k \in 1..size}
<1>3. Leaves \in [1..size -> E]
  BY <1>1 DEF Leaves
<1> HIDE DEF E
<1>4. Leaves \in Seq(E) /\ Len(Leaves) = size
  <2>1. Leaves \in Seq(E)
    <3>1. PICK n \in Nat : n = size
      BY <1>1
    <3>2. PICK s : s = Leaves
      OBVIOUS
    <3>3. s \in [1..n -> E]
      BY <1>3, <3>1, <3>2
    <3>4. s \in Seq(E)
      BY <3>3
    <3>5. QED
      BY <3>2, <3>4
  <2>2. QED
    BY <1>1, <1>2, <2>1, LenProperties
<1>5. ASSUME size > 0
      PROVE  /\ DOMAIN Tail(Leaves) = 1..(size - 1)
             /\ \A k \in 1..(size - 1) : Tail(Leaves)[k] = Value(call.list[k + 1])
  <2>1. Leaves # <<>>
    BY <1>1, <1>4, <1>5, EmptySeq
  <2>2. Tail(Leaves) \in Seq(E) /\ Len(Tail(Leaves)) = size - 1 /\ \A k \in 1..(size - 1) : Tail(Leaves)[k] = Leaves[k + 1]
    BY <1>4, <2>1, HeadTailProperties
  <2>3. \A k \in 1..(size - 1) : k + 1 \in 1..size
    BY <1>1
  <2>4. QED
    BY <1>1, <1>2, <2>2, <2>3, LenProperties
<1>6. QED
  BY <1>2, <1>5

(* The one call there is, and when it asks the script.                     *)
LEMMA EachIs ==
  ASSUME NEW i, NEW j, Underway(i, j), call \in Calls, call.op # "sort"
  PROVE  /\ work # <<>> /\ Task = Each(call.op, i, j) /\ Tail(work) = <<>>
         /\ Task.do = call.op /\ Task.i = i /\ Task.j = j
         /\ Asks <=> IF call.op = "foldr" THEN i >= 0 ELSE i < size
<1>1. work = <<Each(call.op, i, j)>> /\ phase = "run"
  BY DEF Underway
<1>2. work # <<>> /\ Task = Each(call.op, i, j) /\ Tail(work) = <<>>
  <2> DEFINE t == Each(call.op, i, j)
  <2>1. work \in Seq({t}) /\ Len(work) = 1 /\ work[1] = t
    BY <1>1
  <2> HIDE DEF t
  <2>2. work # <<>>
    BY <2>1
  <2>3. Task = t /\ Tail(work) \in Seq({t}) /\ Len(Tail(work)) = 0
    BY <2>1, <2>2, HeadTailProperties, UnderTop DEF Task
  <2>4. Tail(work) = <<>>
    BY <2>3, EmptySeq
  <2>5. QED
    BY <2>2, <2>3, <2>4 DEF t
<1>3. Task.do = call.op /\ Task.i = i /\ Task.j = j
  BY <1>2 DEF Each
<1>4. call.op \in Ops
  BY CallIs
<1>5. QED
  BY <1>1, <1>2, <1>3, <1>4 DEF Asks, Ops

LEMMA EachGoesOn ==
  ASSUME NEW i, NEW j, Underway(i, j), call \in Calls, call.op # "sort", NEW t
  PROVE  <<t>> \o Tail(work) = <<t>> /\ <<>> \o Tail(work) = <<>>
<1>1. Tail(work) = <<>>
  BY EachIs
<1>2. <<t>> \in Seq({t}) /\ <<>> \in Seq({t})
  OBVIOUS
<1>3. QED
  BY <1>1, <1>2, ConcatEmptySeq

(* The call stays the same; so does what it will answer.                   *)
LEMMA FoldsSame ==
  ASSUME call' = call
  PROVE  /\ size' = size /\ \A g : Folds(g)' <=> Folds(g)
         /\ \A k, i : Unread(k, i)' <=> Unread(k, i)
BY DEF Folds, Tower, Base, Fed, Leaves, size, Unread

LEMMA EachStep ==
  ASSUME call \in Calls, call.op # "sort", NEW i \in Int, NEW j \in Int, Underway(i, j), UNCHANGED fixed,
         NEW i1 \in Int, NEW j1 \in Int, work' = <<Each(call.op, i1, j1)>> \o Tail(work),
         list' \in Seq(Int), Len(list') >= size,
         \A k \in 1..size : Unread(k, i1) => list'[k] = call.list[k],
         SoFar(i1, j1)'
  PROVE  EachInv'
<1>1. call' = call /\ phase' = phase /\ size' = size /\ \A k, m : Unread(k, m)' <=> Unread(k, m)
  BY FoldsSame DEF fixed
<1>2. work' = <<Each(call'.op, i1, j1)>>
  BY <1>1, EachGoesOn
<1>3. phase' = "run"
  BY <1>1 DEF Underway
<1>4. Underway(i1, j1)'
  BY <1>1, <1>2, <1>3 DEF Underway
<1>5. QED
  BY <1>1, <1>4 DEF EachInv

(* The next element is as it was at the call.                              *)
LEMMA NextRead ==
  ASSUME call \in Calls, NEW i \in Int, NEW j \in Int, Underway(i, j), 0 <= i, i < size
  PROVE  /\ i + 1 \in 1..size /\ i + 1 \in 1..Len(list) /\ size \in Nat /\ Len(list) \in Nat /\ size <= Len(list)
         /\ At(i) = call.list[i + 1] /\ At(i) \in Int
<1>1. size \in Nat /\ size = Len(call.list) /\ call.list \in Seq(Int)
  BY CallIs
<1>2. list \in Seq(Int) /\ Len(list) >= size /\ Len(list) \in Nat
  BY DEF Underway
<1>3. i + 1 \in 1..size /\ i + 1 \in 1..Len(list)
  BY <1>1, <1>2
<1>4. i + 1 > i
  OBVIOUS
<1>5. list[i + 1] = call.list[i + 1]
  BY <1>3, <1>4 DEF Underway, Unread
<1>6. call.list[i + 1] \in Int
  BY <1>1, <1>3, ElementOfSeq
<1>7. QED
  BY <1>1, <1>2, <1>3, <1>5, <1>6 DEF At

LEMMA MapKeeps ==
  ASSUME call \in Calls, call.op # "sort", NEW i \in Int, NEW j \in Int, Underway(i, j), Map
  PROVE  EachInv'
<1>1. call.op = "map" /\ Task = Each("map", i, j) /\ i < size
  BY EachIs DEF Map, Iterating
<1>2. MapSoFar(i) /\ 0 <= i
  BY <1>1 DEF Underway, SoFar, MapSoFar
<1>3. /\ i + 1 \in 1..size /\ i + 1 \in 1..Len(list) /\ size \in Nat /\ Len(list) \in Nat /\ size <= Len(list)
      /\ At(i) = call.list[i + 1] /\ At(i) \in Int
  BY <1>1, <1>2, NextRead
<1>4. PICK y : y = Image(At(i))
  OBVIOUS
<1>5. y \in Int /\ y = Image(call.list[i + 1])
  BY <1>3, <1>4 DEF Image
<1>6. [Task EXCEPT !.i = @ + 1] = Each(call.op, i + 1, j)
  BY <1>1 DEF Each
<1>7. /\ IF call.create THEN Results(list, Append(out, y)) ELSE Results(Put(list, i, y), out)
      /\ Proceed(<<Each(call.op, i + 1, j)>>)
  BY <1>1, <1>4, <1>6 DEF Map, Each
<1>8. /\ UNCHANGED fixed /\ work' = <<Each(call.op, i + 1, j)>> \o Tail(work) /\ call' = call
      /\ size' = size /\ i + 1 \in Int /\ call.create \in BOOLEAN /\ list \in Seq(Int)
      /\ \A k \in 1..size : Unread(k, i) => list[k] = call.list[k]
  BY <1>7, FoldsSame, CallIs DEF Proceed, fixed, Underway
<1>9. CASE call.create
  <2>1. list' = list /\ out' = Append(out, y)
    BY <1>7, <1>9 DEF Results
  <2>2. out \in Seq(Int) /\ Len(out) = i /\ \A k \in 1..i : out[k] = Image(call.list[k])
    BY <1>2, <1>9 DEF MapSoFar
  <2>3. out' \in Seq(Int) /\ Len(out') = i + 1 /\ out'[i + 1] = y /\ \A k \in 1..i : out'[k] = out[k]
    BY <1>5, <2>1, <2>2, AppendProperties
  <2>4. \A k \in 1..(i + 1) : k = i + 1 \/ k \in 1..i
    BY <1>2
  <2>5. \A k \in 1..(i + 1) : out'[k] = Image(call.list[k])
    BY <1>5, <2>2, <2>3, <2>4
  <2>6. MapSoFar(i + 1)'
    BY <1>2, <1>3, <1>8, <1>9, <2>3, <2>5 DEF MapSoFar
  <2>7. SoFar(i + 1, j)'
    BY <1>1, <1>8, <2>6 DEF SoFar
  <2>8. \A k \in 1..size : Unread(k, i + 1) => list'[k] = call.list[k]
    BY <1>8, <1>9, <2>1 DEF Unread
  <2>9. QED
    BY <1>3, <1>8, <2>1, <2>7, <2>8, EachStep
<1>10. CASE ~call.create
  <2>1. list' = [list EXCEPT ![i + 1] = y]
    BY <1>7, <1>10 DEF Results, Put
  <2>2. list' \in Seq(Int) /\ Len(list') = Len(list) /\ \A k \in 1..Len(list) : list'[k] = IF k = i + 1 THEN y ELSE list[k]
    BY <1>3, <1>5, <1>8, <2>1, ExceptSeq
  <2>3. \A k \in 1..(i + 1) : k \in 1..Len(list) /\ (k = i + 1 \/ k \in 1..i)
    BY <1>2, <1>3
  <2>4. \A k \in 1..i : list[k] = Image(call.list[k])
    BY <1>2, <1>10 DEF MapSoFar
  <2>5. \A k \in 1..(i + 1) : list'[k] = Image(call.list[k])
    BY <1>5, <2>2, <2>3, <2>4
  <2>6. MapSoFar(i + 1)'
    BY <1>2, <1>3, <1>8, <1>10, <2>5 DEF MapSoFar
  <2>7. SoFar(i + 1, j)'
    BY <1>1, <1>8, <2>6 DEF SoFar
  <2>8. \A k \in 1..size : Unread(k, i + 1) => list'[k] = call.list[k]
    <3>1. TAKE k \in 1..size
    <3>2. HAVE Unread(k, i + 1)
    <3>3. k > i + 1
      BY <1>1, <1>10, <3>2 DEF Unread
    <3>4. k \in 1..Len(list) /\ k # i + 1 /\ Unread(k, i)
      BY <1>3, <3>3 DEF Unread
    <3>5. QED
      BY <1>8, <2>2, <3>4
  <2>9. QED
    BY <1>3, <1>8, <2>2, <2>7, <2>8, EachStep
<1>11. QED
  BY <1>9, <1>10

LEMMA FilterKeeps ==
  ASSUME call \in Calls, call.op # "sort", NEW i \in Int, NEW j \in Int, Underway(i, j), Filter
  PROVE  EachInv'
<1>1. call.op = "filter" /\ Task = Each("filter", i, j) /\ i < size
  BY EachIs DEF Filter, Iterating
<1>2. FilterSoFar(i, j) /\ 0 <= j /\ j <= i /\ 0 <= i
  BY <1>1 DEF Underway, SoFar, FilterSoFar
<1>3. /\ i + 1 \in 1..size /\ i + 1 \in 1..Len(list) /\ size \in Nat /\ Len(list) \in Nat /\ size <= Len(list)
      /\ At(i) = call.list[i + 1] /\ At(i) \in Int
  BY <1>1, <1>2, NextRead
<1>4. PICK x \in Int : x = At(i)
  BY <1>3
<1>5. /\ [Task EXCEPT !.i = @ + 1] = Each(call.op, i + 1, j)
      /\ [Task EXCEPT !.i = @ + 1, !.j = @ + 1] = Each(call.op, i + 1, j + 1)
  <2>1. Task = [do |-> "filter", i |-> i, j |-> j]
    BY <1>1 DEF Each
  <2>2. [Task EXCEPT !.i = @ + 1] = Each("filter", i + 1, j)
    BY <2>1 DEF Each
  <2>3. [Task EXCEPT !.i = @ + 1, !.j = @ + 1] = Each("filter", i + 1, j + 1)
    <3> DEFINE u == [Task EXCEPT !.i = @ + 1, !.j = @ + 1]
    <3>1. DOMAIN u = {"do", "i", "j"}
      BY <2>1
    <3>2. u.do = "filter" /\ u.i = i + 1 /\ u.j = j + 1
      BY <2>1
    <3>3. u = [f \in {"do", "i", "j"} |-> u[f]]
      BY <3>1
    <3> HIDE DEF u
    <3>4. u = [do |-> u.do, i |-> u.i, j |-> u.j]
      BY <3>3
    <3>5. QED
      BY <3>2, <3>4 DEF u, Each
  <2>4. QED
    BY <1>1, <2>2, <2>3
<1>6. /\ UNCHANGED fixed /\ call' = call /\ size' = size /\ call.create \in BOOLEAN /\ list \in Seq(Int)
      /\ \A g : Folds(g)' <=> Folds(g)
      /\ \A k \in 1..size : Unread(k, i) => list[k] = call.list[k]
  BY FoldsSame, CallIs DEF Filter, Proceed, fixed, Underway
<1>7. ASSUME NEW g, Folds(g) PROVE g[i + 1] = IF Kept(x) THEN Append(g[i], x) ELSE g[i]
  <2>1. g[i + 1] = Combine("filter", g[i + 1 - 1], call.list[Nth("filter", size, i + 1)])
    BY <1>1, <1>3, <1>7 DEF Folds, Tower, Fed
  <2>2. i + 1 - 1 = i /\ Nth("filter", size, i + 1) = i + 1
    BY DEF Nth
  <2>3. QED
    BY <1>3, <1>4, <2>1, <2>2 DEF Combine, Keep
<1>8. \A g : Folds(g) => /\ g[i] \in Seq(Int)
                         /\ IF call.create THEN out = g[i]
                            ELSE Len(g[i]) = j /\ \A k \in 1..j : list[k] = g[i][k]
  BY <1>2 DEF FilterSoFar
<1>9. CASE ~Kept(x)
  <2>1. list' = list /\ out' = out /\ work' = <<Each(call.op, i + 1, j)>> \o Tail(work)
    BY <1>1, <1>4, <1>5, <1>9 DEF Filter, Results, Proceed, Each
  <2>2. \A g : Folds(g) => g[i + 1] = g[i]
    BY <1>7, <1>9
  <2>3. FilterSoFar(i + 1, j)'
    <3>1. 0 <= j /\ j <= i + 1 /\ i + 1 <= size'
      BY <1>2, <1>3, <1>6
    <3>2. \A g : Folds(g)' => /\ g[i + 1] \in Seq(Int)
                              /\ IF call'.create THEN out' = g[i + 1]
                                 ELSE Len(g[i + 1]) = j /\ \A k \in 1..j : list'[k] = g[i + 1][k]
      BY SMTT(30), <1>6, <1>8, <2>1, <2>2
    <3>3. QED
      BY <3>1, <3>2 DEF FilterSoFar
  <2>4. SoFar(i + 1, j)'
    BY <1>1, <1>6, <2>3 DEF SoFar
  <2>5. \A k \in 1..size : Unread(k, i + 1) => Unread(k, i)
    BY <1>3 DEF Unread
  <2>6. i + 1 \in Int
    OBVIOUS
  <2>7. QED
    BY <1>3, <1>6, <2>1, <2>4, <2>5, <2>6, EachStep
<1>10. CASE Kept(x) /\ call.create
  <2>1. list' = list /\ out' = Append(out, x) /\ work' = <<Each(call.op, i + 1, j + 1)>> \o Tail(work)
    BY <1>1, <1>4, <1>5, <1>10 DEF Filter, Results, Proceed, Each
  <2>2. ASSUME NEW g, Folds(g) PROVE g[i + 1] \in Seq(Int) /\ out' = g[i + 1]
    <3>1. g[i] \in Seq(Int) /\ out = g[i] /\ g[i + 1] = Append(g[i], x)
      BY <1>7, <1>8, <1>10, <2>2
    <3>2. QED
      BY <2>1, <3>1, AppendProperties
  <2>3. FilterSoFar(i + 1, j + 1)'
    BY <1>2, <1>3, <1>6, <1>10, <2>2 DEF FilterSoFar
  <2>4. SoFar(i + 1, j + 1)'
    BY <1>1, <1>6, <2>3 DEF SoFar
  <2>5. \A k \in 1..size : Unread(k, i)
    BY <1>10 DEF Unread
  <2>6. i + 1 \in Int /\ j + 1 \in Int
    OBVIOUS
  <2>7. QED
    BY <1>3, <1>6, <2>1, <2>4, <2>5, <2>6, EachStep
<1>11. CASE Kept(x) /\ ~call.create
  <2>1. list' = [list EXCEPT ![j + 1] = x] /\ out' = out /\ work' = <<Each(call.op, i + 1, j + 1)>> \o Tail(work)
    BY <1>1, <1>4, <1>5, <1>11 DEF Filter, Results, Proceed, Put, Each
  <2>2. j + 1 \in 1..Len(list) /\ j \in Nat
    BY <1>2, <1>3
  <2>3. list' \in Seq(Int) /\ Len(list') = Len(list) /\ \A k \in 1..Len(list) : list'[k] = IF k = j + 1 THEN x ELSE list[k]
    BY <1>6, <2>1, <2>2, ExceptSeq
  <2>4. \A k \in 1..(j + 1) : k \in 1..Len(list) /\ (k = j + 1 \/ (k # j + 1 /\ k \in 1..j))
    BY <1>3, <2>2
  <2>5. ASSUME NEW g, Folds(g)
        PROVE  g[i + 1] \in Seq(Int) /\ Len(g[i + 1]) = j + 1 /\ \A k \in 1..(j + 1) : list'[k] = g[i + 1][k]
    <3>1. g[i] \in Seq(Int) /\ Len(g[i]) = j /\ \A k \in 1..j : list[k] = g[i][k]
      BY <1>8, <1>11, <2>5
    <3>2. g[i + 1] = Append(g[i], x)
      BY <1>7, <1>11, <2>5
    <3>3. PICK s \in Seq(Int) : s = g[i]
      BY <3>1
    <3>4. PICK r : r = g[i + 1]
      OBVIOUS
    <3>5. r \in Seq(Int) /\ Len(r) = j + 1 /\ r[j + 1] = x /\ \A k \in 1..j : r[k] = s[k]
      BY <3>1, <3>2, <3>3, <3>4, AppendProperties
    <3>6. \A k \in 1..(j + 1) : list'[k] = r[k]
      BY <2>3, <2>4, <3>1, <3>3, <3>5
    <3>7. QED
      BY <3>4, <3>5, <3>6
  <2>6. FilterSoFar(i + 1, j + 1)'
    BY <1>2, <1>3, <1>6, <1>11, <2>5 DEF FilterSoFar
  <2>7. SoFar(i + 1, j + 1)'
    BY <1>1, <1>6, <2>6 DEF SoFar
  <2>8. \A k \in 1..size : Unread(k, i + 1) => list'[k] = call.list[k]
    <3>1. TAKE k \in 1..size
    <3>2. HAVE Unread(k, i + 1)
    <3>3. k > i + 1
      BY <1>1, <1>11, <3>2 DEF Unread
    <3>4. k \in 1..Len(list) /\ k # j + 1 /\ Unread(k, i)
      BY <1>2, <1>3, <3>3 DEF Unread
    <3>5. QED
      BY <1>6, <2>3, <3>4
  <2>9. i + 1 \in Int /\ j + 1 \in Int
    OBVIOUS
  <2>10. QED
    BY <1>3, <1>6, <2>1, <2>3, <2>7, <2>8, <2>9, EachStep
<1>12. QED
  BY <1>6, <1>9, <1>10, <1>11

LEMMA AccumulateKeeps ==
  ASSUME call \in Calls, call.op # "sort", NEW i \in Int, NEW j \in Int, Underway(i, j),
         NEW do \in {"fold", "foldl"}, Accumulate(do)
  PROVE  EachInv'
<1>1. call.op = do /\ Task = Each(do, i, j) /\ i < size
  BY EachIs DEF Accumulate, Iterating
<1>2. 0 <= i /\ (do = "fold" => 1 <= i /\ FoldSoFar(i) /\ size # 0) /\ (do = "foldl" => FoldlSoFar(i))
  <2>1. SoFar(i, j)
    BY DEF Underway
  <2>2. CASE do = "fold"
    BY <1>1, <2>1, <2>2 DEF SoFar, FoldSoFar
  <2>3. CASE do = "foldl"
    BY <1>1, <2>1, <2>3 DEF SoFar, FoldlSoFar
  <2>4. QED
    BY <2>2, <2>3
<1>3. /\ i + 1 \in 1..size /\ size \in Nat /\ size <= Len(list) /\ At(i) = call.list[i + 1]
  BY <1>1, <1>2, NextRead
<1>4. [Task EXCEPT !.i = @ + 1] = Each(call.op, i + 1, j)
  BY <1>1 DEF Each
<1>5. /\ UNCHANGED fixed /\ call' = call /\ size' = size /\ list \in Seq(Int)
      /\ \A g : Folds(g)' <=> Folds(g)
      /\ \A k \in 1..size : Unread(k, i) => list[k] = call.list[k]
  BY FoldsSame DEF Accumulate, Proceed, fixed, Underway
<1>6. /\ list' = list /\ out' = Joined(out, Value(call.list[i + 1]))
      /\ work' = <<Each(call.op, i + 1, j)>> \o Tail(work)
  BY <1>1, <1>3, <1>4 DEF Accumulate, Results, Proceed, Each
<1>7. ASSUME do = "fold" PROVE FoldSoFar(i + 1)'
  <2>1. ASSUME NEW g, Folds(g) PROVE out' = g[i + 1 - 1]
    <3>1. i \in 1..(size - 1)
      BY <1>1, <1>2, <1>3, <1>7
    <3>2. g[i] = Combine("fold", g[i - 1], Tail(Leaves)[Nth("fold", size - 1, i)])
      BY <1>1, <1>7, <2>1, <3>1 DEF Folds, Tower, Fed
    <3>3. Tail(Leaves)[i] = Value(call.list[i + 1])
      BY <1>2, <1>3, <1>7, <3>1, LeavesAre
    <3>4. g[i] = Joined(g[i - 1], Value(call.list[i + 1]))
      BY <3>2, <3>3 DEF Combine, Nth
    <3>5. out = g[i - 1]
      BY <1>2, <1>7, <2>1 DEF FoldSoFar
    <3>6. i + 1 - 1 = i
      OBVIOUS
    <3>7. QED
      BY <1>6, <3>4, <3>5, <3>6
  <2>2. QED
    BY <1>2, <1>3, <1>5, <1>7, <2>1 DEF FoldSoFar
<1>8. ASSUME do = "foldl" PROVE FoldlSoFar(i + 1)'
  <2>1. ASSUME NEW g, Folds(g) PROVE out' = g[i + 1]
    <3>1. g[i + 1] = Combine("foldl", g[i + 1 - 1], Leaves[Nth("foldl", size, i + 1)])
      BY <1>1, <1>3, <1>8, <2>1 DEF Folds, Tower, Fed
    <3>2. Leaves[i + 1] = Value(call.list[i + 1])
      BY <1>3, LeavesAre
    <3>3. i + 1 - 1 = i
      OBVIOUS
    <3>4. g[i + 1] = Joined(g[i], Value(call.list[i + 1]))
      BY <3>1, <3>2, <3>3 DEF Combine, Nth
    <3>5. out = g[i]
      BY <1>2, <1>8, <2>1 DEF FoldlSoFar
    <3>6. QED
      BY <1>6, <3>4, <3>5
  <2>2. QED
    BY <1>2, <1>3, <1>5, <2>1 DEF FoldlSoFar
<1>9. SoFar(i + 1, j)'
  BY <1>1, <1>5, <1>7, <1>8 DEF SoFar
<1>10. \A k \in 1..size : Unread(k, i)
  BY <1>1 DEF Unread
<1>11. i + 1 \in Int
  OBVIOUS
<1>12. QED
  BY <1>3, <1>5, <1>6, <1>9, <1>10, <1>11, EachStep

(* foldr gives a list of one element its arguments the other way round.    *)
LEMMA AccumulateBackKeeps ==
  ASSUME call \in Calls, call.op # "sort", NEW i \in Int, NEW j \in Int, Underway(i, j), size # 1,
         AccumulateBack
  PROVE  EachInv'
<1>1. call.op = "foldr" /\ Task = Each("foldr", i, j) /\ 0 <= i
  BY EachIs DEF AccumulateBack, Iterating
<1>2. FoldrSoFar(i) /\ i < size
  BY <1>1 DEF Underway, SoFar, FoldrSoFar
<1>3. /\ i + 1 \in 1..size /\ size \in Nat /\ size <= Len(list) /\ At(i) = call.list[i + 1]
  BY <1>1, <1>2, NextRead
<1>4. [Task EXCEPT !.i = @ - 1] = Each(call.op, i - 1, j)
  BY <1>1 DEF Each
<1>5. /\ UNCHANGED fixed /\ call' = call /\ size' = size /\ list \in Seq(Int)
      /\ \A g : Folds(g)' <=> Folds(g)
      /\ \A k \in 1..size : Unread(k, i) => list[k] = call.list[k]
  BY FoldsSame DEF AccumulateBack, Proceed, fixed, Underway
<1>6. /\ list' = list /\ out' = Joined(Value(call.list[i + 1]), out)
      /\ work' = <<Each(call.op, i - 1, j)>> \o Tail(work)
  BY <1>1, <1>3, <1>4 DEF AccumulateBack, Results, Proceed, Each
<1>7. FoldrSoFar(i - 1)'
  <2>1. ASSUME NEW g, Folds(g) PROVE out' = g[size - 1 - (i - 1)]
    <3>1. size - i \in 1..size /\ size - i - 1 = size - 1 - i /\ size - 1 - (i - 1) = size - i
          /\ size + 1 - (size - i) = i + 1
      BY <1>3
    <3>2. g[size - i] = Combine("foldr", g[size - i - 1], Leaves[Nth("foldr", size, size - i)])
      BY <1>1, <2>1, <3>1 DEF Folds, Tower, Fed
    <3>3. Leaves[i + 1] = Value(call.list[i + 1])
      BY <1>3, LeavesAre
    <3>4. g[size - i] = Joined(Value(call.list[i + 1]), g[size - 1 - i])
      BY <3>1, <3>2, <3>3 DEF Combine, Nth
    <3>5. out = g[size - 1 - i]
      BY <1>2, <2>1 DEF FoldrSoFar
    <3>6. QED
      BY <1>6, <3>1, <3>4, <3>5
  <2>2. QED
    BY <1>1, <1>2, <1>3, <1>5, <2>1 DEF FoldrSoFar
<1>8. SoFar(i - 1, j)'
  BY <1>1, <1>5, <1>7 DEF SoFar
<1>9. \A k \in 1..size : Unread(k, i)
  BY <1>1 DEF Unread
<1>10. i - 1 \in Int
  OBVIOUS
<1>11. QED
  BY <1>3, <1>5, <1>6, <1>8, <1>9, <1>10, EachStep

-----------------------------------------------------------------------------
(* The end of a call.                                                      *)

(* What a step leaves that only takes the call from what is to be done.    *)
LEMMA AnsweredKeeps ==
  ASSUME call \in Calls, UNCHANGED fixed, work' = <<>>, Answered'
  PROVE  EachInv'
BY DEF EachInv, fixed

LEMMA TrimKeeps ==
  ASSUME call \in Calls, call.op # "sort", NEW i \in Int, NEW j \in Int, Underway(i, j), Trim
  PROVE  EachInv'
<1>1. call.op = "filter" /\ ~Asks
  BY EachIs DEF Trim, Expands
<1>2. FilterSoFar(i, j) /\ 0 <= j /\ j <= i /\ i <= size
  BY <1>1 DEF Underway, SoFar, FilterSoFar
<1>3. /\ call.list \in Seq(Int) /\ size \in Nat /\ size = Len(call.list) /\ DOMAIN call.list = 1..size
  BY CallIs
<1>4. i = size
  BY <1>1, <1>2, <1>3, EachIs
<1>5. /\ UNCHANGED fixed /\ call' = call /\ out' = out /\ work' = <<>>
      /\ list' = IF call.create THEN list ELSE SubSeq(list, 1, j)
  <2>1. Task.j = j
    BY EachIs
  <2>2. Tail(work) = <<>> /\ <<>> \o Tail(work) = <<>>
    BY EachIs, EachGoesOn
  <2>3. QED
    BY <2>1, <2>2 DEF Trim, Results, Proceed, fixed
<1>6. PICK g : Tower("filter", size, <<>>, call.list, g) /\ FoldLeft(Keep, <<>>, call.list) = g[size]
  <2>1. PICK n, l : n \in Nat /\ n = size /\ l = call.list
    BY <1>3
  <2>2. n \in Nat /\ DOMAIN l = 1..n
    BY <1>3, <2>1
  <2>3. \E g : Tower("filter", n, <<>>, l, g) /\ FoldLeft(Keep, <<>>, l) = g[n]
    BY <2>2, FoldedKept
  <2>4. QED
    BY <2>1, <2>3
<1>7. Folds(g)
  BY <1>1, <1>6 DEF Folds, Base, Fed
<1>8. g[size] \in Seq(Int) /\ IF call.create THEN out = g[size] ELSE Len(g[size]) = j /\ \A k \in 1..j : list[k] = g[size][k]
  BY <1>2, <1>4, <1>7 DEF FilterSoFar
<1>9. (IF call.create THEN out ELSE list') = g[size]
  <2>1. CASE call.create
    BY <1>8, <2>1
  <2>2. CASE ~call.create
    <3>1. list \in Seq(Int) /\ Len(list) >= size /\ Len(list) \in Nat
      BY DEF Underway
    <3>2. PICK s \in Seq(Int) : s = g[size]
      BY <1>8
    <3>3. Len(s) = j /\ \A k \in 1..j : list[k] = s[k]
      BY <1>8, <2>2, <3>2
    <3>4. j \in Nat /\ j <= Len(list)
      BY <1>2, <1>3, <3>1
    <3>5. list' = SubSeq(list, 1, j)
      BY <1>5, <2>2
    <3>6. list' \in Seq(Int) /\ Len(list') = j /\ \A k \in 1..j : list'[k] = list[k]
      BY <3>1, <3>4, <3>5, SubSeqProperties
    <3>7. list' = s
      BY <3>3, <3>6, SeqEqual
    <3>8. QED
      BY <2>2, <3>2, <3>7
  <2>3. QED
    BY <2>1, <2>2
<1>10. Answered'
  BY <1>1, <1>5, <1>6, <1>9 DEF Answered
<1>11. QED
  BY <1>5, <1>10, AnsweredKeeps

LEMMA IteratedMap ==
  ASSUME call \in Calls, call.op = "map", NEW i \in Int, NEW j \in Int, Underway(i, j), ~Asks
  PROVE  Answered
<1>1. MapSoFar(i) /\ 0 <= i /\ i <= size
  BY DEF Underway, SoFar, MapSoFar
<1>2. /\ call.list \in Seq(Int) /\ size \in Nat /\ size = Len(call.list) /\ DOMAIN call.list = 1..size
      /\ call.create \in BOOLEAN
  BY CallIs
<1>3. i = size
  BY <1>1, <1>2, EachIs
<1>4. PICK f : f = [k \in DOMAIN call.list |-> Image(call.list[k])]
  OBVIOUS
<1>5. f \in Seq(Int) /\ Len(f) = size /\ \A k \in 1..size : f[k] = Image(call.list[k])
  <2>1. \A k \in 1..size : call.list[k] \in Int /\ Image(call.list[k]) \in Int
    BY <1>2, ElementOfSeq DEF Image
  <2>2. f \in [1..size -> Int] /\ DOMAIN f = 1..size
    BY <1>2, <1>4, <2>1
  <2>3. f \in Seq(Int)
    <3>1. PICK n \in Nat : n = size
      BY <1>2
    <3>2. f \in [1..n -> Int]
      BY <2>2, <3>1
    <3>3. QED
      BY <3>2
  <2>4. QED
    BY <1>2, <1>4, <2>2, <2>3, LenProperties
<1>6. PICK made : made = IF call.create THEN out ELSE SubSeq(list, 1, Len(call.list))
  OBVIOUS
<1>7. made \in Seq(Int) /\ Len(made) = size /\ \A k \in 1..size : made[k] = Image(call.list[k])
  <2>1. CASE call.create
    BY <1>1, <1>3, <1>6, <2>1 DEF MapSoFar
  <2>2. CASE ~call.create
    <3>1. list \in Seq(Int) /\ Len(list) >= size /\ Len(list) \in Nat
      BY DEF Underway
    <3>2. \A k \in 1..size : list[k] = Image(call.list[k])
      BY <1>1, <1>3, <2>2 DEF MapSoFar
    <3>3. made = SubSeq(list, 1, size)
      BY <1>2, <1>6, <2>2
    <3>4. size <= Len(list)
      BY <1>2, <3>1
    <3>5. made \in Seq(Int) /\ Len(made) = size /\ \A k \in 1..size : made[k] = list[k]
      BY <1>2, <3>1, <3>3, <3>4, SubSeqProperties
    <3>6. QED
      BY <3>2, <3>5
  <2>3. QED
    BY <2>1, <2>2
<1>8. made = f
  BY <1>5, <1>7, SeqEqual
<1>9. QED
  BY <1>4, <1>6, <1>8 DEF Answered

LEMMA IteratedFold ==
  ASSUME call \in Calls, call.op = "fold", NEW i \in Int, NEW j \in Int, Underway(i, j), ~Asks
  PROVE  Answered
<1>1. FoldSoFar(i)
  BY DEF Underway, SoFar
<1>2. call.list \in Seq(Int) /\ size \in Nat /\ size = Len(call.list) /\ DOMAIN call.list = 1..size
  BY CallIs
<1>3. CASE size = 0
  <2>1. call.list = <<>>
    BY <1>2, <1>3, EmptySeq
  <2>2. out = Unit
    BY <1>1, <1>3 DEF FoldSoFar
  <2>3. QED
    BY <2>1, <2>2 DEF Answered
<1>4. CASE size # 0
  <2>1. i = size
    BY <1>1, <1>2, <1>4, EachIs DEF FoldSoFar
  <2>2. call.list # <<>>
    BY <1>2, <1>4, EmptySeq
  <2>3. DOMAIN Tail(Leaves) = 1..(size - 1) /\ size - 1 \in Nat
    BY <1>2, <1>4, LeavesAre
  <2>4. PICK g : /\ Tower("fold", size - 1, Leaves[1], Tail(Leaves), g)
                 /\ FoldLeft(Joined, Leaves[1], Tail(Leaves)) = g[size - 1]
    <3>1. PICK n, b, l : n \in Nat /\ n = size - 1 /\ b = Leaves[1] /\ l = Tail(Leaves)
      BY <2>3
    <3>2. n \in Nat /\ DOMAIN l = 1..n /\ "fold" \in {"fold", "foldl"}
      BY <2>3, <3>1
    <3>3. \E g : Tower("fold", n, b, l, g) /\ FoldLeft(Joined, b, l) = g[n]
      BY <3>2, FoldedLeft
    <3>4. QED
      BY <3>1, <3>3
  <2>5. Folds(g)
    BY <2>4 DEF Folds, Base, Fed
  <2>6. out = g[size - 1]
    BY <1>1, <1>4, <2>1, <2>5 DEF FoldSoFar
  <2>7. QED
    BY <2>2, <2>4, <2>6 DEF Answered, Leaves
<1>5. QED
  BY <1>3, <1>4

LEMMA IteratedFoldl ==
  ASSUME call \in Calls, call.op = "foldl", NEW i \in Int, NEW j \in Int, Underway(i, j), ~Asks
  PROVE  Answered
<1>1. FoldlSoFar(i) /\ i <= size
  BY DEF Underway, SoFar, FoldlSoFar
<1>2. size \in Nat
  BY CallIs
<1>3. i = size
  BY <1>1, <1>2, EachIs
<1>4. PICK g : Tower("foldl", size, HeadValue, Leaves, g) /\ FoldLeft(Joined, HeadValue, Leaves) = g[size]
  <2>1. PICK n, b, l : n \in Nat /\ n = size /\ b = HeadValue /\ l = Leaves
    BY <1>2
  <2>2. n \in Nat /\ DOMAIN l = 1..n /\ "foldl" \in {"fold", "foldl"}
    BY <2>1, LeavesAre
  <2>3. \E g : Tower("foldl", n, b, l, g) /\ FoldLeft(Joined, b, l) = g[n]
    BY <2>2, FoldedLeft
  <2>4. QED
    BY <2>1, <2>3
<1>5. Folds(g)
  BY <1>4 DEF Folds, Base, Fed
<1>6. out = g[size]
  BY <1>1, <1>3, <1>5 DEF FoldlSoFar
<1>7. QED
  BY <1>4, <1>6 DEF Answered, Leaves

LEMMA IteratedFoldr ==
  ASSUME call \in Calls, call.op = "foldr", NEW i \in Int, NEW j \in Int, Underway(i, j), ~Asks
  PROVE  Answered
<1>1. FoldrSoFar(i) /\ -1 <= i
  BY DEF Underway, SoFar, FoldrSoFar
<1>2. size \in Nat
  BY CallIs
<1>3. i = -1 /\ size - 1 - i = size
  <2>1. ~(i >= 0)
    BY EachIs
  <2>2. QED
    BY <1>1, <1>2, <2>1
<1>4. PICK g : Tower("foldr", size, HeadValue, Leaves, g) /\ FoldRight(Joined, Leaves, HeadValue) = g[size]
  BY <1>2, LeavesAre, FoldedRight
<1>5. Folds(g)
  BY <1>4 DEF Folds, Base, Fed
<1>6. out = g[size]
  BY <1>1, <1>3, <1>5 DEF FoldrSoFar
<1>7. QED
  BY <1>4, <1>6 DEF Answered, Leaves

LEMMA IteratedKeeps ==
  ASSUME call \in Calls, call.op # "sort", NEW i \in Int, NEW j \in Int, Underway(i, j),
         NEW do \in {"map", "fold", "foldl", "foldr"}, Iterated(do)
  PROVE  EachInv'
<1>1. call.op = do /\ ~Asks
  BY EachIs DEF Iterated, Expands
<1>2. Answered
  BY <1>1, IteratedMap, IteratedFold, IteratedFoldl, IteratedFoldr
<1>3. UNCHANGED fixed /\ UNCHANGED <<call, list, out>> /\ work' = <<>>
  BY EachGoesOn DEF Iterated, Step, Continue, Proceed, fixed
<1>4. Answered'
  BY <1>2, <1>3 DEF Answered
<1>5. QED
  BY <1>3, <1>4, AnsweredKeeps

LEMMA AppendByScriptKeeps ==
  ASSUME call \in Calls, call.op # "sort", NEW i \in Int, NEW j \in Int, Underway(i, j),
         NEW x \in Extra, AppendByScript(x)
  PROVE  EachInv'
<1>1. x \in Int
  BY ExtraAssumption
<1>2. list' = Append(list, x) /\ UNCHANGED <<call, out, st, work, phase>>
  BY DEF AppendByScript
<1>3. size' = size /\ (\A g : Folds(g)' <=> Folds(g)) /\ (\A k, m : Unread(k, m)' <=> Unread(k, m))
  BY <1>2, FoldsSame
<1>4. list \in Seq(Int) /\ Len(list) >= size /\ Len(list) \in Nat /\ size \in Nat /\ call.create \in BOOLEAN
  BY CallIs DEF Underway
<1>5. list' \in Seq(Int) /\ Len(list') = Len(list) + 1 /\ \A k \in 1..Len(list) : list'[k] = list[k]
  BY <1>1, <1>2, <1>4, AppendProperties
<1>6. \A k \in 1..size : k \in 1..Len(list)
  BY <1>4
<1>7. ASSUME call.op = "map" PROVE MapSoFar(i)'
  <2>1. MapSoFar(i)
    BY <1>7 DEF Underway, SoFar
  <2>2. 0 <= i /\ i <= size /\ \A k \in 1..i : k \in 1..size
    BY <1>4, <2>1 DEF MapSoFar
  <2>3. QED
    BY <1>2, <1>3, <1>5, <1>6, <2>1, <2>2 DEF MapSoFar
<1>8. ASSUME call.op = "filter" PROVE FilterSoFar(i, j)'
  <2>1. FilterSoFar(i, j)
    BY <1>8 DEF Underway, SoFar
  <2>2. 0 <= j /\ j <= i /\ i <= size /\ \A k \in 1..j : k \in 1..Len(list)
    BY <1>4, <2>1 DEF FilterSoFar
  <2>3. \A k \in 1..j : list'[k] = list[k]
    BY <1>5, <2>2
  <2>4. QED
    BY <1>2, <1>3, <2>1, <2>2, <2>3 DEF FilterSoFar
<1>9. SoFar(i, j)'
  <2>1. SoFar(i, j)
    BY DEF Underway
  <2>2. QED
    BY <1>2, <1>3, <1>7, <1>8, <2>1 DEF SoFar, FoldSoFar, FoldlSoFar, FoldrSoFar
<1>10. Underway(i, j)'
  <2>1. phase' = "run" /\ work' = <<Each(call'.op, i, j)>>
    BY <1>2 DEF Underway
  <2>2. Len(list') >= size'
    BY <1>3, <1>4, <1>5
  <2>3. \A k \in 1..size : Unread(k, i) => list'[k] = call.list[k]
    BY <1>5, <1>6 DEF Underway
  <2>4. QED
    BY <1>2, <1>3, <1>5, <1>9, <2>1, <2>2, <2>3 DEF Underway
<1>11. QED
  BY <1>2, <1>10 DEF EachInv

LEMMA EachInit == ASSUME Init PROVE EachInv
<1>1. call \in Calls /\ list = call.list /\ phase = "run"
  BY DEF Init
<1>2. SUFFICES ASSUME call.op # "sort" PROVE \E i, j \in Int : Underway(i, j)
  BY <1>1 DEF EachInv
<1>3. call.op \in Ops /\ call.list \in Seq(Int) /\ size \in Nat /\ size = Len(call.list) /\ Len(list) = size
  BY <1>1, CallIs
<1>4. \A g : Folds(g) => g[0] = Base
  BY DEF Folds, Tower
<1>5. ASSUME NEW i \in Int, work = <<Each(call.op, i, 0)>>, SoFar(i, 0)
      PROVE  Underway(i, 0)
  BY <1>1, <1>3, <1>5 DEF Underway
<1>6. CASE call.op = "map"
  <2>1. work = <<Each(call.op, 0, 0)>> /\ out = Unit
    BY <1>6 DEF Init
  <2>2. Unit \in Seq(Int) /\ Len(Unit) = 0
    BY DEF Unit
  <2>3. SoFar(0, 0)
    BY <1>3, <1>6, <2>1, <2>2 DEF SoFar, MapSoFar
  <2>4. QED
    BY <1>5, <2>1, <2>3
<1>7. CASE call.op = "filter"
  <2>1. work = <<Each(call.op, 0, 0)>> /\ out = Unit
    BY <1>7 DEF Init
  <2>2. Unit \in Seq(Int) /\ Len(Unit) = 0
    BY DEF Unit
  <2>3. Base = Unit
    BY <1>7 DEF Base, Unit
  <2>4. ASSUME NEW g, Folds(g)
        PROVE  g[0] \in Seq(Int) /\ Len(g[0]) = 0 /\ out = g[0] /\ \A k \in 1..0 : list[k] = g[0][k]
    <3>1. g[0] = Unit
      BY <1>4, <2>3, <2>4
    <3>2. PICK s : s = g[0]
      OBVIOUS
    <3>3. s \in Seq(Int) /\ Len(s) = 0 /\ out = s
      BY <2>1, <2>2, <3>1, <3>2
    <3>4. QED
      BY <3>2, <3>3
  <2>5. FilterSoFar(0, 0)
    BY <1>3, <2>4 DEF FilterSoFar
  <2>6. SoFar(0, 0)
    BY <1>7, <2>5 DEF SoFar
  <2>7. QED
    BY <1>5, <2>1, <2>6
<1>8. CASE call.op = "fold"
  <2>1. work = <<Each(call.op, 1, 0)>> /\ out = IF size > 0 THEN Value(list[1]) ELSE Unit
    BY <1>8 DEF Init, At
  <2>2. size > 0 => out = Base
    <3>1. HAVE size > 0
    <3>2. 1 \in 1..size
      BY <1>3, <3>1
    <3>3. Leaves[1] = Value(call.list[1])
      BY <1>1, <3>2, LeavesAre
    <3>4. QED
      BY <1>1, <1>8, <2>1, <3>1, <3>3 DEF Base
  <2>3. FoldSoFar(1)
    BY <1>3, <1>4, <2>1, <2>2 DEF FoldSoFar
  <2>4. SoFar(1, 0)
    BY <1>8, <2>3 DEF SoFar
  <2>5. QED
    BY <1>5, <2>1, <2>4
<1>9. CASE call.op = "foldl"
  <2>1. work = <<Each(call.op, 0, 0)>> /\ out = Base
    BY <1>9 DEF Init, Base
  <2>2. SoFar(0, 0)
    BY <1>3, <1>4, <1>9, <2>1 DEF SoFar, FoldlSoFar
  <2>3. QED
    BY <1>5, <2>1, <2>2
<1>10. CASE call.op = "foldr"
  <2>1. work = <<Each(call.op, size - 1, 0)>> /\ out = Base
    BY <1>10 DEF Init, Base
  <2>2. size - 1 - (size - 1) = 0 /\ -1 <= size - 1 /\ size - 1 < size
    BY <1>3
  <2>3. SoFar(size - 1, 0)
    BY <1>3, <1>4, <1>10, <2>1, <2>2 DEF SoFar, FoldrSoFar
  <2>4. size - 1 \in Int
    BY <1>3
  <2>5. QED
    BY <1>5, <2>1, <2>3, <2>4
<1>11. call.op \in {"map", "filter", "fold", "foldl", "foldr"}
  BY <1>2, <1>3 DEF Ops
<1>12. QED
  BY Zenon, <1>6, <1>7, <1>8, <1>9, <1>10, <1>11

LEMMA EachNext == ASSUME NoFoldrOfOne, EachInv, [Next]_vars PROVE EachInv'
<1>1. call' = call /\ call \in Calls
  BY DEF EachInv, Next, vars, fixed, Pair, Search, RisePast, FallPast, StartRun, RunOn, RunBroken, RunAtEnd, EndRun,
     Lead, Take, ShiftOn, ShiftedAll, Settle, NextSample, PutBack, ExpandQsort, Split, Parted, Scanned, ExpandMsort,
     Basis, Merged, Return, Map, Filter, Trim, Accumulate, AccumulateBack, Iterated, Throw, AppendByScript,
     Step, Continue, Proceed
<1>2. SUFFICES ASSUME call.op # "sort" PROVE EachInv'
  BY <1>1 DEF EachInv
<1>3. CASE UNCHANGED vars
  <2>1. UNCHANGED <<call, list, out, work, phase>>
    BY <1>3 DEF vars, fixed
  <2>2. size' = size /\ (\A g : Folds(g)' <=> Folds(g)) /\ (\A k, m : Unread(k, m)' <=> Unread(k, m))
    BY <2>1, FoldsSame
  <2>3. ASSUME NEW i \in Int, NEW j \in Int, Underway(i, j) PROVE Underway(i, j)'
    <3>1. SoFar(i, j)'
      BY <2>1, <2>2, <2>3 DEF Underway, SoFar, MapSoFar, FilterSoFar, FoldSoFar, FoldlSoFar, FoldrSoFar
    <3>2. QED
      BY <2>1, <2>2, <2>3, <3>1 DEF Underway
  <2>4. Answered' <=> Answered
    BY <2>1 DEF Answered
  <2>5. QED
    BY <1>2, <2>1, <2>3, <2>4 DEF EachInv
<1>4. CASE Throw
  BY <1>1, <1>4 DEF EachInv, Throw
<1>5. CASE phase = "error" /\ Next
  <2>1. phase # "run"
    BY <1>5
  <2>2. FALSE
    BY <1>5, <2>1 DEF Next, Asks, Asked, Expands, Iterating, Pair, Search, RisePast, FallPast, StartRun, RunOn, RunBroken,
       RunAtEnd, Lead, Take, ShiftOn, ShiftedAll, NextSample, PutBack, ExpandQsort, Split, Scanned, ExpandMsort,
       Basis, Merged, Return, Map, Filter, Trim, Accumulate, AccumulateBack, Iterated, Throw, AppendByScript
  <2>3. QED
    BY <2>2
<1>6. CASE work = <<>> /\ Answered /\ Next
  <2>1. Return
    BY <1>6 DEF Next, Asks, Asked, Expands, Iterating, Pair, Search, RisePast, FallPast, StartRun, RunOn, RunBroken,
       RunAtEnd, Lead, Take, ShiftOn, ShiftedAll, NextSample, PutBack, ExpandQsort, Split, Scanned, ExpandMsort,
       Basis, Merged, Return, Map, Filter, Trim, Accumulate, AccumulateBack, Iterated, Throw, AppendByScript
  <2>2. QED
    BY <1>1, <1>6, <2>1 DEF EachInv, Return, Answered
<1>7. ASSUME NEW i \in Int, NEW j \in Int, Underway(i, j), Next, ~Throw PROVE EachInv'
  <2>1. work # <<>> /\ Task.do = call.op
    BY <1>1, <1>2, <1>7, EachIs
  <2>2. call.op \in {"map", "filter", "fold", "foldl", "foldr"}
    BY <1>1, <1>2, CallIs DEF Ops
  <2>3. ASSUME NEW lt \in BOOLEAN
        PROVE  /\ ~Pair(lt) /\ ~Search(lt) /\ ~RisePast(lt) /\ ~FallPast(lt)
               /\ ~StartRun(lt) /\ ~RunOn(lt) /\ ~RunBroken(lt) /\ ~Lead(lt) /\ ~Take(lt) /\ ~ShiftOn(lt)
    BY <2>1, <2>2 DEF Asked, Pair, Search, RisePast, FallPast, StartRun, RunOn, RunBroken, Lead, Take, ShiftOn
  <2>4. /\ ~NextSample /\ ~PutBack /\ ~ExpandQsort /\ ~Split /\ ~RunAtEnd /\ ~Scanned /\ ~ExpandMsort /\ ~Basis
        /\ ~ShiftedAll /\ ~Merged("lead") /\ ~Merged("take") /\ ~Return
    BY <2>1, <2>2 DEF Expands, NextSample, PutBack, ExpandQsort, Split, RunAtEnd, Scanned, ExpandMsort, Basis,
       ShiftedAll, Merged, Return
  <2>5. ASSUME AccumulateBack PROVE EachInv'
    <3>1. size # 1
      BY <1>1, <2>1, <2>5 DEF AccumulateBack, Iterating, NoFoldrOfOne, size
    <3>2. QED
      BY <1>1, <1>2, <1>7, <2>5, <3>1, AccumulateBackKeeps
  <2>6. ASSUME Map \/ Filter \/ Trim PROVE EachInv'
    BY <1>1, <1>2, <1>7, <2>6, MapKeeps, FilterKeeps, TrimKeeps
  <2>7. ASSUME Accumulate("fold") \/ Accumulate("foldl") PROVE EachInv'
    BY <1>1, <1>2, <1>7, <2>7, AccumulateKeeps
  <2>8. ASSUME NEW do \in {"map", "fold", "foldl", "foldr"}, Iterated(do) PROVE EachInv'
    BY <1>1, <1>2, <1>7, <2>8, IteratedKeeps
  <2>9. ASSUME NEW x \in Extra, AppendByScript(x) PROVE EachInv'
    BY <1>1, <1>2, <1>7, <2>9, AppendByScriptKeeps
  <2>10. QED
    BY <1>7, <2>3, <2>4, <2>5, <2>6, <2>7, <2>8, <2>9 DEF Next
<1>8. phase = "error" \/ (work = <<>> /\ Answered) \/ \E i, j \in Int : Underway(i, j)
  BY <1>2 DEF EachInv
<1>9. Next \/ UNCHANGED vars
  OBVIOUS
<1>10. QED
  BY ZenonT(40), <1>3, <1>4, <1>5, <1>6, <1>7, <1>8, <1>9

(* map, filter and the folds answer what is defined of the list as it was  *)
(* at the call, whatever the list is, whether the result goes to a new     *)
(* list or into the same, and whatever the function appends to the list in *)
(* between: nothing that is written is read again.  A call of foldr on one *)
(* element is left out: the code gives its function the arguments the      *)
(* other way round.                                                        *)
THEOREM AnswersAreMeant == ASSUME NoFoldrOfOne PROVE Spec => []Meaning
<1>1. EachInv => Meaning
  BY DEF EachInv, Meaning, Underway, Answered
<1>2. Spec => []EachInv
  BY EachInit, EachNext, PTL DEF Spec
<1>3. QED
  BY <1>1, <1>2, PTL

==============================================================================
