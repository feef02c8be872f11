--------------------------- MODULE AloTableProofs ---------------------------
(***************************************************************************)
(* Proofs about AloTable, for every set of keys, every hash and every      *)
(* limit of the size.                                                      *)
(*                                                                         *)
(* The slots of a table are ranked along its chains: the rank of a head is *)
(* 0, and the rank of an entry is that of the one before it and 1.  With   *)
(* the ranks there are no circles: every entry has a head, and the search  *)
(* for its key comes to it.                                                *)
(***************************************************************************)
EXTENDS AloTable, StackProofs

Home(A, c, i) == Hash[A[i].key] % c

(* The slots that the links of the entry i of the array A lead to, or -1.  *)
PrevOf(A, i) == IF A[i].prev = 0 THEN -1 ELSE i - A[i].prev
NextOf(A, i) == IF A[i].next = 0 THEN -1 ELSE i + A[i].next
Plain(A, i) == (PrevOf(A, i) = -1 => A[i].prev = 0) /\ (NextOf(A, i) = -1 => A[i].next = 0)

(* The links of the entry i among c, with the ranks r, are right.          *)
Back(A, c, r, i) ==
  LET p == PrevOf(A, i)
  IN  IF p = -1 THEN i = Home(A, c, i) /\ r[i] = 0
      ELSE /\ p \in 0..(c - 1) /\ A[p].key # NoKey /\ NextOf(A, p) = i
           /\ Home(A, c, p) = Home(A, c, i) /\ r[i] = r[p] + 1
Forth(A, c, i) ==
  LET n == NextOf(A, i)
  IN  n # -1 => n \in 0..(c - 1) /\ A[n].key # NoKey /\ PrevOf(A, n) = i

Arrays(c) == [0..(c - 1) -> Entry]
Linked(A, c, r) ==
  /\ A \in Arrays(c) /\ r \in [0..(c - 1) -> Nat]
  /\ \A i \in 0..(c - 1) : Plain(A, i)
  /\ \A i \in 0..(c - 1) : A[i].key = NoKey => A[i] = Empty
  /\ \A i \in 0..(c - 1) : A[i].key # NoKey => Back(A, c, r, i)
  /\ \A i \in 0..(c - 1) : A[i].key # NoKey => Forth(A, c, i)

-----------------------------------------------------------------------------
(* Chains.                                                                 *)

LEMMA ArrayEntry ==
  ASSUME NEW c, NEW A \in Arrays(c), NEW x \in 0..(c - 1)
  PROVE  A[x] \in Entry
BY DEF Arrays

(* The types of the fields of an entry.                                    *)
LEMMA FieldTypes ==
  ASSUME NEW e \in Entry
  PROVE  /\ e.key \in Key \cup {NoKey} /\ e.val \in Val \cup {NoVal}
         /\ e.prev \in Int /\ e.next \in Int
BY DEF Entry

(* A hash leads to a slot of the array (headety).                          *)
LEMMA HomeIn ==
  ASSUME NEW c \in Nat \ {0}, NEW k \in Key
  PROVE  Hash[k] % c \in 0..(c - 1)
<1>1. Hash[k] \in Nat
  BY TableAssumption
<1>2. QED
  BY <1>1

(* Where the links of an entry lead.                                       *)
LEMMA LinkTypes ==
  ASSUME NEW c \in Nat, NEW A \in Arrays(c), NEW i \in 0..(c - 1)
  PROVE  PrevOf(A, i) \in Int /\ NextOf(A, i) \in Int
<1>1. PICK m \in Int : m = A[i].prev
  BY ArrayEntry, FieldTypes
<1>2. PICK n \in Int : n = A[i].next
  BY ArrayEntry, FieldTypes
<1>3. i - m \in Int /\ i + n \in Int
  OBVIOUS
<1>4. QED
  BY <1>1, <1>2, <1>3 DEF PrevOf, NextOf

(* Every entry is in the chain of a head, which sits where the keys of the *)
(* chain lead.                                                             *)
LEMMA HeadUsed ==
  ASSUME NEW c \in Nat, NEW A, NEW r, Linked(A, c, r),
         NEW i \in 0..(c - 1), A[i].key # NoKey
  PROVE  LET h == Home(A, c, i)
         IN  /\ h \in 0..(c - 1) /\ A[h].key # NoKey /\ PrevOf(A, h) = -1 /\ Home(A, c, h) = h
             /\ r[h] = 0
<1>1. PICK h : h = Home(A, c, i)
  OBVIOUS
<1> DEFINE I == {x \in 0..(c - 1) : A[x].key # NoKey /\ Home(A, c, x) = h}
           R == {r[x] : x \in I}
<1>2. R \in SUBSET Nat /\ R # {}
  BY <1>1 DEF Linked
<1>3. PICK m \in R : \A n \in R : m <= n
  <2> HIDE DEF R
  <2>1. QED
    BY <1>2, LeastExists
<1>4. PICK x \in I : r[x] = m
  BY <1>3
<1>5. /\ x \in 0..(c - 1) /\ A[x].key # NoKey /\ Home(A, c, x) = h /\ Back(A, c, r, x)
      /\ r \in [0..(c - 1) -> Nat]
  BY <1>4 DEF Linked
<1>6. PrevOf(A, x) = -1
  <2> SUFFICES ASSUME PrevOf(A, x) # -1 PROVE FALSE
    OBVIOUS
  <2>1. PICK p : p = PrevOf(A, x)
    OBVIOUS
  <2>2. p \in 0..(c - 1) /\ A[p].key # NoKey /\ Home(A, c, p) = h /\ r[x] = r[p] + 1
    BY <1>5, <2>1 DEF Back
  <2>3. r[p] \in R /\ r[p] \in Nat
    BY <1>5, <2>2
  <2>4. m <= r[p]
    BY <1>3, <2>3
  <2>5. QED
    BY <1>4, <2>2, <2>3, <2>4
<1>7. x = h /\ r[x] = 0
  BY <1>5, <1>6 DEF Back
<1>8. QED
  BY <1>1, <1>5, <1>6, <1>7

-----------------------------------------------------------------------------
(* What the operations do to the array.                                    *)

(* Key k and value v in the free slot h.                                   *)
Filled(A, h, k, v) == [A EXCEPT ![h].key = k, ![h].val = v]

(* The entries of the array once a free slot is filled.                    *)
LEMMA FilledIs ==
  ASSUME NEW c \in Nat, NEW A \in Arrays(c), NEW h \in 0..(c - 1),
         NEW k \in Key \cup {NoKey}, NEW v \in Val \cup {NoVal}
  PROVE  /\ Filled(A, h, k, v) \in Arrays(c)
         /\ \A x \in 0..(c - 1) :
              /\ Filled(A, h, k, v)[x].key = IF x = h THEN k ELSE A[x].key
              /\ Filled(A, h, k, v)[x].val = IF x = h THEN v ELSE A[x].val
              /\ Filled(A, h, k, v)[x].prev = A[x].prev
              /\ Filled(A, h, k, v)[x].next = A[x].next
              /\ x # h => Filled(A, h, k, v)[x] = A[x]
BY DEF Filled, Arrays, Entry

(* An entry whose links are changed.                                       *)
LEMMA Relinked ==
  ASSUME NEW e \in Entry, NEW d \in Int
  PROVE  /\ [e EXCEPT !.next = d] \in Entry /\ [e EXCEPT !.prev = d] \in Entry
         /\ [e EXCEPT !.next = d].key = e.key /\ [e EXCEPT !.next = d].val = e.val
         /\ [e EXCEPT !.next = d].prev = e.prev /\ [e EXCEPT !.next = d].next = d
         /\ [e EXCEPT !.prev = d].key = e.key /\ [e EXCEPT !.prev = d].val = e.val
         /\ [e EXCEPT !.prev = d].next = e.next /\ [e EXCEPT !.prev = d].prev = d
BY DEF Entry

(* An entry with new fields is an entry.                                   *)
LEMMA NewEntry ==
  ASSUME NEW k \in Key \cup {NoKey}, NEW v \in Val \cup {NoVal}, NEW d \in Int, NEW e \in Int
  PROVE  LET x == [key |-> k, val |-> v, prev |-> d, next |-> e]
         IN  x \in Entry /\ x.key = k /\ x.val = v /\ x.prev = d /\ x.next = e
BY DEF Entry

(* The fields of the empty entry.                                          *)
LEMMA EmptyIs ==
  Empty \in Entry /\ Empty.key = NoKey /\ Empty.val = NoVal /\ Empty.prev = 0 /\ Empty.next = 0
BY DEF Empty, Entry

(* An array that is given slot by slot.                                    *)
LEMMA SlotBySlot ==
  ASSUME NEW c \in Nat, NEW B, B = [x \in 0..(c - 1) |-> B[x]],
         \A x \in 0..(c - 1) : B[x] \in Entry
  PROVE  B \in Arrays(c)
BY DEF Arrays

(* The entry e at src at dst, which is free or before it in its chain; p   *)
(* and n are the slots before and after it.                                *)
Moved(A, dst, src, e, p, n) ==
  [x \in DOMAIN A |->
     IF x = src THEN Empty
     ELSE IF x = dst
     THEN [key |-> e.key, val |-> e.val, prev |-> IF e.prev = 0 THEN 0 ELSE dst - p,
           next |-> IF e.next = 0 THEN 0 ELSE n - dst]
     ELSE IF e.prev # 0 /\ x = p THEN [A[x] EXCEPT !.next = dst - p]
     ELSE IF e.next # 0 /\ x = n THEN [A[x] EXCEPT !.prev = n - dst]
     ELSE A[x]]

(* The entries of the array once one is moved (movety): the free slot has  *)
(* it, with its links adjusted by the distance, its neighbours lead there, *)
(* and its old slot is empty.                                              *)
LEMMA MovedIs ==
  ASSUME NEW c \in Nat, NEW A \in Arrays(c), NEW dst \in 0..(c - 1), NEW src \in 0..(c - 1),
         dst # src, NEW e \in Entry, NEW p \in Int, NEW n \in Int,
         e.prev = 0 \/ e.next = 0 \/ p # n
  PROVE  LET B == Moved(A, dst, src, e, p, n)
         IN  /\ B \in Arrays(c)
             /\ B[src] = Empty
             /\ B[dst].key = e.key /\ B[dst].val = e.val
             /\ B[dst].prev = IF e.prev = 0 THEN 0 ELSE dst - p
             /\ B[dst].next = IF e.next = 0 THEN 0 ELSE n - dst
             /\ \A x \in 0..(c - 1) : x # src /\ x # dst =>
                  /\ B[x].key = A[x].key /\ B[x].val = A[x].val
                  /\ B[x].next = IF e.prev # 0 /\ x = p THEN dst - p ELSE A[x].next
                  /\ B[x].prev = IF e.next # 0 /\ x = n THEN n - dst ELSE A[x].prev
                  /\ (e.prev # 0 => x # p) /\ (e.next # 0 => x # n) => B[x] = A[x]
<1>1. PICK B : B = Moved(A, dst, src, e, p, n)
  OBVIOUS
<1>2. DOMAIN A = 0..(c - 1)
  BY DEF Arrays
<1>3. /\ B = [x \in 0..(c - 1) |-> B[x]]
      /\ B[src] = Empty
      /\ B[dst] = [key |-> e.key, val |-> e.val, prev |-> IF e.prev = 0 THEN 0 ELSE dst - p,
                   next |-> IF e.next = 0 THEN 0 ELSE n - dst]
  BY <1>1, <1>2 DEF Moved
<1>4. ASSUME NEW x \in 0..(c - 1), x # src, x # dst
      PROVE  B[x] = IF e.prev # 0 /\ x = p THEN [A[x] EXCEPT !.next = dst - p]
                    ELSE IF e.next # 0 /\ x = n THEN [A[x] EXCEPT !.prev = n - dst]
                    ELSE A[x]
  BY <1>1, <1>2, <1>4 DEF Moved
<1>5. ASSUME NEW x \in 0..(c - 1), x # src, x # dst
      PROVE  /\ B[x] \in Entry /\ B[x].key = A[x].key /\ B[x].val = A[x].val
             /\ B[x].next = IF e.prev # 0 /\ x = p THEN dst - p ELSE A[x].next
             /\ B[x].prev = IF e.next # 0 /\ x = n THEN n - dst ELSE A[x].prev
             /\ (e.prev # 0 => x # p) /\ (e.next # 0 => x # n) => B[x] = A[x]
  <2>1. PICK f \in Entry : f = A[x]
    BY ArrayEntry
  <2>2. dst - p \in Int /\ n - dst \in Int
    OBVIOUS
  <2>3. PICK g \in Entry :
          /\ g = [f EXCEPT !.next = dst - p] /\ g.key = f.key /\ g.val = f.val
          /\ g.next = dst - p /\ g.prev = f.prev
    BY ZenonT(40), <2>2, Relinked
  <2>4. PICK h \in Entry :
          /\ h = [f EXCEPT !.prev = n - dst] /\ h.key = f.key /\ h.val = f.val
          /\ h.prev = n - dst /\ h.next = f.next
    BY ZenonT(40), <2>2, Relinked
  <2>5. B[x] = IF e.prev # 0 /\ x = p THEN g ELSE IF e.next # 0 /\ x = n THEN h ELSE f
    BY <1>4, <1>5, <2>1, <2>3, <2>4, Zenon
  <2>6. /\ B[x] \in Entry /\ B[x].key = f.key /\ B[x].val = f.val
        /\ B[x].next = IF e.prev # 0 /\ x = p THEN dst - p ELSE f.next
        /\ B[x].prev = IF e.next # 0 /\ x = n THEN n - dst ELSE f.prev
        /\ (e.prev # 0 => x # p) /\ (e.next # 0 => x # n) => B[x] = f
    BY <2>3, <2>4, <2>5
  <2>7. QED
    BY <2>1, <2>6, Zenon
<1>6. /\ B[dst] \in Entry /\ B[dst].key = e.key /\ B[dst].val = e.val
      /\ B[dst].prev = IF e.prev = 0 THEN 0 ELSE dst - p
      /\ B[dst].next = IF e.next = 0 THEN 0 ELSE n - dst
  <2>1. PICK q \in Int : q = IF e.prev = 0 THEN 0 ELSE dst - p
    <3>1. CASE e.prev = 0
      BY <3>1
    <3>2. CASE e.prev # 0
      BY <3>2
    <3>3. QED
      BY <3>1, <3>2
  <2>2. PICK m \in Int : m = IF e.next = 0 THEN 0 ELSE n - dst
    <3>1. CASE e.next = 0
      BY <3>1
    <3>2. CASE e.next # 0
      BY <3>2
    <3>3. QED
      BY <3>1, <3>2
  <2>3. B[dst] = [key |-> e.key, val |-> e.val, prev |-> q, next |-> m]
    BY <1>3, <2>1, <2>2, Zenon
  <2>4. /\ B[dst] \in Entry /\ B[dst].key = e.key /\ B[dst].val = e.val
        /\ B[dst].prev = q /\ B[dst].next = m
    BY <2>3, FieldTypes, NewEntry
  <2>5. QED
    BY <2>1, <2>2, <2>4, Zenon
<1>7. B \in Arrays(c)
  <2>1. \A x \in 0..(c - 1) : B[x] \in Entry
    BY <1>3, <1>5, <1>6, EmptyIs, Zenon
  <2>2. QED
    BY <1>3, <2>1, SlotBySlot
<1>8. QED
  BY <1>1, <1>3, <1>5, <1>6, <1>7, Zenon

(* Key k and value v in the free slot new, behind the entry e at p; n is   *)
(* the slot after e.                                                       *)
Inserted(A, p, new, k, v, e, n) ==
  [x \in DOMAIN A |->
     IF x = new
     THEN [key |-> k, val |-> v, prev |-> new - p, next |-> IF e.next = 0 THEN 0 ELSE n - new]
     ELSE IF x = p THEN [A[x] EXCEPT !.next = new - p]
     ELSE IF e.next # 0 /\ x = n THEN [A[x] EXCEPT !.prev = n - new]
     ELSE A[x]]

IsInserted(c, A, p, new, k, v, e, n, B) ==
  /\ B \in Arrays(c)
  /\ B[new].key = k /\ B[new].val = v /\ B[new].prev = new - p
  /\ B[new].next = IF e.next = 0 THEN 0 ELSE n - new
  /\ \A x \in 0..(c - 1) : x # new =>
       /\ B[x].key = A[x].key /\ B[x].val = A[x].val
       /\ B[x].next = IF x = p THEN new - p ELSE A[x].next
       /\ B[x].prev = IF e.next # 0 /\ x = n THEN n - new ELSE A[x].prev
       /\ x # p /\ (e.next = 0 \/ x # n) => B[x] = A[x]

(* The entries of the array once a pair is linked behind another (addety). *)
LEMMA InsertedIs ==
  ASSUME NEW c \in Nat, NEW A \in Arrays(c), NEW p \in 0..(c - 1), NEW new \in 0..(c - 1),
         new # p, NEW k \in Key, NEW v \in Val \cup {NoVal}, NEW e \in Entry, NEW n \in Int,
         e.next = 0 \/ n # p, NEW B, B = Inserted(A, p, new, k, v, e, n)
  PROVE  IsInserted(c, A, p, new, k, v, e, n, B)
<1>1. B = Inserted(A, p, new, k, v, e, n)
  OBVIOUS
<1>2. DOMAIN A = 0..(c - 1)
  BY DEF Arrays
<1>3. /\ B = [x \in 0..(c - 1) |-> B[x]]
      /\ B[new] = [key |-> k, val |-> v, prev |-> new - p,
                   next |-> IF e.next = 0 THEN 0 ELSE n - new]
  BY <1>1, <1>2 DEF Inserted
<1>4. ASSUME NEW x \in 0..(c - 1), x # new
      PROVE  B[x] = IF x = p THEN [A[x] EXCEPT !.next = new - p]
                    ELSE IF e.next # 0 /\ x = n THEN [A[x] EXCEPT !.prev = n - new]
                    ELSE A[x]
  BY <1>1, <1>2, <1>4 DEF Inserted
<1>5. ASSUME NEW x \in 0..(c - 1), x # new
      PROVE  /\ B[x] \in Entry /\ B[x].key = A[x].key /\ B[x].val = A[x].val
             /\ B[x].next = IF x = p THEN new - p ELSE A[x].next
             /\ B[x].prev = IF e.next # 0 /\ x = n THEN n - new ELSE A[x].prev
             /\ x # p /\ (e.next = 0 \/ x # n) => B[x] = A[x]
  <2>1. PICK f \in Entry : f = A[x]
    BY ArrayEntry
  <2>2. new - p \in Int /\ n - new \in Int
    OBVIOUS
  <2>3. PICK g \in Entry :
          /\ g = [f EXCEPT !.next = new - p] /\ g.key = f.key /\ g.val = f.val
          /\ g.next = new - p /\ g.prev = f.prev
    BY ZenonT(40), <2>2, Relinked
  <2>4. PICK h \in Entry :
          /\ h = [f EXCEPT !.prev = n - new] /\ h.key = f.key /\ h.val = f.val
          /\ h.prev = n - new /\ h.next = f.next
    BY ZenonT(40), <2>2, Relinked
  <2>5. B[x] = IF x = p THEN g ELSE IF e.next # 0 /\ x = n THEN h ELSE f
    BY <1>4, <1>5, <2>1, <2>3, <2>4, Zenon
  <2>6. /\ B[x] \in Entry /\ B[x].key = f.key /\ B[x].val = f.val
        /\ B[x].next = IF x = p THEN new - p ELSE f.next
        /\ B[x].prev = IF e.next # 0 /\ x = n THEN n - new ELSE f.prev
        /\ x # p /\ (e.next = 0 \/ x # n) => B[x] = f
    BY <2>3, <2>4, <2>5
  <2>7. QED
    BY <2>1, <2>6, Zenon
<1>6. /\ B[new] \in Entry /\ B[new].key = k /\ B[new].val = v /\ B[new].prev = new - p
      /\ B[new].next = IF e.next = 0 THEN 0 ELSE n - new
  <2>1. PICK q \in Int : q = new - p
    OBVIOUS
  <2>2. PICK m \in Int : m = IF e.next = 0 THEN 0 ELSE n - new
    <3>1. CASE e.next = 0
      BY <3>1
    <3>2. CASE e.next # 0
      BY <3>2
    <3>3. QED
      BY <3>1, <3>2
  <2>3. B[new] = [key |-> k, val |-> v, prev |-> q, next |-> m]
    BY <1>3, <2>1, <2>2, Zenon
  <2>4. /\ B[new] \in Entry /\ B[new].key = k /\ B[new].val = v
        /\ B[new].prev = q /\ B[new].next = m
    BY <2>3, NewEntry
  <2>5. QED
    BY <2>1, <2>2, <2>4, Zenon
<1>7. B \in Arrays(c)
  <2>1. \A x \in 0..(c - 1) : B[x] \in Entry
    BY <1>5, <1>6, Zenon
  <2>2. QED
    BY <1>3, <2>1, SlotBySlot
<1>8. QED
  BY <1>1, <1>5, <1>6, <1>7, Zenon DEF IsInserted

(* The entry e at i, the last of its chain, is removed; p is the slot      *)
(* before it.                                                              *)
Dropped(A, i, e, p) ==
  [x \in DOMAIN A |->
     IF x = i THEN Empty
     ELSE IF e.prev # 0 /\ x = p THEN [A[x] EXCEPT !.next = 0] ELSE A[x]]

IsDropped(c, A, i, e, p, B) ==
  /\ B \in Arrays(c) /\ B[i] = Empty
  /\ \A x \in 0..(c - 1) : x # i =>
       /\ B[x].key = A[x].key /\ B[x].val = A[x].val /\ B[x].prev = A[x].prev
       /\ B[x].next = IF e.prev # 0 /\ x = p THEN 0 ELSE A[x].next
       /\ e.prev = 0 \/ x # p => B[x] = A[x]

(* The entries of the array once the end of a chain is dropped (remety).   *)
LEMMA DroppedIs ==
  ASSUME NEW c \in Nat, NEW A \in Arrays(c), NEW i \in 0..(c - 1), NEW e \in Entry, NEW p \in Int,
         NEW B, B = Dropped(A, i, e, p)
  PROVE  IsDropped(c, A, i, e, p, B)
<1>1. B = Dropped(A, i, e, p)
  OBVIOUS
<1>2. DOMAIN A = 0..(c - 1)
  BY DEF Arrays
<1>3. B = [x \in 0..(c - 1) |-> B[x]] /\ B[i] = Empty
  BY <1>1, <1>2 DEF Dropped
<1>4. ASSUME NEW x \in 0..(c - 1), x # i
      PROVE  B[x] = IF e.prev # 0 /\ x = p THEN [A[x] EXCEPT !.next = 0] ELSE A[x]
  BY <1>1, <1>2, <1>4 DEF Dropped
<1>5. ASSUME NEW x \in 0..(c - 1), x # i
      PROVE  /\ B[x] \in Entry /\ B[x].key = A[x].key /\ B[x].val = A[x].val /\ B[x].prev = A[x].prev
             /\ B[x].next = IF e.prev # 0 /\ x = p THEN 0 ELSE A[x].next
             /\ e.prev = 0 \/ x # p => B[x] = A[x]
  <2>1. PICK f \in Entry : f = A[x]
    BY ArrayEntry
  <2>2. 0 \in Int
    OBVIOUS
  <2>3. PICK g \in Entry :
          /\ g = [f EXCEPT !.next = 0] /\ g.key = f.key /\ g.val = f.val
          /\ g.next = 0 /\ g.prev = f.prev
    BY <2>2, Relinked
  <2>4. B[x] = IF e.prev # 0 /\ x = p THEN g ELSE f
    BY <1>4, <1>5, <2>1, <2>3, Zenon
  <2>5. /\ B[x] \in Entry /\ B[x].key = f.key /\ B[x].val = f.val /\ B[x].prev = f.prev
        /\ B[x].next = IF e.prev # 0 /\ x = p THEN 0 ELSE f.next
        /\ e.prev = 0 \/ x # p => B[x] = f
    BY <2>3, <2>4
  <2>6. QED
    BY <2>1, <2>5, Zenon
<1>6. B \in Arrays(c)
  <2>1. \A x \in 0..(c - 1) : B[x] \in Entry
    BY <1>3, <1>5, EmptyIs, Zenon
  <2>2. QED
    BY <1>3, <2>1, SlotBySlot
<1>7. QED
  BY <1>1, <1>3, <1>5, <1>6, Zenon DEF IsDropped

-----------------------------------------------------------------------------
(* Where the links lead after the operations.                              *)

(* A link that leads from x to y. *)
LEMMA Distance ==
  \A x, y \in Int : /\ x + (y - x) = y /\ x - (x - y) = y
                    /\ x # y => y - x # 0 /\ x - y # 0
                    /\ x = y => x - y = 0
OBVIOUS

(* Where the links lead once a free slot is filled.                        *)
LEMMA FilledLinks ==
  ASSUME NEW c \in Nat, NEW A \in Arrays(c), NEW h \in 0..(c - 1), NEW B,
         \A x \in 0..(c - 1) : B[x].prev = A[x].prev /\ B[x].next = A[x].next
  PROVE  \A x \in 0..(c - 1) : /\ PrevOf(B, x) = PrevOf(A, x) /\ NextOf(B, x) = NextOf(A, x)
                               /\ Plain(A, x) => Plain(B, x)
BY DEF PrevOf, NextOf, Plain

(* A link that is given by the slot it leads to.                           *)
LEMMA PrevTo ==
  ASSUME NEW B, NEW x \in Int, NEW y \in Int, B[x].prev = x - y
  PROVE  PrevOf(B, x) = IF x = y THEN -1 ELSE y
BY Distance DEF PrevOf

(* The links between two different slots lead to them.                     *)
LEMMA NextTo ==
  ASSUME NEW B, NEW x \in Int, NEW y \in Int, B[x].next = y - x
  PROVE  NextOf(B, x) = IF x = y THEN -1 ELSE y
BY Distance DEF NextOf

(* A link of 0 leads nowhere.                                              *)
LEMMA NoLink ==
  ASSUME NEW B, NEW x
  PROVE  (B[x].prev = 0 => PrevOf(B, x) = -1) /\ (B[x].next = 0 => NextOf(B, x) = -1)
BY DEF PrevOf, NextOf

(* Where links lead depends on the links only.                             *)
LEMMA LinkSame ==
  ASSUME NEW A, NEW B, NEW x
  PROVE  /\ B[x].prev = A[x].prev => PrevOf(B, x) = PrevOf(A, x)
         /\ B[x].next = A[x].next => NextOf(B, x) = NextOf(A, x)
BY DEF PrevOf, NextOf

(* An entry whose links each are 0 or do not lead to -1 is plain.          *)
LEMMA PlainIf ==
  ASSUME NEW B, NEW x, B[x].prev = 0 \/ PrevOf(B, x) # -1, B[x].next = 0 \/ NextOf(B, x) # -1
  PROVE  Plain(B, x)
BY DEF Plain

(* A link of a plain entry leads nowhere just when it is 0.                *)
LEMMA PlainIs ==
  ASSUME NEW A, NEW x, Plain(A, x)
  PROVE  /\ PrevOf(A, x) = IF A[x].prev = 0 THEN -1 ELSE x - A[x].prev
         /\ A[x].prev = 0 <=> PrevOf(A, x) = -1
         /\ NextOf(A, x) = IF A[x].next = 0 THEN -1 ELSE x + A[x].next
         /\ A[x].next = 0 <=> NextOf(A, x) = -1
BY DEF Plain, PrevOf, NextOf

(* The links of the empty entry.                                           *)
LEMMA EmptyLinks ==
  ASSUME NEW A, NEW x, A[x] = Empty
  PROVE  A[x].key = NoKey /\ PrevOf(A, x) = -1 /\ NextOf(A, x) = -1 /\ Plain(A, x)
BY EmptyIs DEF PrevOf, NextOf, Plain

(* movety: the entry at src is now at dst, and its neighbours know.        *)
MovedTo(c, A, dst, src, B) ==
  /\ B \in Arrays(c) /\ B[src] = Empty
  /\ B[dst].key = A[src].key /\ B[dst].val = A[src].val
  /\ PrevOf(B, dst) = IF PrevOf(A, src) = dst THEN -1 ELSE PrevOf(A, src)
  /\ NextOf(B, dst) = NextOf(A, src)
  /\ \A x \in 0..(c - 1) : x # src /\ x # dst =>
       /\ B[x].key = A[x].key /\ B[x].val = A[x].val
       /\ NextOf(B, x) = IF x = PrevOf(A, src) THEN dst ELSE NextOf(A, x)
       /\ PrevOf(B, x) = IF x = NextOf(A, src) THEN dst ELSE PrevOf(A, x)
       /\ x # PrevOf(A, src) /\ x # NextOf(A, src) => B[x] = A[x]
  /\ \A x \in 0..(c - 1) : Plain(B, x)

(* Where the links lead once an entry is moved: as before, with the new    *)
(* slot in place of the old one.                                           *)
LEMMA MovedLinks ==
  ASSUME NEW c \in Nat, NEW A \in Arrays(c), NEW dst \in 0..(c - 1), NEW src \in 0..(c - 1),
         dst # src, \A x \in 0..(c - 1) : Plain(A, x),
         NEW p, p = PrevOf(A, src), NEW n, n = NextOf(A, src), n # dst, p = -1 \/ p # n,
         NEW B, B = Moved(A, dst, src, A[src], src - A[src].prev, src + A[src].next)
  PROVE  MovedTo(c, A, dst, src, B)
<1>0. /\ dst \in Int /\ src \in Int /\ dst # -1 /\ p \in Int /\ n \in Int
      /\ \A x \in 0..(c - 1) : x \in Int /\ x # -1
  BY LinkTypes
<1>1. PICK e \in Entry : e = A[src]
  BY ArrayEntry
<1>2. PICK u \in Int : u = src - e.prev
  BY <1>1, FieldTypes
<1>3. PICK w \in Int : w = src + e.next
  BY <1>1, FieldTypes
<1>4. /\ p = IF e.prev = 0 THEN -1 ELSE u
      /\ n = IF e.next = 0 THEN -1 ELSE w
      /\ e.prev = 0 <=> p = -1
      /\ e.next = 0 <=> n = -1
  BY <1>1, <1>2, <1>3, PlainIs
<1>5. B = Moved(A, dst, src, e, u, w)
  BY <1>1, <1>2, <1>3
<1>6. e.prev = 0 \/ e.next = 0 \/ u # w
  BY <1>4
<1>7. /\ B \in Arrays(c) /\ B[src] = Empty
      /\ B[dst].key = e.key /\ B[dst].val = e.val
      /\ B[dst].prev = IF e.prev = 0 THEN 0 ELSE dst - u
      /\ B[dst].next = IF e.next = 0 THEN 0 ELSE w - dst
      /\ \A x \in 0..(c - 1) : x # src /\ x # dst =>
           /\ B[x].key = A[x].key /\ B[x].val = A[x].val
           /\ B[x].next = IF e.prev # 0 /\ x = u THEN dst - u ELSE A[x].next
           /\ B[x].prev = IF e.next # 0 /\ x = w THEN w - dst ELSE A[x].prev
           /\ (e.prev # 0 => x # u) /\ (e.next # 0 => x # w) => B[x] = A[x]
  BY <1>5, <1>6, MovedIs
<1>8. PrevOf(B, dst) = IF p = dst THEN -1 ELSE p
  <2>1. CASE p = -1
    <3>1. B[dst].prev = 0
      BY <1>4, <1>7, <2>1, Zenon
    <3>2. PrevOf(B, dst) = -1
      BY <3>1, NoLink, Zenon
    <3>3. QED
      BY <2>1, <3>2
  <2>2. CASE p # -1
    <3>1. p = u /\ e.prev # 0
      BY <1>4, <2>2
    <3>2. B[dst].prev = dst - p
      BY <1>7, <3>1, Zenon
    <3>3. QED
      BY <1>0, <3>2, PrevTo
  <2>3. QED
    BY <2>1, <2>2, Zenon
<1>9. NextOf(B, dst) = n
  <2>1. CASE n = -1
    <3>1. B[dst].next = 0
      BY <1>4, <1>7, <2>1, Zenon
    <3>2. NextOf(B, dst) = -1
      BY <3>1, NoLink, Zenon
    <3>3. QED
      BY <2>1, <3>2
  <2>2. CASE n # -1
    <3>1. n = w /\ e.next # 0
      BY <1>4, <2>2
    <3>2. B[dst].next = n - dst
      BY <1>7, <3>1, Zenon
    <3>3. NextOf(B, dst) = IF dst = n THEN -1 ELSE n
      BY <1>0, <3>2, NextTo
    <3>4. QED
      BY <3>3
  <2>3. QED
    BY <2>1, <2>2, Zenon
<1>10. ASSUME NEW x \in 0..(c - 1), x # src, x # dst
       PROVE  NextOf(B, x) = IF x = p THEN dst ELSE NextOf(A, x)
  <2>1. CASE x = p
    <3>1. x # -1 /\ x \in Int
      BY <1>0
    <3>2. e.prev # 0 /\ x = u
      BY <1>4, <2>1, <3>1
    <3>3. B[x].next = dst - x
      BY <1>7, <1>10, <3>2, Zenon
    <3>4. NextOf(B, x) = IF x = dst THEN -1 ELSE dst
      BY <1>0, <3>1, <3>3, NextTo
    <3>5. QED
      BY <1>10, <2>1, <3>4
  <2>2. CASE x # p
    <3>1. ~(e.prev # 0 /\ x = u)
      BY <1>4, <2>2
    <3>2. B[x].next = A[x].next
      BY <1>7, <1>10, <3>1, Zenon
    <3>3. QED
      BY <2>2, <3>2, LinkSame, Zenon
  <2>3. QED
    BY <2>1, <2>2, Zenon
<1>11. ASSUME NEW x \in 0..(c - 1), x # src, x # dst
       PROVE  PrevOf(B, x) = IF x = n THEN dst ELSE PrevOf(A, x)
  <2>1. CASE x = n
    <3>1. x # -1 /\ x \in Int
      BY <1>0
    <3>2. e.next # 0 /\ x = w
      BY <1>4, <2>1, <3>1
    <3>3. B[x].prev = x - dst
      BY <1>7, <1>11, <3>2, Zenon
    <3>4. PrevOf(B, x) = IF x = dst THEN -1 ELSE dst
      BY <1>0, <3>1, <3>3, PrevTo
    <3>5. QED
      BY <1>11, <2>1, <3>4
  <2>2. CASE x # n
    <3>1. ~(e.next # 0 /\ x = w)
      BY <1>4, <2>2
    <3>2. B[x].prev = A[x].prev
      BY <1>7, <1>11, <3>1, Zenon
    <3>3. QED
      BY <2>2, <3>2, LinkSame, Zenon
  <2>3. QED
    BY <2>1, <2>2, Zenon
<1>12. ASSUME NEW x \in 0..(c - 1), x # src, x # dst, x # p, x # n
       PROVE  B[x] = A[x]
  BY <1>4, <1>7, <1>12
<1>13. ASSUME NEW x \in 0..(c - 1) PROVE Plain(B, x)
  <2>1. CASE x = src
    BY <1>7, <2>1, EmptyLinks
  <2>2. CASE x = dst
    <3>1. B[dst].prev = 0 \/ PrevOf(B, dst) # -1
      <4>1. CASE p = -1
        BY <1>4, <1>7, <4>1
      <4>2. CASE p = dst
        <5>1. dst - u = 0
          BY <1>0, <1>4, <4>2
        <5>2. QED
          BY <1>7, <5>1
      <4>3. CASE p # -1 /\ p # dst
        BY <1>8, <4>3
      <4>4. QED
        BY <4>1, <4>2, <4>3
    <3>2. B[dst].next = 0 \/ NextOf(B, dst) # -1
      BY <1>4, <1>7, <1>9
    <3>3. QED
      BY <2>2, <3>1, <3>2, PlainIf
  <2>3. CASE x # src /\ x # dst
    <3>1. B[x].prev = 0 \/ PrevOf(B, x) # -1
      <4>1. CASE x = n
        BY <1>0, <1>11, <2>3, <4>1
      <4>2. CASE x # n
        <5>1. B[x].prev = A[x].prev /\ PrevOf(B, x) = PrevOf(A, x)
          BY <1>4, <1>7, <1>11, <2>3, <4>2
        <5>2. QED
          BY <5>1, PlainIs
      <4>3. QED
        BY <4>1, <4>2
    <3>2. B[x].next = 0 \/ NextOf(B, x) # -1
      <4>1. CASE x = p
        BY <1>0, <1>10, <2>3, <4>1
      <4>2. CASE x # p
        <5>1. B[x].next = A[x].next /\ NextOf(B, x) = NextOf(A, x)
          BY <1>4, <1>7, <1>10, <2>3, <4>2
        <5>2. QED
          BY <5>1, PlainIs
      <4>3. QED
        BY <4>1, <4>2
    <3>3. QED
      BY <3>1, <3>2, PlainIf
  <2>4. QED
    BY <2>1, <2>2, <2>3
<1>14. QED
  BY <1>1, <1>7, <1>8, <1>9, <1>10, <1>11, <1>12, <1>13, Zenon DEF MovedTo

(* addety: the new entry comes behind the one at p.                        *)
AddedBehind(c, A, p, new, k, v, B) ==
  /\ B \in Arrays(c)
  /\ B[new].key = k /\ B[new].val = v /\ PrevOf(B, new) = p /\ NextOf(B, new) = NextOf(A, p)
  /\ \A x \in 0..(c - 1) : x # new =>
       /\ B[x].key = A[x].key /\ B[x].val = A[x].val
       /\ NextOf(B, x) = IF x = p THEN new ELSE NextOf(A, x)
       /\ PrevOf(B, x) = IF x = NextOf(A, p) THEN new ELSE PrevOf(A, x)
       /\ x # p /\ x # NextOf(A, p) => B[x] = A[x]
  /\ \A x \in 0..(c - 1) : Plain(B, x)

(* Where the links lead once a pair is linked behind another.              *)
LEMMA InsertedLinks ==
  ASSUME NEW c \in Nat, NEW A \in Arrays(c), NEW p \in 0..(c - 1), NEW new \in 0..(c - 1),
         new # p, \A x \in 0..(c - 1) : Plain(A, x),
         NEW k \in Key, NEW v \in Val \cup {NoVal},
         NEW n, n = NextOf(A, p), n # p, n # new,
         NEW B, B = Inserted(A, p, new, k, v, A[p], p + A[p].next)
  PROVE  AddedBehind(c, A, p, new, k, v, B)
<1>0. /\ new \in Int /\ new # -1 /\ p \in Int /\ p # -1 /\ n \in Int
      /\ \A x \in 0..(c - 1) : x \in Int /\ x # -1
  BY LinkTypes
<1>1. PICK e \in Entry : e = A[p]
  BY ArrayEntry
<1>3. PICK w \in Int : w = p + e.next
  BY <1>1, FieldTypes
<1>4. /\ n = IF e.next = 0 THEN -1 ELSE w
      /\ e.next = 0 <=> n = -1
  BY <1>1, <1>3, PlainIs
<1>5. B = Inserted(A, p, new, k, v, e, w)
  BY <1>1, <1>3
<1>6. e.next = 0 \/ w # p
  BY <1>4
<1>7. /\ B \in Arrays(c)
      /\ B[new].key = k /\ B[new].val = v
      /\ B[new].prev = new - p
      /\ B[new].next = IF e.next = 0 THEN 0 ELSE w - new
      /\ \A x \in 0..(c - 1) : x # new =>
           /\ B[x].key = A[x].key /\ B[x].val = A[x].val
           /\ B[x].next = IF x = p THEN new - p ELSE A[x].next
           /\ B[x].prev = IF e.next # 0 /\ x = w THEN w - new ELSE A[x].prev
           /\ x # p /\ (e.next = 0 \/ x # w) => B[x] = A[x]
  <2>1. IsInserted(c, A, p, new, k, v, e, w, B)
    BY <1>5, <1>6, InsertedIs, Zenon
  <2>2. QED
    BY <2>1, Zenon DEF IsInserted
<1>8. PrevOf(B, new) = p
  <2>1. PrevOf(B, new) = IF new = p THEN -1 ELSE p
    BY <1>0, <1>7, PrevTo
  <2>2. QED
    BY <2>1
<1>9. NextOf(B, new) = n
  <2>1. CASE n = -1
    <3>1. B[new].next = 0
      BY <1>4, <1>7, <2>1, Zenon
    <3>2. NextOf(B, new) = -1
      BY <3>1, NoLink, Zenon
    <3>3. QED
      BY <2>1, <3>2
  <2>2. CASE n # -1
    <3>1. n = w /\ e.next # 0
      BY <1>4, <2>2
    <3>2. B[new].next = n - new
      BY <1>7, <3>1, Zenon
    <3>3. NextOf(B, new) = IF new = n THEN -1 ELSE n
      BY <1>0, <3>2, NextTo
    <3>4. QED
      BY <3>3
  <2>3. QED
    BY <2>1, <2>2, Zenon
<1>10. ASSUME NEW x \in 0..(c - 1), x # new
       PROVE  NextOf(B, x) = IF x = p THEN new ELSE NextOf(A, x)
  <2>1. CASE x = p
    <3>1. x # -1 /\ x \in Int
      BY <1>0
    <3>3. B[x].next = new - x
      BY <1>7, <1>10, <2>1, Zenon
    <3>4. NextOf(B, x) = IF x = new THEN -1 ELSE new
      BY <1>0, <3>1, <3>3, NextTo
    <3>5. QED
      BY <1>10, <2>1, <3>4
  <2>2. CASE x # p
    <3>2. B[x].next = A[x].next
      BY <1>7, <1>10, <2>2, Zenon
    <3>3. QED
      BY <2>2, <3>2, LinkSame, Zenon
  <2>3. QED
    BY <2>1, <2>2, Zenon
<1>11. ASSUME NEW x \in 0..(c - 1), x # new
       PROVE  PrevOf(B, x) = IF x = n THEN new ELSE PrevOf(A, x)
  <2>1. CASE x = n
    <3>1. x # -1 /\ x \in Int
      BY <1>0
    <3>2. e.next # 0 /\ x = w
      BY <1>4, <2>1, <3>1
    <3>3. B[x].prev = x - new
      BY <1>7, <1>11, <3>2, Zenon
    <3>4. PrevOf(B, x) = IF x = new THEN -1 ELSE new
      BY <1>0, <3>1, <3>3, PrevTo
    <3>5. QED
      BY <1>11, <2>1, <3>4
  <2>2. CASE x # n
    <3>1. ~(e.next # 0 /\ x = w)
      BY <1>4, <2>2
    <3>2. B[x].prev = A[x].prev
      BY <1>7, <1>11, <3>1, Zenon
    <3>3. QED
      BY <2>2, <3>2, LinkSame, Zenon
  <2>3. QED
    BY <2>1, <2>2, Zenon
<1>12. ASSUME NEW x \in 0..(c - 1), x # new, x # p, x # n
       PROVE  B[x] = A[x]
  BY <1>4, <1>7, <1>12
<1>13. ASSUME NEW x \in 0..(c - 1) PROVE Plain(B, x)
  <2>2. CASE x = new
    <3>1. PrevOf(B, new) # -1
      BY <1>0, <1>8
    <3>2. B[new].next = 0 \/ NextOf(B, new) # -1
      BY <1>4, <1>7, <1>9
    <3>3. QED
      BY <2>2, <3>1, <3>2, PlainIf
  <2>3. CASE x # new
    <3>1. B[x].prev = 0 \/ PrevOf(B, x) # -1
      <4>1. CASE x = n
        BY <1>0, <1>11, <2>3, <4>1
      <4>2. CASE x # n
        <5>1. B[x].prev = A[x].prev /\ PrevOf(B, x) = PrevOf(A, x)
          BY <1>4, <1>7, <1>11, <2>3, <4>2
        <5>2. QED
          BY <5>1, PlainIs
      <4>3. QED
        BY <4>1, <4>2
    <3>2. B[x].next = 0 \/ NextOf(B, x) # -1
      <4>1. CASE x = p
        BY <1>0, <1>10, <2>3, <4>1
      <4>2. CASE x # p
        <5>1. B[x].next = A[x].next /\ NextOf(B, x) = NextOf(A, x)
          BY <1>7, <1>10, <2>3, <4>2
        <5>2. QED
          BY <5>1, PlainIs
      <4>3. QED
        BY <4>1, <4>2
    <3>3. QED
      BY <3>1, <3>2, PlainIf
  <2>4. QED
    BY <2>2, <2>3
<1>14. QED
  BY <1>1, <1>7, <1>8, <1>9, <1>10, <1>11, <1>12, <1>13, Zenon DEF AddedBehind

(* The entry at i, the last of its chain, is removed.                      *)
TakenOut(c, A, i, B) ==
  /\ B \in Arrays(c) /\ B[i] = Empty
  /\ \A x \in 0..(c - 1) : x # i =>
       /\ B[x].key = A[x].key /\ B[x].val = A[x].val
       /\ NextOf(B, x) = IF x = PrevOf(A, i) THEN -1 ELSE NextOf(A, x)
       /\ PrevOf(B, x) = PrevOf(A, x)
       /\ x # PrevOf(A, i) => B[x] = A[x]
  /\ \A x \in 0..(c - 1) : Plain(B, x)

(* Where the links lead once the end of a chain is dropped.                *)
LEMMA DroppedLinks ==
  ASSUME NEW c \in Nat, NEW A \in Arrays(c), NEW i \in 0..(c - 1),
         \A x \in 0..(c - 1) : Plain(A, x),
         NEW p, p = PrevOf(A, i), p # i,
         NEW B, B = Dropped(A, i, A[i], i - A[i].prev)
  PROVE  TakenOut(c, A, i, B)
<1>0. /\ p \in Int
      /\ \A x \in 0..(c - 1) : x \in Int /\ x # -1
  BY LinkTypes
<1>1. PICK e \in Entry : e = A[i]
  BY ArrayEntry
<1>2. PICK u \in Int : u = i - e.prev
  BY <1>1, FieldTypes
<1>4. /\ p = IF e.prev = 0 THEN -1 ELSE u
      /\ e.prev = 0 <=> p = -1
  BY <1>1, <1>2, PlainIs
<1>5. B = Dropped(A, i, e, u)
  BY <1>1, <1>2
<1>7. /\ B \in Arrays(c) /\ B[i] = Empty
      /\ \A x \in 0..(c - 1) : x # i =>
           /\ B[x].key = A[x].key /\ B[x].val = A[x].val /\ B[x].prev = A[x].prev
           /\ B[x].next = IF e.prev # 0 /\ x = u THEN 0 ELSE A[x].next
           /\ e.prev = 0 \/ x # u => B[x] = A[x]
  <2>1. IsDropped(c, A, i, e, u, B)
    BY <1>5, DroppedIs, Zenon
  <2>2. QED
    BY <2>1, Zenon DEF IsDropped
<1>10. ASSUME NEW x \in 0..(c - 1), x # i
       PROVE  /\ B[x].next = IF x = p THEN 0 ELSE A[x].next
              /\ NextOf(B, x) = IF x = p THEN -1 ELSE NextOf(A, x)
  <2>1. CASE x = p
    <3>2. e.prev # 0 /\ x = u
      BY <1>0, <1>4, <2>1
    <3>3. B[x].next = 0
      BY <1>7, <1>10, <3>2, Zenon
    <3>4. NextOf(B, x) = -1
      BY <3>3, NoLink, Zenon
    <3>5. QED
      BY <2>1, <3>3, <3>4
  <2>2. CASE x # p
    <3>1. ~(e.prev # 0 /\ x = u)
      BY <1>4, <2>2
    <3>2. B[x].next = A[x].next
      BY <1>7, <1>10, <3>1, Zenon
    <3>3. QED
      BY <2>2, <3>2, LinkSame, Zenon
  <2>3. QED
    BY <2>1, <2>2, Zenon
<1>11. ASSUME NEW x \in 0..(c - 1), x # i
       PROVE  B[x].prev = A[x].prev /\ PrevOf(B, x) = PrevOf(A, x)
  BY <1>7, <1>11, LinkSame, Zenon
<1>12. ASSUME NEW x \in 0..(c - 1), x # i, x # p
       PROVE  B[x] = A[x]
  BY <1>4, <1>7, <1>12
<1>13. ASSUME NEW x \in 0..(c - 1) PROVE Plain(B, x)
  <2>1. CASE x = i
    BY <1>7, <2>1, EmptyLinks
  <2>3. CASE x # i
    <3>1. B[x].prev = 0 \/ PrevOf(B, x) # -1
      BY <1>11, <2>3, PlainIs
    <3>2. B[x].next = 0 \/ NextOf(B, x) # -1
      <4>1. CASE x = p
        BY <1>10, <2>3, <4>1
      <4>2. CASE x # p
        BY <1>10, <2>3, <4>2, PlainIs
      <4>3. QED
        BY <4>1, <4>2
    <3>3. QED
      BY <3>1, <3>2, PlainIf
  <2>4. QED
    BY <2>1, <2>3
<1>14. QED
  BY <1>7, <1>10, <1>11, <1>12, <1>13, Zenon DEF TakenOut

-----------------------------------------------------------------------------
(* The operations keep the chains.                                         *)

(* The entries of A form chains. *)
Chained(A, c) == \E r : Linked(A, c, r)

(* What Linked says of one entry.                                          *)
LEMMA LinkedEntry ==
  ASSUME NEW c, NEW A, NEW r, Linked(A, c, r), NEW i \in 0..(c - 1)
  PROVE  /\ r[i] \in Nat /\ Plain(A, i)
         /\ A[i].key = NoKey => A[i] = Empty
         /\ A[i].key # NoKey => Back(A, c, r, i) /\ Forth(A, c, i)
BY DEF Linked

(* When links are right.                                                   *)
LEMMA LinkedIf ==
  ASSUME NEW c, NEW A \in Arrays(c), NEW r \in [0..(c - 1) -> Nat],
         ASSUME NEW i \in 0..(c - 1)
         PROVE  /\ Plain(A, i)
                /\ A[i].key = NoKey => A[i] = Empty
                /\ A[i].key # NoKey => Back(A, c, r, i) /\ Forth(A, c, i)
  PROVE  Linked(A, c, r)
BY DEF Linked

(* The entries before and after one. *)
Behind(A, c, r, i) ==
  LET p == PrevOf(A, i)
  IN  IF p = -1 THEN i = Home(A, c, i) /\ r[i] = 0
      ELSE /\ p \in 0..(c - 1) /\ p # i /\ A[p].key # NoKey /\ NextOf(A, p) = i
           /\ Home(A, c, p) = Home(A, c, i) /\ r[i] = r[p] + 1 /\ r[i] # 0
InFront(A, c, r, i) ==
  LET n == NextOf(A, i)
  IN  n # -1 => /\ n \in 0..(c - 1) /\ n # i /\ A[n].key # NoKey /\ PrevOf(A, n) = i
                /\ Home(A, c, n) = Home(A, c, i) /\ r[n] = r[i] + 1

(* The entry behind another is in its chain, one rank higher.              *)
LEMMA Neighbours ==
  ASSUME NEW c, NEW A, NEW r, Linked(A, c, r), NEW i \in 0..(c - 1), A[i].key # NoKey
  PROVE  /\ Behind(A, c, r, i) /\ InFront(A, c, r, i)
         /\ PrevOf(A, i) = -1 \/ PrevOf(A, i) # NextOf(A, i)
<1>1. r[i] \in Nat /\ Back(A, c, r, i) /\ Forth(A, c, i) /\ i # -1
  BY LinkedEntry
<1>2. Behind(A, c, r, i)
  <2>1. PICK p : p = PrevOf(A, i)
    OBVIOUS
  <2>2. CASE p # -1
    <3>1. /\ p \in 0..(c - 1) /\ A[p].key # NoKey /\ NextOf(A, p) = i
          /\ Home(A, c, p) = Home(A, c, i) /\ r[i] = r[p] + 1
      BY <1>1, <2>1, <2>2 DEF Back
    <3>2. r[p] \in Nat
      BY <3>1, LinkedEntry
    <3>3. p # i /\ r[i] # 0
      BY <3>1, <3>2
    <3>4. QED
      BY <2>1, <2>2, <3>1, <3>3 DEF Behind
  <2>3. QED
    BY <1>1, <2>1, <2>2 DEF Back, Behind
<1>3. ASSUME NEW n, n = NextOf(A, i), n # -1
      PROVE  /\ n \in 0..(c - 1) /\ n # i /\ A[n].key # NoKey /\ PrevOf(A, n) = i
             /\ Home(A, c, n) = Home(A, c, i) /\ r[n] = r[i] + 1
  <2>1. n \in 0..(c - 1) /\ A[n].key # NoKey /\ PrevOf(A, n) = i
    BY <1>1, <1>3 DEF Forth
  <2>2. Back(A, c, r, n) /\ r[n] \in Nat
    BY <2>1, LinkedEntry
  <2>3. Home(A, c, n) = Home(A, c, i) /\ r[n] = r[i] + 1
    BY <1>1, <2>1, <2>2 DEF Back
  <2>4. QED
    BY <1>1, <2>1, <2>2, <2>3
<1>4. InFront(A, c, r, i)
  BY <1>3 DEF InFront
<1>5. PrevOf(A, i) = -1 \/ PrevOf(A, i) # NextOf(A, i)
  <2>1. PICK p : p = PrevOf(A, i)
    OBVIOUS
  <2>2. SUFFICES ASSUME p # -1, p = NextOf(A, i) PROVE FALSE
    BY <2>1
  <2>3. r[p] = r[i] + 1
    BY <1>3, <2>2
  <2>4. r[i] = r[p] + 1 /\ p \in 0..(c - 1)
    BY <1>2, <2>1, <2>2 DEF Behind
  <2>5. QED
    BY <1>1, <2>3, <2>4
<1>6. QED
  BY <1>2, <1>4, <1>5

(* No link leads to a free slot. *)
LEMMA FreeLinks ==
  ASSUME NEW c, NEW A, NEW r, Linked(A, c, r), NEW i \in 0..(c - 1), A[i].key = NoKey
  PROVE  /\ PrevOf(A, i) = -1 /\ NextOf(A, i) = -1
         /\ \A x \in 0..(c - 1) : A[x].key # NoKey => PrevOf(A, x) # i /\ NextOf(A, x) # i
<1>1. A[i] = Empty
  BY LinkedEntry
<1>2. \A x \in 0..(c - 1) : A[x].key # NoKey => PrevOf(A, x) # i /\ NextOf(A, x) # i
  <2>1. \A x \in 0..(c - 1) : A[x].key # NoKey => Back(A, c, r, x) /\ Forth(A, c, x)
    BY LinkedEntry
  <2>2. i # -1
    OBVIOUS
  <2>3. QED
    BY <2>1, <2>2 DEF Back, Forth
<1>3. QED
  BY <1>1, <1>2, EmptyLinks

(* The ranks q are r, but for the slot i. *)
Reranked(c, r, i, m, q) ==
  /\ q \in [0..(c - 1) -> Nat] /\ q[i] = m
  /\ \A x \in 0..(c - 1) : x # i => q[x] = r[x]

(* Ranks with another value at one slot.                                   *)
LEMMA RankAt ==
  ASSUME NEW c, NEW r \in [0..(c - 1) -> Nat], NEW i \in 0..(c - 1), NEW m \in Nat
  PROVE  \E q : Reranked(c, r, i, m, q)
<1>1. PICK q : q = [x \in 0..(c - 1) |-> IF x = i THEN m ELSE r[x]]
  OBVIOUS
<1>2. Reranked(c, r, i, m, q)
  BY <1>1 DEF Reranked
<1>3. QED
  BY <1>2

(* A key in a free slot that is its own place. *)
LEMMA FilledLinked ==
  ASSUME NEW c \in Nat, NEW A, Chained(A, c), NEW h \in 0..(c - 1), A[h].key = NoKey,
         NEW k \in Key, NEW v \in Val \cup {NoVal}, Hash[k] % c = h
  PROVE  Chained(Filled(A, h, k, v), c)
<1>1. PICK r : Linked(A, c, r)
  BY DEF Chained
<1>2. A \in Arrays(c) /\ r \in [0..(c - 1) -> Nat] /\ k # NoKey
  BY <1>1, TableAssumption DEF Linked
<1>3. PICK q \in [0..(c - 1) -> Nat] : q[h] = 0 /\ \A x \in 0..(c - 1) : x # h => q[x] = r[x]
  <2>1. PICK q : Reranked(c, r, h, 0, q)
    BY <1>2, RankAt
  <2>2. QED
    BY <2>1 DEF Reranked
<1>4. PICK B : B = Filled(A, h, k, v)
  OBVIOUS
<1>5. /\ B \in Arrays(c)
      /\ \A x \in 0..(c - 1) :
           /\ B[x].key = IF x = h THEN k ELSE A[x].key
           /\ B[x].prev = A[x].prev /\ B[x].next = A[x].next
           /\ x # h => B[x] = A[x]
  BY <1>2, <1>4, FilledIs
<1>6. \A x \in 0..(c - 1) : /\ PrevOf(B, x) = PrevOf(A, x) /\ NextOf(B, x) = NextOf(A, x)
                            /\ Plain(A, x) => Plain(B, x)
  BY <1>2, <1>5, FilledLinks
<1>7. Home(B, c, h) = h /\ \A x \in 0..(c - 1) : x # h => Home(B, c, x) = Home(A, c, x)
  BY <1>5 DEF Home
<1>8. /\ PrevOf(A, h) = -1 /\ NextOf(A, h) = -1
      /\ \A x \in 0..(c - 1) : A[x].key # NoKey => PrevOf(A, x) # h /\ NextOf(A, x) # h
  BY <1>1, FreeLinks
<1>9. ASSUME NEW x \in 0..(c - 1)
      PROVE  /\ Plain(B, x)
             /\ B[x].key = NoKey => B[x] = Empty
             /\ B[x].key # NoKey => Back(B, c, q, x) /\ Forth(B, c, x)
  <2>1. Plain(B, x)
    BY <1>1, <1>6, LinkedEntry
  <2>2. CASE x = h
    <3>1. Back(B, c, q, x) /\ Forth(B, c, x)
      BY <1>3, <1>6, <1>7, <1>8, <2>2 DEF Back, Forth
    <3>2. QED
      BY <1>2, <1>5, <2>1, <2>2, <3>1
  <2>3. CASE x # h
    <3>1. B[x] = A[x] /\ Home(B, c, x) = Home(A, c, x) /\ q[x] = r[x]
      BY <1>3, <1>5, <1>7, <2>3
    <3>2. A[x].key = NoKey => A[x] = Empty
      BY <1>1, LinkedEntry
    <3>3. ASSUME A[x].key # NoKey PROVE Back(B, c, q, x)
      <4>1. Back(A, c, r, x)
        BY <1>1, <3>3, LinkedEntry
      <4>2. PICK p : p = PrevOf(A, x)
        OBVIOUS
      <4>3. PrevOf(B, x) = p
        BY <1>6, <4>2
      <4>4. CASE p = -1
        BY <3>1, <4>1, <4>2, <4>3, <4>4 DEF Back
      <4>5. CASE p # -1
        <5>1. /\ p \in 0..(c - 1) /\ A[p].key # NoKey /\ NextOf(A, p) = x
              /\ Home(A, c, p) = Home(A, c, x) /\ r[x] = r[p] + 1
          BY <4>1, <4>2, <4>5 DEF Back
        <5>2. p # h
          BY <1>8, <3>3, <4>2
        <5>3. B[p] = A[p] /\ NextOf(B, p) = x /\ Home(B, c, p) = Home(A, c, p) /\ q[p] = r[p]
          BY <1>3, <1>5, <1>6, <1>7, <5>1, <5>2
        <5>4. QED
          BY <3>1, <4>3, <4>5, <5>1, <5>3 DEF Back
      <4>6. QED
        BY <4>4, <4>5
    <3>4. ASSUME A[x].key # NoKey PROVE Forth(B, c, x)
      <4>1. Forth(A, c, x)
        BY <1>1, <3>4, LinkedEntry
      <4>2. QED
        BY <1>2, <1>5, <1>6, <4>1 DEF Forth
    <3>5. QED
      BY <2>1, <3>1, <3>2, <3>3, <3>4
  <2>4. QED
    BY <2>2, <2>3
<1>10. Linked(B, c, q)
  BY <1>5, <1>9, LinkedIf
<1>11. QED
  BY <1>4, <1>10 DEF Chained

(* An entry that is not the head of its chain moves to a free slot. *)
LEMMA MovedLinked ==
  ASSUME NEW c \in Nat, NEW A, Chained(A, c),
         NEW dst \in 0..(c - 1), A[dst].key = NoKey,
         NEW src \in 0..(c - 1), A[src].key # NoKey, PrevOf(A, src) # -1,
         NEW B, MovedTo(c, A, dst, src, B)
  PROVE  Chained(B, c)
<1>0. PICK r : Linked(A, c, r)
  BY DEF Chained
<1>1. r \in [0..(c - 1) -> Nat] /\ r[src] \in Nat
  BY <1>0 DEF Linked
<1>2. PICK p : p = PrevOf(A, src)
  OBVIOUS
<1>3. PICK n : n = NextOf(A, src)
  OBVIOUS
<1>4. /\ p \in 0..(c - 1) /\ p # src /\ p # -1 /\ p # dst /\ A[p].key # NoKey /\ NextOf(A, p) = src
      /\ Home(A, c, p) = Home(A, c, src) /\ r[src] = r[p] + 1
  <2>1. Behind(A, c, r, src)
    BY <1>0, Neighbours
  <2>2. QED
    BY <1>2, <2>1 DEF Behind
<1>5. n # -1 => /\ n \in 0..(c - 1) /\ n # src /\ n # dst /\ A[n].key # NoKey /\ PrevOf(A, n) = src
                /\ Home(A, c, n) = Home(A, c, src) /\ r[n] = r[src] + 1
  <2>1. InFront(A, c, r, src)
    BY <1>0, Neighbours
  <2>2. QED
    BY <1>3, <2>1 DEF InFront
<1>6. PICK q \in [0..(c - 1) -> Nat] :
        q[dst] = r[src] /\ \A x \in 0..(c - 1) : x # dst => q[x] = r[x]
  <2>1. PICK q : Reranked(c, r, dst, r[src], q)
    BY <1>1, RankAt
  <2>2. QED
    BY <2>1 DEF Reranked
<1>7. /\ B \in Arrays(c) /\ B[src] = Empty /\ B[src].key = NoKey
      /\ B[dst].key = A[src].key
      /\ PrevOf(B, dst) = p /\ NextOf(B, dst) = n
      /\ \A x \in 0..(c - 1) : Plain(B, x)
  BY <1>2, <1>3, <1>4, EmptyIs DEF MovedTo
<1>8. ASSUME NEW x \in 0..(c - 1), x # src, x # dst
      PROVE  /\ B[x].key = A[x].key
             /\ NextOf(B, x) = IF x = p THEN dst ELSE NextOf(A, x)
             /\ PrevOf(B, x) = IF x = n THEN dst ELSE PrevOf(A, x)
             /\ x # p /\ x # n => B[x] = A[x]
  BY <1>2, <1>3, <1>8 DEF MovedTo
<1>9. /\ Home(B, c, dst) = Home(A, c, src)
      /\ \A x \in 0..(c - 1) : x # src /\ x # dst => Home(B, c, x) = Home(A, c, x)
  BY <1>7, <1>8 DEF Home
<1>10. ASSUME NEW x \in 0..(c - 1), B[x].key = NoKey PROVE B[x] = Empty
  <2>1. CASE x # src
    <3>1. x # dst /\ A[x].key = NoKey /\ A[x] = Empty
      BY <1>0, <1>7, <1>8, <1>10, <2>1, LinkedEntry
    <3>2. x # p /\ x # n
      BY <1>4, <1>5, <3>1
    <3>3. QED
      BY <1>8, <2>1, <3>1, <3>2
  <2>2. QED
    BY <1>7, <2>1
<1>11. ASSUME NEW x \in 0..(c - 1), B[x].key # NoKey PROVE Back(B, c, q, x)
  <2>0. x # src
    BY <1>7, <1>11
  <2>1. CASE x = dst
    <3>1. B[p].key # NoKey /\ NextOf(B, p) = dst /\ Home(B, c, p) = Home(B, c, dst)
      BY <1>4, <1>8, <1>9
    <3>2. q[dst] = q[p] + 1
      BY <1>4, <1>6
    <3>3. QED
      BY <1>4, <1>7, <2>1, <3>1, <3>2 DEF Back
  <2>2. CASE x # dst /\ x = n
    <3>1. n # -1
      BY <2>2
    <3>2. PrevOf(B, n) = dst /\ NextOf(B, dst) = n /\ Home(B, c, dst) = Home(B, c, n)
      BY <1>5, <1>7, <1>8, <1>9, <2>0, <2>2, <3>1
    <3>3. q[n] = q[dst] + 1
      BY <1>5, <1>6, <2>2, <3>1
    <3>4. dst # -1 /\ B[dst].key # NoKey
      BY <1>7
    <3>5. QED
      BY <2>2, <3>2, <3>3, <3>4 DEF Back
  <2>3. CASE x # dst /\ x # n
    <3>1. A[x].key # NoKey /\ PrevOf(B, x) = PrevOf(A, x) /\ Home(B, c, x) = Home(A, c, x) /\ q[x] = r[x]
      BY <1>6, <1>8, <1>9, <1>11, <2>0, <2>3
    <3>2. Back(A, c, r, x)
      BY <1>0, <3>1, LinkedEntry
    <3>3. PICK y : y = PrevOf(A, x)
      OBVIOUS
    <3>4. CASE y = -1
      BY <3>1, <3>2, <3>3, <3>4 DEF Back
    <3>5. CASE y # -1
      <4>1. /\ y \in 0..(c - 1) /\ A[y].key # NoKey /\ NextOf(A, y) = x
            /\ Home(A, c, y) = Home(A, c, x) /\ r[x] = r[y] + 1
        BY <3>2, <3>3, <3>5 DEF Back
      <4>2. y # dst /\ y # src /\ y # p
        BY <1>3, <1>4, <2>0, <2>3, <4>1
      <4>3. B[y].key # NoKey /\ NextOf(B, y) = x /\ Home(B, c, y) = Home(B, c, x) /\ q[x] = q[y] + 1
        BY <1>6, <1>8, <1>9, <3>1, <4>1, <4>2
      <4>4. QED
        BY <3>1, <3>3, <3>5, <4>1, <4>3 DEF Back
    <3>6. QED
      BY <3>4, <3>5
  <2>4. QED
    BY <2>1, <2>2, <2>3
<1>12. ASSUME NEW x \in 0..(c - 1), B[x].key # NoKey PROVE Forth(B, c, x)
  <2>0. x # src
    BY <1>7, <1>12
  <2>1. CASE x = dst
    <3>1. n # -1 => B[n].key # NoKey /\ PrevOf(B, n) = dst
      BY <1>5, <1>8
    <3>2. QED
      BY <1>5, <1>7, <2>1, <3>1 DEF Forth
  <2>2. CASE x # dst /\ x = p
    <3>1. NextOf(B, p) = dst
      BY <1>8, <2>0, <2>2
    <3>2. QED
      BY <1>7, <2>2, <3>1 DEF Forth
  <2>3. CASE x # dst /\ x # p
    <3>1. A[x].key # NoKey /\ NextOf(B, x) = NextOf(A, x)
      BY <1>8, <1>12, <2>0, <2>3
    <3>2. Forth(A, c, x)
      BY <1>0, <3>1, LinkedEntry
    <3>3. ASSUME NEW y, y = NextOf(A, x), y # -1
          PROVE  y \in 0..(c - 1) /\ B[y].key # NoKey /\ PrevOf(B, y) = x
      <4>1. y \in 0..(c - 1) /\ A[y].key # NoKey /\ PrevOf(A, y) = x
        BY <3>2, <3>3 DEF Forth
      <4>2. y # dst /\ y # src /\ y # n
        BY <1>2, <1>5, <2>0, <2>3, <4>1
      <4>3. QED
        BY <1>8, <4>1, <4>2
    <3>4. QED
      BY <3>1, <3>3 DEF Forth
  <2>4. QED
    BY <2>1, <2>2, <2>3
<1>13. Linked(B, c, q)
  BY <1>7, <1>10, <1>11, <1>12, LinkedIf
<1>14. QED
  BY <1>13 DEF Chained

(* The entry behind a head takes its place. *)
LEMMA HeadMovedLinked ==
  ASSUME NEW c \in Nat, NEW A, Chained(A, c),
         NEW dst \in 0..(c - 1), A[dst].key # NoKey, PrevOf(A, dst) = -1,
         NEW src, src = NextOf(A, dst), src # -1,
         NEW B, MovedTo(c, A, dst, src, B)
  PROVE  Chained(B, c)
<1>0. PICK r : Linked(A, c, r)
  BY DEF Chained
<1>1. r \in [0..(c - 1) -> Nat]
  BY <1>0 DEF Linked
<1>2. /\ src \in 0..(c - 1) /\ src # dst /\ A[src].key # NoKey /\ PrevOf(A, src) = dst
      /\ Home(A, c, src) = Home(A, c, dst) /\ r[src] = r[dst] + 1
  <2>1. InFront(A, c, r, dst)
    BY <1>0, Neighbours
  <2>2. QED
    BY <2>1 DEF InFront
<1>3. dst = Home(A, c, dst) /\ r[dst] = 0
  <2>1. Behind(A, c, r, dst)
    BY <1>0, Neighbours
  <2>2. QED
    BY <2>1 DEF Behind
<1>4. PICK n : n = NextOf(A, src)
  OBVIOUS
<1>5. n # -1 => /\ n \in 0..(c - 1) /\ n # src /\ n # dst /\ A[n].key # NoKey /\ PrevOf(A, n) = src
                /\ Home(A, c, n) = Home(A, c, dst) /\ r[n] = r[src] + 1
  <2>1. InFront(A, c, r, src)
    BY <1>0, <1>2, Neighbours
  <2>2. QED
    BY <1>2, <1>4, <2>1 DEF InFront
<1> DEFINE Later(x) == A[x].key # NoKey /\ Home(A, c, x) = dst /\ x # dst
<1>6. ASSUME NEW x \in 0..(c - 1), Later(x) PROVE r[x] \in Nat \ {0}
  <2>1. Behind(A, c, r, x) /\ r[x] \in Nat
    BY <1>0, <1>6, Neighbours, LinkedEntry
  <2>2. QED
    BY <1>6, <2>1 DEF Behind
<1>7. PICK q : q = [x \in 0..(c - 1) |-> IF Later(x) THEN r[x] - 1 ELSE r[x]]
  OBVIOUS
<1>8. \A x \in 0..(c - 1) : q[x] = IF Later(x) THEN r[x] - 1 ELSE r[x]
  BY <1>7
<1>9. q \in [0..(c - 1) -> Nat]
  <2>1. \A x \in 0..(c - 1) : (IF Later(x) THEN r[x] - 1 ELSE r[x]) \in Nat
    <3>1. TAKE x \in 0..(c - 1)
    <3>2. r[x] \in Nat
      BY <1>1
    <3> HIDE DEF Later
    <3>3. QED
      BY <1>6, <3>2
  <2> HIDE DEF Later
  <2>2. QED
    BY <1>7, <2>1
<1>10. /\ B \in Arrays(c) /\ B[src] = Empty /\ B[src].key = NoKey
      /\ B[dst].key = A[src].key
      /\ PrevOf(B, dst) = -1 /\ NextOf(B, dst) = n
      /\ \A x \in 0..(c - 1) : Plain(B, x)
  BY <1>2, <1>4, EmptyIs DEF MovedTo
<1>11. ASSUME NEW x \in 0..(c - 1), x # src, x # dst
       PROVE  /\ B[x].key = A[x].key
              /\ NextOf(B, x) = NextOf(A, x)
              /\ PrevOf(B, x) = IF x = n THEN dst ELSE PrevOf(A, x)
              /\ x # n => B[x] = A[x]
  BY <1>2, <1>4, <1>11 DEF MovedTo
<1>12. /\ Home(B, c, dst) = dst
       /\ \A x \in 0..(c - 1) : x # src /\ x # dst => Home(B, c, x) = Home(A, c, x)
  BY <1>2, <1>3, <1>10, <1>11 DEF Home
<1>13. ASSUME NEW x \in 0..(c - 1), B[x].key = NoKey PROVE B[x] = Empty
  <2>1. CASE x # src
    <3>1. x # dst /\ A[x].key = NoKey /\ A[x] = Empty
      BY <1>0, <1>2, <1>10, <1>11, <1>13, <2>1, LinkedEntry
    <3>2. x # n
      BY <1>5, <3>1
    <3>3. QED
      BY <1>11, <2>1, <3>1, <3>2
  <2>2. QED
    BY <1>10, <2>1
<1> HIDE DEF Later
<1>14. ASSUME NEW x \in 0..(c - 1), B[x].key # NoKey PROVE Back(B, c, q, x)
  <2>0. x # src
    BY <1>10, <1>14
  <2>1. CASE x = dst
    <3>1. q[dst] = 0
      BY <1>3, <1>8 DEF Later
    <3>2. QED
      BY <1>10, <1>12, <2>1, <3>1 DEF Back
  <2>2. CASE x # dst /\ x = n
    <3>1. n # -1
      BY <2>2
    <3>2. PrevOf(B, n) = dst /\ NextOf(B, dst) = n /\ Home(B, c, dst) = Home(B, c, n)
      BY <1>3, <1>5, <1>10, <1>11, <1>12, <2>0, <2>2, <3>1
    <3>3. q[n] = q[dst] + 1
      <4>1. Later(n) /\ ~Later(dst)
        BY <1>3, <1>5, <3>1 DEF Later
      <4>2. q[n] = r[n] - 1 /\ q[dst] = 0
        BY <1>3, <1>5, <1>8, <3>1, <4>1
      <4>3. QED
        BY <1>2, <1>3, <1>5, <3>1, <4>2
    <3>4. dst # -1 /\ B[dst].key # NoKey
      BY <1>2, <1>10
    <3>5. QED
      BY <2>2, <3>2, <3>3, <3>4 DEF Back
  <2>3. CASE x # dst /\ x # n
    <3>1. A[x].key # NoKey /\ PrevOf(B, x) = PrevOf(A, x) /\ Home(B, c, x) = Home(A, c, x)
      BY <1>11, <1>12, <1>14, <2>0, <2>3
    <3>2. Behind(A, c, r, x)
      BY <1>0, <3>1, Neighbours
    <3>3. PICK y : y = PrevOf(A, x)
      OBVIOUS
    <3>4. CASE y = -1
      <4>1. x = Home(A, c, x) /\ r[x] = 0
        BY <3>2, <3>3, <3>4 DEF Behind
      <4>2. ~Later(x)
        BY <2>3, <4>1 DEF Later
      <4>3. q[x] = 0
        BY <1>8, <4>1, <4>2
      <4>4. QED
        BY <3>1, <3>3, <3>4, <4>1, <4>3 DEF Back
    <3>5. CASE y # -1
      <4>1. /\ y \in 0..(c - 1) /\ A[y].key # NoKey /\ NextOf(A, y) = x
            /\ Home(A, c, y) = Home(A, c, x) /\ r[x] = r[y] + 1
        BY <3>2, <3>3, <3>5 DEF Behind
      <4>2. y # dst /\ y # src
        BY <1>4, <2>0, <2>3, <4>1
      <4>3. B[y].key # NoKey /\ NextOf(B, y) = x /\ Home(B, c, y) = Home(B, c, x)
        BY <1>11, <1>12, <3>1, <4>1, <4>2
      <4>4. Later(x) <=> Later(y)
        BY <2>3, <3>1, <4>1, <4>2 DEF Later
      <4>5. q[x] = q[y] + 1
        <5>1. /\ q[x] = IF Later(x) THEN r[x] - 1 ELSE r[x]
              /\ q[y] = IF Later(x) THEN r[y] - 1 ELSE r[y]
          BY <1>8, <4>1, <4>4
        <5>2. r[y] \in Nat
          BY <1>1, <4>1
        <5>3. QED
          BY <4>1, <5>1, <5>2
      <4>6. QED
        BY <3>1, <3>3, <3>5, <4>1, <4>3, <4>5 DEF Back
    <3>6. QED
      BY <3>4, <3>5
  <2>4. QED
    BY <2>1, <2>2, <2>3
<1>15. ASSUME NEW x \in 0..(c - 1), B[x].key # NoKey PROVE Forth(B, c, x)
  <2>0. x # src
    BY <1>10, <1>15
  <2>1. CASE x = dst
    <3>1. n # -1 => B[n].key # NoKey /\ PrevOf(B, n) = dst
      BY <1>5, <1>11
    <3>2. QED
      BY <1>5, <1>10, <2>1, <3>1 DEF Forth
  <2>3. CASE x # dst
    <3>1. A[x].key # NoKey /\ NextOf(B, x) = NextOf(A, x)
      BY <1>11, <1>15, <2>0, <2>3
    <3>2. InFront(A, c, r, x)
      BY <1>0, <3>1, Neighbours
    <3>3. ASSUME NEW y, y = NextOf(A, x), y # -1
          PROVE  y \in 0..(c - 1) /\ B[y].key # NoKey /\ PrevOf(B, y) = x
      <4>1. y \in 0..(c - 1) /\ A[y].key # NoKey /\ PrevOf(A, y) = x
        BY <3>2, <3>3 DEF InFront
      <4>2. x # -1
        OBVIOUS
      <4>3. y # dst /\ y # src /\ y # n
        BY <1>2, <1>5, <2>0, <2>3, <4>1, <4>2
      <4>4. QED
        BY <1>11, <4>1, <4>3
    <3>4. QED
      BY <3>1, <3>3 DEF Forth
  <2>4. QED
    BY <2>1, <2>3
<1>16. Linked(B, c, q)
  BY <1>9, <1>10, <1>13, <1>14, <1>15, LinkedIf
<1>17. QED
  BY <1>16 DEF Chained

(* A new entry behind the head of its chain. *)
LEMMA InsertedLinked ==
  ASSUME NEW c \in Nat, NEW A, Chained(A, c),
         NEW p \in 0..(c - 1), A[p].key # NoKey, PrevOf(A, p) = -1,
         NEW new \in 0..(c - 1), A[new].key = NoKey,
         NEW k \in Key, Hash[k] % c = p, NEW v,
         NEW B, AddedBehind(c, A, p, new, k, v, B)
  PROVE  Chained(B, c)
<1>0. PICK r : Linked(A, c, r)
  BY DEF Chained
<1>1. r \in [0..(c - 1) -> Nat] /\ p # new /\ k # NoKey /\ p # -1 /\ new # -1
  BY <1>0, TableAssumption DEF Linked
<1>2. p = Home(A, c, p) /\ r[p] = 0
  <2>1. Behind(A, c, r, p)
    BY <1>0, Neighbours
  <2>2. QED
    BY <2>1 DEF Behind
<1>3. PICK n : n = NextOf(A, p)
  OBVIOUS
<1>4. n # -1 => /\ n \in 0..(c - 1) /\ n # p /\ n # new /\ A[n].key # NoKey /\ PrevOf(A, n) = p
                /\ Home(A, c, n) = p /\ r[n] = 1
  <2>1. InFront(A, c, r, p)
    BY <1>0, Neighbours
  <2>2. QED
    BY <1>2, <1>3, <2>1 DEF InFront
<1> DEFINE Later(x) == A[x].key # NoKey /\ Home(A, c, x) = p /\ x # p
<1>5. PICK q : q = [x \in 0..(c - 1) |-> IF x = new THEN 1 ELSE IF Later(x) THEN r[x] + 1 ELSE r[x]]
  OBVIOUS
<1>6. /\ q \in [0..(c - 1) -> Nat]
      /\ q[new] = 1
      /\ \A x \in 0..(c - 1) : x # new => q[x] = IF Later(x) THEN r[x] + 1 ELSE r[x]
  <2>1. ASSUME NEW x \in 0..(c - 1) 
        PROVE (IF x = new THEN 1 ELSE IF Later(x) THEN r[x] + 1 ELSE r[x]) \in Nat
    <3>1. r[x] \in Nat
      BY <1>1
    <3> HIDE DEF Later
    <3>2. QED
      BY <3>1
  <2> HIDE DEF Later
  <2>2. q \in [0..(c - 1) -> Nat]
    BY <1>5, <2>1
  <2>3. QED
    BY <1>5, <2>2
<1>7. /\ B \in Arrays(c) /\ B[new].key = k /\ B[new].key # NoKey
      /\ PrevOf(B, new) = p /\ NextOf(B, new) = n
      /\ \A x \in 0..(c - 1) : Plain(B, x)
  BY <1>1, <1>3 DEF AddedBehind
<1>8. ASSUME NEW x \in 0..(c - 1), x # new
      PROVE  /\ B[x].key = A[x].key
             /\ NextOf(B, x) = IF x = p THEN new ELSE NextOf(A, x)
             /\ PrevOf(B, x) = IF x = n THEN new ELSE PrevOf(A, x)
             /\ x # p /\ x # n => B[x] = A[x]
  BY <1>3, <1>8 DEF AddedBehind
<1>9. /\ Home(B, c, new) = p
      /\ \A x \in 0..(c - 1) : x # new => Home(B, c, x) = Home(A, c, x)
  BY <1>7, <1>8 DEF Home
<1>10. ASSUME NEW x \in 0..(c - 1), B[x].key = NoKey PROVE B[x] = Empty
  <2>1. x # new
    BY <1>7, <1>10
  <2>2. A[x].key = NoKey /\ A[x] = Empty
    BY <1>0, <1>8, <1>10, <2>1, LinkedEntry
  <2>3. x # p /\ x # n
    BY <1>4, <2>2
  <2>4. QED
    BY <1>8, <2>1, <2>2, <2>3
<1> HIDE DEF Later
<1>11. ASSUME NEW x \in 0..(c - 1), B[x].key # NoKey PROVE Back(B, c, q, x)
  <2>1. CASE x = new
    <3>1. B[p].key # NoKey /\ NextOf(B, p) = new /\ Home(B, c, p) = p
      BY <1>1, <1>2, <1>8, <1>9
    <3>2. q[p] = 0
      BY <1>1, <1>2, <1>6 DEF Later
    <3>3. q[new] = q[p] + 1
      BY <1>6, <3>2
    <3>4. QED
      BY <1>1, <1>7, <1>9, <2>1, <3>1, <3>3 DEF Back
  <2>2. CASE x # new /\ x = n
    <3>1. n # -1
      BY <2>2
    <3>2. PrevOf(B, n) = new /\ NextOf(B, new) = n /\ Home(B, c, new) = Home(B, c, n)
      BY <1>4, <1>7, <1>8, <1>9, <3>1
    <3>3. q[n] = q[new] + 1
      <4>1. Later(n)
        BY <1>4, <3>1 DEF Later
      <4>2. QED
        BY <1>4, <1>6, <3>1, <4>1
    <3>4. QED
      BY <1>1, <1>7, <2>2, <3>2, <3>3 DEF Back
  <2>3. CASE x # new /\ x # n
    <3>1. A[x].key # NoKey /\ PrevOf(B, x) = PrevOf(A, x) /\ Home(B, c, x) = Home(A, c, x)
      BY <1>8, <1>9, <1>11, <2>3
    <3>2. Behind(A, c, r, x)
      BY <1>0, <3>1, Neighbours
    <3>3. PICK y : y = PrevOf(A, x)
      OBVIOUS
    <3>4. CASE y = -1
      <4>1. x = Home(A, c, x) /\ r[x] = 0
        BY <3>2, <3>3, <3>4 DEF Behind
      <4>2. ~Later(x)
        BY <4>1 DEF Later
      <4>3. q[x] = 0
        BY <1>6, <2>3, <4>1, <4>2
      <4>4. QED
        BY <3>1, <3>3, <3>4, <4>1, <4>3 DEF Back
    <3>5. CASE y # -1
      <4>1. /\ y \in 0..(c - 1) /\ A[y].key # NoKey /\ NextOf(A, y) = x
            /\ Home(A, c, y) = Home(A, c, x) /\ r[x] = r[y] + 1 /\ r[x] # 0
        BY <3>2, <3>3, <3>5 DEF Behind
      <4>2. y # new /\ y # p /\ x # p
        BY <1>2, <1>3, <2>3, <4>1
      <4>3. B[y].key # NoKey /\ NextOf(B, y) = x /\ Home(B, c, y) = Home(B, c, x)
        BY <1>8, <1>9, <3>1, <2>3, <4>1, <4>2
      <4>4. Later(x) <=> Later(y)
        BY <3>1, <4>1, <4>2 DEF Later
      <4>5. q[x] = q[y] + 1
        <5>1. /\ q[x] = IF Later(x) THEN r[x] + 1 ELSE r[x]
              /\ q[y] = IF Later(x) THEN r[y] + 1 ELSE r[y]
          BY <1>6, <2>3, <4>1, <4>2, <4>4
        <5>2. r[y] \in Nat
          BY <1>1, <4>1
        <5>3. QED
          BY <4>1, <5>1, <5>2
      <4>6. QED
        BY <3>1, <3>3, <3>5, <4>1, <4>3, <4>5 DEF Back
    <3>6. QED
      BY <3>4, <3>5
  <2>4. QED
    BY <2>1, <2>2, <2>3
<1>12. ASSUME NEW x \in 0..(c - 1), B[x].key # NoKey PROVE Forth(B, c, x)
  <2>1. CASE x = new
    <3>1. n # -1 => B[n].key # NoKey /\ PrevOf(B, n) = new
      BY <1>4, <1>8
    <3>2. QED
      BY <1>4, <1>7, <2>1, <3>1 DEF Forth
  <2>2. CASE x # new /\ x = p
    <3>1. NextOf(B, p) = new
      BY <1>8, <2>2
    <3>2. QED
      BY <1>7, <2>2, <3>1 DEF Forth
  <2>3. CASE x # new /\ x # p
    <3>1. A[x].key # NoKey /\ NextOf(B, x) = NextOf(A, x)
      BY <1>8, <1>12, <2>3
    <3>2. InFront(A, c, r, x)
      BY <1>0, <3>1, Neighbours
    <3>3. ASSUME NEW y, y = NextOf(A, x), y # -1
          PROVE  y \in 0..(c - 1) /\ B[y].key # NoKey /\ PrevOf(B, y) = x
      <4>1. y \in 0..(c - 1) /\ A[y].key # NoKey /\ PrevOf(A, y) = x
        BY <3>2, <3>3 DEF InFront
      <4>2. y # new /\ y # n
        BY <1>4, <2>3, <4>1
      <4>4. QED
        BY <1>8, <4>1, <4>2
    <3>4. QED
      BY <3>1, <3>3 DEF Forth
  <2>4. QED
    BY <2>1, <2>2, <2>3
<1>13. Linked(B, c, q)
  BY <1>6, <1>7, <1>10, <1>11, <1>12, LinkedIf
<1>14. QED
  BY <1>13 DEF Chained

(* The last entry of a chain is removed. *)
LEMMA DroppedLinked ==
  ASSUME NEW c \in Nat, NEW A, Chained(A, c),
         NEW i \in 0..(c - 1), A[i].key # NoKey, NextOf(A, i) = -1,
         NEW B, TakenOut(c, A, i, B)
  PROVE  Chained(B, c)
<1>0. PICK r : Linked(A, c, r)
  BY DEF Chained
<1>1. r \in [0..(c - 1) -> Nat]
  BY <1>0 DEF Linked
<1>2. PICK p : p = PrevOf(A, i)
  OBVIOUS
<1>3. p # -1 => p \in 0..(c - 1) /\ p # i /\ A[p].key # NoKey /\ NextOf(A, p) = i
  <2>1. Behind(A, c, r, i)
    BY <1>0, Neighbours
  <2>2. QED
    BY <1>2, <2>1 DEF Behind
<1>4. B \in Arrays(c) /\ B[i] = Empty /\ B[i].key = NoKey /\ \A x \in 0..(c - 1) : Plain(B, x)
  BY EmptyIs DEF TakenOut
<1>5. ASSUME NEW x \in 0..(c - 1), x # i
      PROVE  /\ B[x].key = A[x].key
             /\ NextOf(B, x) = IF x = p THEN -1 ELSE NextOf(A, x)
             /\ PrevOf(B, x) = PrevOf(A, x)
             /\ x # p => B[x] = A[x]
  BY <1>2, <1>5 DEF TakenOut
<1>6. \A x \in 0..(c - 1) : x # i => Home(B, c, x) = Home(A, c, x)
  BY <1>5 DEF Home
<1>7. ASSUME NEW x \in 0..(c - 1), B[x].key = NoKey PROVE B[x] = Empty
  <2>1. CASE x # i
    <3>1. A[x].key = NoKey /\ A[x] = Empty
      BY <1>0, <1>5, <1>7, <2>1, LinkedEntry
    <3>2. x # p
      BY <1>3, <3>1
    <3>3. QED
      BY <1>5, <2>1, <3>1, <3>2
  <2>2. QED
    BY <1>4, <2>1
<1>8. ASSUME NEW x \in 0..(c - 1), B[x].key # NoKey PROVE Back(B, c, r, x) /\ Forth(B, c, x)
  <2>0. x # i
    BY <1>4, <1>8
  <2>1. /\ A[x].key # NoKey /\ PrevOf(B, x) = PrevOf(A, x) /\ Home(B, c, x) = Home(A, c, x)
        /\ NextOf(B, x) = IF x = p THEN -1 ELSE NextOf(A, x)
    BY <1>5, <1>6, <1>8, <2>0
  <2>2. Behind(A, c, r, x) /\ InFront(A, c, r, x)
    BY <1>0, <2>1, Neighbours
  <2>3. Back(B, c, r, x)
    <3>1. PICK y : y = PrevOf(A, x)
      OBVIOUS
    <3>2. CASE y = -1
      BY <2>1, <2>2, <3>1, <3>2 DEF Behind, Back
    <3>3. CASE y # -1
      <4>1. /\ y \in 0..(c - 1) /\ A[y].key # NoKey /\ NextOf(A, y) = x
            /\ Home(A, c, y) = Home(A, c, x) /\ r[x] = r[y] + 1
        BY <2>2, <3>1, <3>3 DEF Behind
      <4>2. x # -1
        OBVIOUS
      <4>3. y # i /\ y # p
        BY <1>3, <2>0, <4>1, <4>2
      <4>4. B[y].key # NoKey /\ NextOf(B, y) = x /\ Home(B, c, y) = Home(B, c, x)
        BY <1>5, <1>6, <2>1, <4>1, <4>3
      <4>5. QED
        BY <2>1, <3>1, <3>3, <4>1, <4>4 DEF Back
    <3>4. QED
      BY <3>2, <3>3
  <2>4. Forth(B, c, x)
    <3>1. ASSUME x # p, NEW y, y = NextOf(A, x), y # -1
          PROVE  y \in 0..(c - 1) /\ B[y].key # NoKey /\ PrevOf(B, y) = x
      <4>1. y \in 0..(c - 1) /\ A[y].key # NoKey /\ PrevOf(A, y) = x
        BY <2>2, <3>1 DEF InFront
      <4>2. y # i
        BY <1>2, <3>1, <4>1
      <4>3. QED
        BY <1>5, <4>1, <4>2
    <3>2. QED
      BY <2>1, <3>1 DEF Forth
  <2>5. QED
    BY <2>3, <2>4
<1>9. Linked(B, c, r)
  BY <1>1, <1>4, <1>7, <1>8, LinkedIf
<1>10. QED
  BY <1>9 DEF Chained

(* Another value, or any change that leaves the keys and the links alone. *)
LEMMA SameLinked ==
  ASSUME NEW c \in Nat, NEW A, Chained(A, c), NEW B \in Arrays(c),
         ASSUME NEW x \in 0..(c - 1)
         PROVE  /\ B[x].key = A[x].key /\ B[x].prev = A[x].prev /\ B[x].next = A[x].next
                /\ A[x].key = NoKey => B[x] = A[x]
  PROVE  Chained(B, c)
<1>1. PICK r : Linked(A, c, r)
  BY DEF Chained
<1>2. r \in [0..(c - 1) -> Nat]
  BY <1>1 DEF Linked
<1>3. \A x \in 0..(c - 1) : /\ B[x].key = A[x].key /\ PrevOf(B, x) = PrevOf(A, x)
                            /\ NextOf(B, x) = NextOf(A, x) /\ Home(B, c, x) = Home(A, c, x)
                            /\ Plain(A, x) => Plain(B, x)
  BY LinkSame DEF Plain, Home
<1>4. ASSUME NEW x \in 0..(c - 1)
      PROVE  /\ Plain(B, x)
             /\ B[x].key = NoKey => B[x] = Empty
             /\ B[x].key # NoKey => Back(B, c, r, x) /\ Forth(B, c, x)
  <2>1. Plain(B, x) /\ (B[x].key = NoKey => B[x] = Empty)
    BY <1>1, <1>3, LinkedEntry
  <2>2. ASSUME B[x].key # NoKey PROVE Back(B, c, r, x) /\ Forth(B, c, x)
    <3>1. Back(A, c, r, x) /\ Forth(A, c, x)
      BY <1>1, <1>3, <2>2, LinkedEntry
    <3>2. Back(B, c, r, x)
      BY <1>3, <3>1 DEF Back
    <3>3. Forth(B, c, x)
      BY <1>3, <3>1 DEF Forth
    <3>4. QED
      BY <3>2, <3>3
  <2>3. QED
    BY <2>1, <2>2
<1>5. Linked(B, c, r)
  BY <1>2, <1>4, LinkedIf
<1>6. QED
  BY <1>5 DEF Chained

(* An empty array has chains, all of them empty (resizetable).             *)
LEMMA BlankChained ==
  ASSUME NEW c \in Nat
  PROVE  Chained([i \in 0..(c - 1) |-> Empty], c)
<1>1. PICK A : A = [i \in 0..(c - 1) |-> Empty]
  OBVIOUS
<1>2. PICK r : r = [i \in 0..(c - 1) |-> 0]
  OBVIOUS
<1>3. A \in Arrays(c) /\ r \in [0..(c - 1) -> Nat]
  BY <1>1, <1>2, EmptyIs DEF Arrays
<1>4. \A i \in 0..(c - 1) : A[i] = Empty
  BY <1>1
<1>5. Linked(A, c, r)
  BY <1>3, <1>4, EmptyLinks, LinkedIf
<1>6. QED
  BY <1>1, <1>5 DEF Chained

-----------------------------------------------------------------------------
(* The code's assignments to the array.                                    *)

LEMMA SameArray ==
  ASSUME NEW c, NEW A \in Arrays(c), NEW B \in Arrays(c), \A x \in 0..(c - 1) : A[x] = B[x]
  PROVE  A = B
<1>1. A = [x \in 0..(c - 1) |-> A[x]] /\ B = [x \in 0..(c - 1) |-> B[x]]
  BY DEF Arrays
<1>2. [x \in 0..(c - 1) |-> A[x]] = [x \in 0..(c - 1) |-> B[x]]
  BY Zenon
<1>3. QED
  BY <1>1, <1>2, Zenon

(* The fields of an entry tell it.                                         *)
LEMMA EntryIs ==
  ASSUME NEW e \in Entry
  PROVE  e = [key |-> e.key, val |-> e.val, prev |-> e.prev, next |-> e.next]
BY DEF Entry

(* B is A, but for one field of the entry at i. *)
NextSet(c, A, i, d, B) ==
  /\ B \in Arrays(c)
  /\ B[i] = [A[i] EXCEPT !.next = d] /\ B[i].key = A[i].key /\ B[i].val = A[i].val
  /\ B[i].prev = A[i].prev /\ B[i].next = d
  /\ \A x \in 0..(c - 1) : x # i => B[x] = A[x]
PrevSet(c, A, i, d, B) ==
  /\ B \in Arrays(c)
  /\ B[i] = [A[i] EXCEPT !.prev = d] /\ B[i].key = A[i].key /\ B[i].val = A[i].val
  /\ B[i].next = A[i].next /\ B[i].prev = d
  /\ \A x \in 0..(c - 1) : x # i => B[x] = A[x]

(* An array with another next link in one entry.                           *)
LEMMA SetNext ==
  ASSUME NEW c, NEW A \in Arrays(c), NEW i \in 0..(c - 1), NEW d \in Int,
         NEW B, B = [A EXCEPT ![i].next = d]
  PROVE  NextSet(c, A, i, d, B)
<1>1. B \in Arrays(c) /\ B[i] = [A[i] EXCEPT !.next = d] /\ \A x \in 0..(c - 1) : x # i => B[x] = A[x]
  BY DEF Arrays, Entry
<1>2. PICK f \in Entry : f = A[i]
  BY ArrayEntry
<1>3. PICK h \in Entry : /\ h = [f EXCEPT !.next = d] /\ h.key = f.key /\ h.val = f.val
                         /\ h.prev = f.prev /\ h.next = d
  BY Relinked
<1>4. B[i] = h
  BY <1>1, <1>2, <1>3, Zenon
<1>5. QED
  BY <1>1, <1>2, <1>3, <1>4, Zenon DEF NextSet

(* An array with another prev link in one entry.                           *)
LEMMA SetPrev ==
  ASSUME NEW c, NEW A \in Arrays(c), NEW i \in 0..(c - 1), NEW d \in Int,
         NEW B, B = [A EXCEPT ![i].prev = d]
  PROVE  PrevSet(c, A, i, d, B)
<1>1. B \in Arrays(c) /\ B[i] = [A[i] EXCEPT !.prev = d] /\ \A x \in 0..(c - 1) : x # i => B[x] = A[x]
  BY DEF Arrays, Entry
<1>2. PICK f \in Entry : f = A[i]
  BY ArrayEntry
<1>3. PICK h \in Entry : /\ h = [f EXCEPT !.prev = d] /\ h.key = f.key /\ h.val = f.val
                         /\ h.next = f.next /\ h.prev = d
  BY Relinked
<1>4. B[i] = h
  BY <1>1, <1>2, <1>3, Zenon
<1>5. QED
  BY <1>1, <1>2, <1>3, <1>4, Zenon DEF PrevSet

(* B is A with another entry at i. *)
EntrySet(c, A, i, e, B) ==
  B \in Arrays(c) /\ B[i] = e /\ \A x \in 0..(c - 1) : x # i => B[x] = A[x]

(* An array with another entry in one slot.                                *)
LEMMA SetEntry ==
  ASSUME NEW c, NEW A \in Arrays(c), NEW i \in 0..(c - 1), NEW e \in Entry,
         NEW B, B = [A EXCEPT ![i] = e]
  PROVE  EntrySet(c, A, i, e, B)
BY DEF Arrays, EntrySet

(* What movety does to the array. *)
LEMMA MoveEntryIs ==
  ASSUME NEW c \in Nat, NEW t, t.at \in Arrays(c),
         NEW dst \in 0..(c - 1), NEW src \in 0..(c - 1), dst # src,
         t.at[src].prev # 0 => LET p == src - t.at[src].prev
                               IN  p \in 0..(c - 1) /\ p # src /\ t.at[p].next = t.at[src].prev,
         t.at[src].next # 0 => LET n == src + t.at[src].next
                               IN  n \in 0..(c - 1) /\ n # src /\ n # dst /\ t.at[n].prev = t.at[src].next,
         t.at[src].prev # 0 /\ t.at[src].next # 0 => src - t.at[src].prev # src + t.at[src].next
  PROVE  MoveEntry(t, dst, src) =
           [t EXCEPT !.at = Moved(t.at, dst, src, t.at[src], src - t.at[src].prev, src + t.at[src].next)]
<1> DEFINE A == t.at
           e == A[src]
           p == src - e.prev
           n == src + e.next
           diff == dst - src
           a == [A EXCEPT ![dst].key = e.key, ![dst].val = e.val]
           b == IF e.prev = 0 THEN [a EXCEPT ![dst].prev = 0]
                ELSE [[a EXCEPT ![p].next = @ + diff] EXCEPT ![dst].prev = a[p].next + diff]
           g == IF e.next = 0 THEN [b EXCEPT ![dst].next = 0]
                ELSE [[b EXCEPT ![n].prev = @ - diff] EXCEPT ![dst].next = b[n].prev - diff]
           B == [g EXCEPT ![src] = Empty]
           M == Moved(A, dst, src, e, p, n)
<1>0. MoveEntry(t, dst, src) = [t EXCEPT !.at = B]
  BY Zenon DEF MoveEntry
<1>1. /\ B = [g EXCEPT ![src] = Empty]
      /\ g = IF e.next = 0 THEN [b EXCEPT ![dst].next = 0]
             ELSE [[b EXCEPT ![n].prev = @ - diff] EXCEPT ![dst].next = b[n].prev - diff]
      /\ b = IF e.prev = 0 THEN [a EXCEPT ![dst].prev = 0]
             ELSE [[a EXCEPT ![p].next = @ + diff] EXCEPT ![dst].prev = a[p].next + diff]
      /\ a = [A EXCEPT ![dst].key = e.key, ![dst].val = e.val]
  BY Zenon
<1>2. /\ A \in Arrays(c) /\ e = A[src] /\ p = src - e.prev /\ n = src + e.next
      /\ e.prev # 0 => p \in 0..(c - 1) /\ p # src /\ A[p].next = e.prev
      /\ e.next # 0 => n \in 0..(c - 1) /\ n # src /\ n # dst /\ A[n].prev = e.next
      /\ e.prev # 0 /\ e.next # 0 => p # n
      /\ diff = dst - src
      /\ M = Moved(A, dst, src, e, p, n)
  BY Zenon
<1>20. /\ MoveEntry(t, dst, src) = [t EXCEPT !.at = M] =>
            MoveEntry(t, dst, src) =
           [t EXCEPT !.at = Moved(t.at, dst, src, t.at[src], src - t.at[src].prev, src + t.at[src].next)]
  BY Zenon
<1> HIDE DEF A, e, p, n, diff, a, b, g, B, M
<1>21. /\ e \in Entry /\ e.key \in Key \cup {NoKey} /\ e.val \in Val \cup {NoVal} 
       /\ e.prev \in Int /\ e.next \in Int
  BY <1>2, ArrayEntry, FieldTypes
<1>22. diff \in Int /\ p \in Int /\ n \in Int
  BY <1>2, <1>21
<1>23. diff = dst - src /\ p = src - e.prev /\ n = src + e.next
  BY SMTT(30), <1>2
<1>24. B = [g EXCEPT ![src] = Empty]
  BY <1>1
<1>25. e.prev = 0 \/ e.next = 0 \/ p # n
  BY <1>2
<1>3. a \in Arrays(c) /\ a[dst].key = e.key /\ a[dst].val = e.val /\ a[dst].next = A[dst].next
      /\ \A x \in 0..(c - 1) : x # dst => a[x] = A[x]
  <2>1. a = Filled(A, dst, e.key, e.val)
    BY <1>1 DEF Filled
  <2>2. QED
    BY SMTT(30), <1>2, <1>21, <1>22, <2>1, FilledIs
<1>5. /\ b \in Arrays(c) /\ b[dst].key = e.key /\ b[dst].val = e.val
      /\ b[dst].prev = IF e.prev = 0 THEN 0 ELSE dst - p
      /\ \A x \in 0..(c - 1) : x # dst => b[x] = IF e.prev # 0 /\ x = p THEN [A[x] EXCEPT !.next = dst - p] ELSE A[x]
  <2>1. CASE e.prev = 0
    <3>1. b = [a EXCEPT ![dst].prev = 0]
      BY <1>1, <2>1
    <3>2. PrevSet(c, a, dst, 0, b)
      <4>1. 0 \in Int /\ a \in Arrays(c)
        BY <1>3
      <4>2. QED
        BY <3>1, <4>1, SetPrev, Zenon
    <3>3. QED
      BY SMTT(30), <1>3, <2>1, <3>2 DEF PrevSet
  <2>2. CASE e.prev # 0
    <3>1. p \in 0..(c - 1) /\ p # src /\ A[p].next = e.prev
      BY <1>2, <2>2
    <3>2. a[p].next = e.prev
      BY <1>3, <3>1
    <3>3. PICK d \in Int : d = dst - p
      BY <1>22
    <3>4. a[p].next + diff = d
      BY <1>21, <1>22, <1>23, <3>2, <3>3
    <3>5. PICK f : f = [a EXCEPT ![p].next = @ + diff]
      OBVIOUS
    <3>6. f = [a EXCEPT ![p].next = d]
      BY <3>4, <3>5
    <3>7. NextSet(c, a, p, d, f)
      BY <1>3, <3>1, <3>6, SetNext
    <3>8. b = [f EXCEPT ![dst].prev = d]
      BY <1>1, <2>2, <3>4, <3>5
    <3>9. f \in Arrays(c)
      BY <3>7 DEF NextSet
    <3>10. PrevSet(c, f, dst, d, b)
      BY <3>8, <3>9, SetPrev
    <3>11. f[dst].key = e.key /\ f[dst].val = e.val
      <4>1. CASE p = dst
        BY <1>3, <3>7, <4>1 DEF NextSet
      <4>2. CASE p # dst
        BY <1>3, <3>7, <4>2 DEF NextSet
      <4>3. QED
        BY <4>1, <4>2
    <3>12. b \in Arrays(c) /\ b[dst].key = e.key /\ b[dst].val = e.val /\ b[dst].prev = d
      BY <3>10, <3>11 DEF PrevSet
    <3>13. ASSUME NEW x \in 0..(c - 1), x # dst
           PROVE  b[x] = IF x = p THEN [A[x] EXCEPT !.next = d] ELSE A[x]
      <4>1. b[x] = f[x] /\ a[x] = A[x]
        BY <1>3, <3>10, <3>13 DEF PrevSet
      <4>2. QED
        BY <3>7, <4>1 DEF NextSet
    <3>14. QED
      BY <2>2, <3>3, <3>12, <3>13
  <2>3. QED
    BY <2>1, <2>2
<1>7. /\ g \in Arrays(c) /\ g[dst].key = e.key /\ g[dst].val = e.val
      /\ g[dst].prev = b[dst].prev
      /\ g[dst].next = IF e.next = 0 THEN 0 ELSE n - dst
      /\ \A x \in 0..(c - 1) : x # dst => g[x] = IF e.next # 0 /\ x = n THEN [A[x] EXCEPT !.prev = n - dst] ELSE b[x]
  <2>1. CASE e.next = 0
    <3>1. g = [b EXCEPT ![dst].next = 0]
      BY <1>1, <2>1
    <3>2. NextSet(c, b, dst, 0, g)
      <4>1. 0 \in Int /\ b \in Arrays(c)
        BY <1>5
      <4>2. QED
        BY <3>1, <4>1, SetNext, Zenon
    <3>3. QED
      BY SMTT(30), <1>5, <2>1, <3>2 DEF NextSet
  <2>2. CASE e.next # 0
    <3>1. n \in 0..(c - 1) /\ n # src /\ n # dst /\ A[n].prev = e.next
      BY <1>2, <2>2
    <3>2. b[n] = A[n]
      BY <1>2, <1>5, <2>2, <3>1
    <3>3. PICK d \in Int : d = n - dst
      BY <1>22
    <3>4. b[n].prev - diff = d
      BY <1>21, <1>22, <1>23, <3>1, <3>2, <3>3
    <3>5. PICK f : f = [b EXCEPT ![n].prev = @ - diff]
      OBVIOUS
    <3>6. f = [b EXCEPT ![n].prev = d]
      BY <3>4, <3>5
    <3>7. PrevSet(c, b, n, d, f)
      BY <1>5, <3>1, <3>6, SetPrev
    <3>8. g = [f EXCEPT ![dst].next = d]
      BY <1>1, <2>2, <3>4, <3>5
    <3>9. f \in Arrays(c) /\ f[dst] = b[dst]
      BY <3>1, <3>7 DEF PrevSet
    <3>10. NextSet(c, f, dst, d, g)
      BY <3>8, <3>9, SetNext
    <3>12. g \in Arrays(c) /\ g[dst].key = e.key /\ g[dst].val = e.val /\ g[dst].prev = b[dst].prev /\ g[dst].next = d
      BY <1>5, <3>9, <3>10 DEF NextSet
    <3>13. ASSUME NEW x \in 0..(c - 1), x # dst
           PROVE  g[x] = IF x = n THEN [A[x] EXCEPT !.prev = d] ELSE b[x]
      <4>1. g[x] = f[x]
        BY <3>10, <3>13 DEF NextSet
      <4>2. QED
        BY <3>2, <3>7, <4>1 DEF PrevSet
    <3>14. QED
      BY <2>2, <3>3, <3>12, <3>13
  <2>3. QED
    BY <2>1, <2>2
<1>9. B \in Arrays(c) /\ B[src] = Empty /\ \A x \in 0..(c - 1) : x # src => B[x] = g[x]
  <2>1. g \in Arrays(c) /\ Empty \in Entry
    BY <1>7, EmptyIs
  <2>2. EntrySet(c, g, src, Empty, B)
    BY <1>24, <2>1, SetEntry, Zenon
  <2>3. QED
    BY <2>2 DEF EntrySet
<1>11. M \in Arrays(c)
  BY <1>2, <1>21, <1>22, <1>2, MovedIs
<1>12. ASSUME NEW x \in 0..(c - 1) PROVE B[x] = M[x]
  <2>0. DOMAIN A = 0..(c - 1)
    BY <1>2 DEF Arrays
  <2>1. CASE x = src
    BY <1>9, <1>2, <2>0, <2>1 DEF Moved
  <2>2. CASE x = dst
    <3>1. B[dst] \in Entry /\ B[dst] = g[dst]
      BY <1>9, ArrayEntry
    <3>2. B[dst] = [key |-> g[dst].key, val |-> g[dst].val, prev |-> g[dst].prev, next |-> g[dst].next]
      BY <3>1, EntryIs
    <3>3. M[dst] = [key |-> e.key, val |-> e.val, prev |-> IF e.prev = 0 THEN 0 ELSE dst - p,
                    next |-> IF e.next = 0 THEN 0 ELSE n - dst]
      BY <1>2, <2>0 DEF Moved
    <3>4. /\ g[dst].key = e.key /\ g[dst].val = e.val
          /\ g[dst].prev = IF e.prev = 0 THEN 0 ELSE dst - p
          /\ g[dst].next = IF e.next = 0 THEN 0 ELSE n - dst
      BY <1>5, <1>7, Zenon
    <3>5. QED
      BY <2>2, <3>2, <3>3, <3>4
  <2>3. CASE x # src /\ x # dst
    <3>1. M[x] = IF e.prev # 0 /\ x = p THEN [A[x] EXCEPT !.next = dst - p]
                 ELSE IF e.next # 0 /\ x = n THEN [A[x] EXCEPT !.prev = n - dst]
                 ELSE A[x]
      BY <1>2, <2>0, <2>3 DEF Moved
    <3>2. B[x] = IF e.next # 0 /\ x = n THEN [A[x] EXCEPT !.prev = n - dst] ELSE b[x]
      BY <1>7, <1>9, <2>3
    <3>3. b[x] = IF e.prev # 0 /\ x = p THEN [A[x] EXCEPT !.next = dst - p] ELSE A[x]
      BY <1>5, <2>3, Zenon
    <3>4. QED
      BY <1>25, <3>1, <3>2, <3>3, Zenon
  <2>4. QED
    BY <2>1, <2>2, <2>3
<1>13. B = M
  BY <1>9, <1>11, <1>12, SameArray
<1>14. QED
  BY <1>0, <1>13, <1>20, Zenon

(* A table from its fields. *)
Tab(c, len, last, A) == [capacity |-> c, length |-> len, lastfree |-> last, at |-> A]

(* A table from its fields.                                                *)
LEMMA TabIs ==
  ASSUME NEW c, NEW t \in Table(c)
  PROVE  /\ t = Tab(c, t.length, t.lastfree, t.at)
         /\ t.capacity = c /\ t.length \in 0..c /\ t.lastfree \in -1..(c - 1) /\ t.at \in Arrays(c)
BY DEF Table, Tab, Arrays

(* The fields of a table that is built from them.                          *)
LEMMA TabFields ==
  ASSUME NEW c, NEW len, NEW last, NEW A, NEW t, t = Tab(c, len, last, A)
  PROVE  t.capacity = c /\ t.length = len /\ t.lastfree = last /\ t.at = A
BY DEF Tab

(* A table that is built from fields of the right types is one.            *)
LEMMA TabIn ==
  ASSUME NEW c, NEW len \in 0..c, NEW last \in -1..(c - 1), NEW A \in Arrays(c)
  PROVE  Tab(c, len, last, A) \in Table(c)
BY DEF Tab, Table, Arrays

(* A table with another array, length or lastfree.                         *)
LEMMA TabWith ==
  ASSUME NEW c, NEW len, NEW last, NEW A, NEW x, NEW t, t = Tab(c, len, last, A)
  PROVE  /\ [t EXCEPT !.at = x] = Tab(c, len, last, x)
         /\ [t EXCEPT !.length = x] = Tab(c, x, last, A)
         /\ [t EXCEPT !.lastfree = x] = Tab(c, len, x, A)
BY DEF Tab

(* putety: a table in which a pair is put in a slot.                       *)
LEMMA SetPairIs ==
  ASSUME NEW c, NEW len, NEW last, NEW A, NEW i, NEW k, NEW v,
         NEW t, t = Tab(c, len, last, A)
  PROVE  SetPair(t, i, k, v) = Tab(c, len, last, Filled(A, i, k, v))
<1>1. PICK B : B = [t.at EXCEPT ![i].key = k]
  OBVIOUS
<1>2. PICK u : u = [t EXCEPT !.at = B]
  OBVIOUS
<1>3. SetPair(t, i, k, v) = [u EXCEPT !.at = [u.at EXCEPT ![i].val = v]]
  BY <1>1, <1>2 DEF SetPair
<1>4. t.at = A
  BY TabFields
<1>5. u = Tab(c, len, last, B)
  BY <1>2, TabWith
<1>6. u.at = B
  BY <1>5, TabFields
<1>7. PICK C : C = [B EXCEPT ![i].val = v]
  OBVIOUS
<1>8. SetPair(t, i, k, v) = [u EXCEPT !.at = C]
  BY <1>3, <1>6, <1>7
<1>9. [u EXCEPT !.at = C] = Tab(c, len, last, C)
  BY <1>5 DEF Tab
<1>10. C = Filled(A, i, k, v)
  BY <1>1, <1>4, <1>7 DEF Filled
<1>11. QED
  BY <1>8, <1>9, <1>10

(* newety: a table from which a free slot is taken.                        *)
LEMMA TakeSlotIs ==
  ASSUME NEW c, NEW len, NEW last, NEW A, NEW t, t = Tab(c, len, last, A)
  PROVE  TakeSlot(t) = Tab(c, len, NewSlot(t) - 1, A)
<1>1. PICK x : x = NewSlot(t) - 1
  OBVIOUS
<1>2. TakeSlot(t) = [t EXCEPT !.lastfree = x]
  BY <1>1 DEF TakeSlot
<1>3. [t EXCEPT !.lastfree = x] = Tab(c, len, x, A)
  BY DEF Tab
<1>4. QED
  BY <1>1, <1>2, <1>3

(* addety, and the pair put in the new entry. *)
LEMMA LinkAfterIs ==
  ASSUME NEW c \in Nat, NEW len, NEW last, NEW A \in Arrays(c), NEW t, t = Tab(c, len, last, A),
         NEW new \in 0..(c - 1), new = NewSlot(t), A[new] = Empty,
         NEW p \in 0..(c - 1), new # p, NEW k \in Key, NEW v \in Val \cup {NoVal},
         A[p].next # 0 => LET n == p + A[p].next
                          IN  n \in 0..(c - 1) /\ n # p /\ n # new /\ A[n].prev = A[p].next
  PROVE  SetPair(LinkAfter(t, p), new, k, v) =
           Tab(c, len, new - 1, Inserted(A, p, new, k, v, A[p], p + A[p].next))
<1>1. t.at = A /\ TakeSlot(t) = Tab(c, len, new - 1, A)
  BY TabFields, TakeSlotIs
<1>2. PICK e \in Entry : e = A[p]
  BY ArrayEntry
<1>3. PICK diff \in Int : diff = new - p
  OBVIOUS
<1>4. PICK n \in Int : n = p + e.next
  BY <1>2, FieldTypes
<1>5. e.next # 0 => n \in 0..(c - 1) /\ n # p /\ n # new /\ A[n].prev = e.next
  BY <1>2, <1>4
<1>6. e.next \in Int
  BY <1>2, FieldTypes
<1>7. PICK a : a = IF e.next = 0 THEN A
                   ELSE [A EXCEPT ![n].prev = @ - diff, ![new].next = e.next - diff]
  OBVIOUS
<1>8. /\ a \in Arrays(c)
      /\ a[new].next = IF e.next = 0 THEN 0 ELSE n - new
      /\ \A x \in 0..(c - 1) : x # new =>
           a[x] = IF e.next # 0 /\ x = n THEN [A[x] EXCEPT !.prev = n - new] ELSE A[x]
  <2>1. CASE e.next = 0
    BY <1>7, <2>1, EmptyIs
  <2>2. CASE e.next # 0
    <3>1. n \in 0..(c - 1) /\ n # p /\ n # new /\ A[n].prev = e.next
      BY <1>5, <2>2
    <3>2. PICK d \in Int : d = n - new
      OBVIOUS
    <3>3. A[n].prev - diff = d /\ e.next - diff = d
      BY <1>3, <1>4, <1>6, <3>1, <3>2
    <3>4. PICK f : f = [A EXCEPT ![n].prev = d]
      OBVIOUS
    <3>5. PrevSet(c, A, n, d, f)
      BY <3>1, <3>4, SetPrev
    <3>6. a = [[A EXCEPT ![n].prev = @ - diff] EXCEPT ![new].next = e.next - diff]
      BY <1>7, <2>2
    <3>7. [A EXCEPT ![n].prev = @ - diff] = f
      BY <3>3, <3>4
    <3>8. a = [f EXCEPT ![new].next = d]
      BY <3>3, <3>6, <3>7
    <3>9. f \in Arrays(c)
      BY <3>5 DEF PrevSet
    <3>10. NextSet(c, f, new, d, a)
      BY <3>8, <3>9, SetNext
    <3>11. a \in Arrays(c) /\ a[new].next = d
      BY <3>10 DEF NextSet
    <3>12. ASSUME NEW x \in 0..(c - 1), x # new
           PROVE  a[x] = IF x = n THEN [A[x] EXCEPT !.prev = d] ELSE A[x]
      <4>1. a[x] = f[x]
        BY <3>10, <3>12 DEF NextSet
      <4>2. QED
        BY <3>5, <4>1 DEF PrevSet
    <3>13. QED
      BY <2>2, <3>2, <3>11, <3>12
  <2>3. QED
    BY <2>1, <2>2
<1>9. PICK f : f = [a EXCEPT ![new].prev = diff]
  OBVIOUS
<1>10. PrevSet(c, a, new, diff, f)
  BY <1>8, <1>9, SetPrev
<1>11. PICK g : g = [f EXCEPT ![p].next = diff]
  OBVIOUS
<1>12. f \in Arrays(c)
  BY <1>10 DEF PrevSet
<1>13. NextSet(c, f, p, diff, g)
  BY <1>11, <1>12, SetNext
<1>14. LinkAfter(t, p) = Tab(c, len, new - 1, g)
  <2>1. g = [a EXCEPT ![new].prev = diff, ![p].next = diff]
    BY <1>9, <1>11
  <2>2. LinkAfter(t, p) = [TakeSlot(t) EXCEPT !.at = g]
    <3> DEFINE d0 == NewSlot(t) - p
               n0 == p + t.at[p].next
               a0 == IF ~HasNext(t, p) THEN t.at
                     ELSE [t.at EXCEPT ![n0].prev = @ - d0, ![NewSlot(t)].next = t.at[p].next - d0]
               g0 == [a0 EXCEPT ![NewSlot(t)].prev = d0, ![p].next = d0]
    <3>1. LinkAfter(t, p) = [TakeSlot(t) EXCEPT !.at = g0]
      BY Zenon DEF LinkAfter
    <3>2. d0 = diff /\ n0 = n
      BY <1>1, <1>2, <1>3, <1>4
    <3>3. a0 = IF ~HasNext(t, p) THEN t.at
               ELSE [t.at EXCEPT ![n0].prev = @ - d0, ![NewSlot(t)].next = t.at[p].next - d0]
      BY Zenon
    <3>4. g0 = [a0 EXCEPT ![NewSlot(t)].prev = d0, ![p].next = d0]
      BY Zenon
    <3> HIDE DEF d0, n0, a0, g0
    <3>5. HasNext(t, p) <=> e.next # 0
      BY <1>1, <1>2 DEF HasNext
    <3>6. a0 = a
      <4>1. CASE e.next = 0
        BY <1>1, <1>7, <3>3, <3>5, <4>1
      <4>2. CASE e.next # 0
        <5>1. a0 = [t.at EXCEPT ![n0].prev = @ - d0, ![NewSlot(t)].next = t.at[p].next - d0]
          BY <3>3, <3>5, <4>2
        <5>2. a = [A EXCEPT ![n].prev = @ - diff, ![new].next = e.next - diff]
          BY <1>7, <4>2
        <5>3. t.at[p].next = e.next /\ NewSlot(t) = new
          BY <1>1, <1>2
        <5>4. QED
          BY <1>1, <3>2, <5>1, <5>2, <5>3
      <4>3. QED
        BY <4>1, <4>2
    <3>7. g0 = g
      BY <2>1, <3>2, <3>4, <3>6
    <3>8. QED
      BY <3>1, <3>7
  <2>3. QED
    BY <1>1, <2>2, TabWith
<1>15. PICK B : B = Filled(g, new, k, v)
  OBVIOUS
<1>16. SetPair(LinkAfter(t, p), new, k, v) = Tab(c, len, new - 1, B)
  BY <1>14, <1>15, SetPairIs
<1>17. PICK M : M = Inserted(A, p, new, k, v, e, n)
  OBVIOUS
<1>18. B = M
  <2>1. g \in Arrays(c) /\ B \in Arrays(c)
    BY <1>13, <1>15, FilledIs DEF NextSet
  <2>2. M \in Arrays(c)
    <3>1. IsInserted(c, A, p, new, k, v, e, n, M)
      BY <1>5, <1>17, InsertedIs
    <3>2. QED
      BY <3>1 DEF IsInserted
  <2>3. ASSUME NEW x \in 0..(c - 1) PROVE B[x] = M[x]
    <3>1. CASE x = new
      <4>1. B[new].key = k /\ B[new].val = v /\ B[new].prev = g[new].prev /\ B[new].next = g[new].next
        BY <1>15, <2>1, FilledIs
      <4>2. g[new] = f[new]
        BY <1>13 DEF NextSet
      <4>3. f[new].prev = diff /\ f[new].next = a[new].next
        BY <1>10 DEF PrevSet
      <4>4. B[new] \in Entry
        BY <2>1, ArrayEntry
      <4>5. B[new] = [key |-> B[new].key, val |-> B[new].val, prev |-> B[new].prev, next |-> B[new].next]
        BY <4>4, EntryIs
      <4>6. M[new] = [key |-> k, val |-> v, prev |-> new - p, next |-> IF e.next = 0 THEN 0 ELSE n - new]
        BY <1>17 DEF Inserted, Arrays
      <4>7. B[new].prev = new - p /\ B[new].next = IF e.next = 0 THEN 0 ELSE n - new
        BY <1>3, <1>8, <4>1, <4>2, <4>3
      <4>8. QED
        BY <3>1, <4>1, <4>5, <4>6, <4>7
    <3>2. CASE x # new
      <4>1. B[x] = g[x] /\ f[x] = a[x]
        BY <1>10, <1>15, <2>1, <3>2, FilledIs DEF PrevSet
      <4>2. g[x] = IF x = p THEN [a[x] EXCEPT !.next = diff] ELSE a[x]
        BY <1>13, <4>1 DEF NextSet
      <4>3. a[x] = IF e.next # 0 /\ x = n THEN [A[x] EXCEPT !.prev = n - new] ELSE A[x]
        BY <1>8, <3>2
      <4>4. M[x] = IF x = p THEN [A[x] EXCEPT !.next = new - p]
                   ELSE IF e.next # 0 /\ x = n THEN [A[x] EXCEPT !.prev = n - new]
                   ELSE A[x]
        BY <1>17, <3>2 DEF Inserted, Arrays
      <4>5. CASE x = p
        <5>1. a[x] = A[x]
          BY <1>5, <4>3, <4>5
        <5>2. QED
          BY <1>3, <4>1, <4>2, <4>4, <4>5, <5>1
      <4>6. CASE x # p
        BY <4>1, <4>2, <4>3, <4>4, <4>6
      <4>7. QED
        BY <4>5, <4>6
    <3>3. QED
      BY <3>1, <3>2
  <2>4. QED
    BY <2>1, <2>2, <2>3, SameArray
<1>19. QED
  BY <1>2, <1>4, <1>16, <1>17, <1>18

(* A table in which a slot is emptied.                                     *)
LEMMA FreedIs ==
  ASSUME NEW c, NEW len, NEW last, NEW A, NEW i
  PROVE  Freed(Tab(c, len, last, A), i) = Tab(c, len, IF last < i THEN i ELSE last, [A EXCEPT ![i] = Empty])
<1>0. PICK t : t = Tab(c, len, last, A)
  OBVIOUS
<1>1. t.at = A /\ t.lastfree = last
  BY <1>0, TabFields
<1>2. PICK B : B = [t.at EXCEPT ![i] = Empty]
  OBVIOUS
<1>3. PICK x : x = IF last < i THEN i ELSE last
  OBVIOUS
<1>4. PICK u : u = [t EXCEPT !.at = B]
  OBVIOUS
<1>5. u = Tab(c, len, last, B)
  BY <1>0, <1>4 DEF Tab
<1>6. u.lastfree = last
  BY <1>5, TabFields
<1>7. Freed(t, i) = [u EXCEPT !.lastfree = IF u.lastfree < i THEN i ELSE u.lastfree]
  BY <1>2, <1>4 DEF Freed
<1>8. Freed(t, i) = [u EXCEPT !.lastfree = x]
  BY <1>3, <1>6, <1>7
<1>9. [u EXCEPT !.lastfree = x] = Tab(c, len, x, B)
  BY <1>5 DEF Tab
<1>10. QED
  BY <1>0, <1>1, <1>2, <1>3, <1>8, <1>9

NextAt(t, p, d) == [t EXCEPT !.at[p].next = d]

(* A table with another next link in one entry.                            *)
LEMMA NextAtIs ==
  ASSUME NEW c, NEW len, NEW last, NEW A, NEW p, NEW d
  PROVE  NextAt(Tab(c, len, last, A), p, d) = Tab(c, len, last, [A EXCEPT ![p].next = d])
<1>0. PICK t : t = Tab(c, len, last, A)
  OBVIOUS
<1>1. PICK B : B = [t.at EXCEPT ![p].next = d]
  OBVIOUS
<1>2. NextAt(t, p, d) = [t EXCEPT !.at = B]
  BY <1>1 DEF NextAt
<1>3. [t EXCEPT !.at = B] = Tab(c, len, last, B)
  BY <1>0 DEF Tab
<1>4. t.at = A
  BY <1>0, TabFields
<1>5. QED
  BY <1>0, <1>1, <1>2, <1>3, <1>4

(* remety without the move. *)
LEMMA RemoveIs ==
  ASSUME NEW c \in Nat, NEW len, NEW last, NEW A \in Arrays(c), NEW t, t = Tab(c, len, last, A),
         NEW i \in 0..(c - 1), A[i].next = 0,
         A[i].prev # 0 => i - A[i].prev \in 0..(c - 1) /\ i - A[i].prev # i
  PROVE  Remove(t, i) = Tab(c, len - 1, IF last < i THEN i ELSE last, Dropped(A, i, A[i], i - A[i].prev))
<1>1. t.at = A /\ t.length = len
  BY TabFields
<1>2. PICK e \in Entry : e = A[i]
  BY ArrayEntry
<1>3. PICK p \in Int : p = i - e.prev
  BY <1>2, FieldTypes
<1>4. PICK l : l = len - 1
  OBVIOUS
<1>5. PICK u : u = [t EXCEPT !.length = l]
  OBVIOUS
<1>6. u = Tab(c, l, last, A)
  BY <1>5 DEF Tab
<1>7. ~Moves(t, i) /\ ~Middle(t, i) /\ (HasPrev(t, i) <=> e.prev # 0)
  BY <1>1, <1>2 DEF Moves, Middle, HasPrev, HasNext
<1>8. Remove(t, i) = IF HasPrev(t, i) THEN Freed(NextAt(u, p, 0), i) ELSE Freed(u, i)
  <2> DEFINE u0 == [t EXCEPT !.length = @ - 1]
             p0 == i - t.at[i].prev
  <2>1. Remove(t, i) = IF HasPrev(t, i) THEN Freed(NextAt(u0, p0, 0), i) ELSE Freed(u0, i)
    BY <1>7, Zenon DEF Remove, NextAt
  <2>2. u0 = u
    BY <1>1, <1>4, <1>5
  <2>3. p0 = p
    BY <1>1, <1>2, <1>3
  <2> HIDE DEF u0, p0
  <2>4. QED
    BY <2>1, <2>2, <2>3
<1>9. PICK M : M = Dropped(A, i, e, p)
  OBVIOUS
<1>10. PICK x : x = IF last < i THEN i ELSE last
  OBVIOUS
<1>11. M \in Arrays(c)
  <2>1. IsDropped(c, A, i, e, p, M)
    BY <1>9, DroppedIs
  <2>2. QED
    BY <2>1 DEF IsDropped
<1>12. Remove(t, i) = Tab(c, l, x, M)
  <2>1. CASE e.prev = 0
    <3>1. PICK B : B = [A EXCEPT ![i] = Empty]
      OBVIOUS
    <3>2. Remove(t, i) = Tab(c, l, x, B)
      <4>1. Freed(u, i) = Tab(c, l, IF last < i THEN i ELSE last, [A EXCEPT ![i] = Empty])
        BY <1>6, FreedIs
      <4>2. Remove(t, i) = Freed(u, i)
        BY <1>7, <1>8, <2>1
      <4>3. QED
        BY <1>10, <3>1, <4>1, <4>2, Zenon
    <3>3. EntrySet(c, A, i, Empty, B)
      BY <3>1, EmptyIs, SetEntry
    <3>4. B \in Arrays(c) /\ \A y \in 0..(c - 1) : B[y] = M[y]
      BY <1>9, <2>1, <3>3 DEF EntrySet, Dropped, Arrays
    <3>5. B = M
      BY <1>11, <3>4, SameArray
    <3>6. QED
      BY <3>2, <3>5
  <2>2. CASE e.prev # 0
    <3>1. p \in 0..(c - 1) /\ p # i
      BY <1>2, <1>3, <2>2
    <3>2. PICK f : f = [A EXCEPT ![p].next = 0]
      OBVIOUS
    <3>3. PICK w : w = NextAt(u, p, 0)
      OBVIOUS
    <3>4. w = Tab(c, l, last, f)
      <4>1. NextAt(u, p, 0) = Tab(c, l, last, [A EXCEPT ![p].next = 0])
        BY <1>6, NextAtIs
      <4>2. QED
        BY <3>2, <3>3, <4>1, Zenon
    <3>5. PICK B : B = [f EXCEPT ![i] = Empty]
      OBVIOUS
    <3>6. Remove(t, i) = Freed(w, i)
      BY <1>7, <1>8, <2>2, <3>3
    <3>7. Remove(t, i) = Tab(c, l, x, B)
      <4>1. Freed(w, i) = Tab(c, l, IF last < i THEN i ELSE last, [f EXCEPT ![i] = Empty])
        BY <3>4, FreedIs
      <4>2. QED
        BY <1>10, <3>5, <3>6, <4>1, Zenon
    <3>8. NextSet(c, A, p, 0, f)
      <4>1. 0 \in Int
        OBVIOUS
      <4>2. QED
        BY <3>1, <3>2, <4>1, SetNext, Zenon
    <3>9. f \in Arrays(c)
      BY <3>8 DEF NextSet
    <3>10. EntrySet(c, f, i, Empty, B)
      BY <3>5, <3>9, EmptyIs, SetEntry
    <3>11. B \in Arrays(c) /\ B[i] = Empty
      BY <3>10 DEF EntrySet
    <3>12. ASSUME NEW y \in 0..(c - 1) PROVE B[y] = M[y]
      <4>1. M[y] = IF y = i THEN Empty ELSE IF e.prev # 0 /\ y = p THEN [A[y] EXCEPT !.next = 0] ELSE A[y]
        BY <1>9 DEF Dropped, Arrays
      <4>2. CASE y = i
        BY <3>11, <4>1, <4>2
      <4>3. CASE y # i
        <5>1. B[y] = f[y]
          BY <3>10, <4>3 DEF EntrySet
        <5>2. f[y] = IF y = p THEN [A[y] EXCEPT !.next = 0] ELSE A[y]
          BY <3>8 DEF NextSet
        <5>3. QED
          BY <2>2, <4>1, <4>3, <5>1, <5>2
      <4>4. QED
        BY <4>2, <4>3
    <3>13. B = M
      BY <1>11, <3>11, <3>12, SameArray
    <3>14. QED
      BY <3>7, <3>13
  <2>3. QED
    BY <2>1, <2>2
<1>13. QED
  BY <1>2, <1>3, <1>4, <1>9, <1>10, <1>12

(* remety of a head that is not alone. *)
LEMMA RemoveHead ==
  ASSUME NEW c, NEW len, NEW last, NEW A, NEW t, t = Tab(c, len, last, A),
         NEW i, A[i].prev = 0, A[i].next # 0
  PROVE  Remove(t, i) = MoveEntry(Tab(c, len - 1, last, A), i, i + A[i].next)
<1>1. t.at = A /\ t.length = len
  BY TabFields
<1>2. Moves(t, i)
  BY <1>1 DEF Moves, HasPrev, HasNext
<1>3. PICK l : l = len - 1
  OBVIOUS
<1>4. [t EXCEPT !.length = l] = Tab(c, l, last, A)
  BY DEF Tab
<1>5. Remove(t, i) = MoveEntry([t EXCEPT !.length = @ - 1], i, i + t.at[i].next)
  BY <1>2, Zenon DEF Remove
<1>6. [t EXCEPT !.length = @ - 1] = Tab(c, l, last, A)
  BY <1>1, <1>3, <1>4
<1>7. QED
  BY <1>1, <1>3, <1>5, <1>6

-----------------------------------------------------------------------------
(* Looking for a key.                                                      *)

(* What is found from the slot i on in n steps, when f[n - 1] tells what   *)
(* is found in n - 1.                                                      *)
Step(t, k, f, n, i) ==
  IF n = 0 \/ i \notin Slots(t) THEN -1
  ELSE IF t.at[i].key = k THEN i
  ELSE IF HasNext(t, i) THEN f[n - 1][i + t.at[i].next] ELSE -1

(* f is the search of SlotOf for up to m steps. *)
Searching(t, k, m, f) == f = [n \in 0..m |-> [i \in Int |-> Step(t, k, f, n, i)]]

(* What the search function finds from each slot in n steps.               *)
LEMMA SearchingIs ==
  ASSUME NEW t, NEW k, NEW m \in Nat, NEW f, Searching(t, k, m, f)
  PROVE  \A n \in 0..m, i \in Int : f[n][i] = Step(t, k, f, n, i)
<1>1. f = [n \in 0..m |-> [i \in Int |-> Step(t, k, f, n, i)]]
  BY DEF Searching
<1>2. \A n \in 0..m : f[n] = [i \in Int |-> Step(t, k, f, n, i)]
  <2> DEFINE B(n) == [i \in Int |-> Step(t, k, f, n, i)]
  <2>1. f = [n \in 0..m |-> B(n)]
    BY <1>1
  <2> HIDE DEF B
  <2>2. \A n \in 0..m : f[n] = B(n)
    BY <2>1
  <2>3. QED
    BY <2>2 DEF B
<1>3. QED
  BY <1>2, Zenon

(* The recursive function that searches a chain exists, so that what its   *)
(* definition says of it holds: the function of n steps is built from that *)
(* of n - 1 steps, up to the capacity.                                     *)
LEMMA SearchExists ==
  ASSUME NEW t, NEW k, NEW c \in Nat
  PROVE  \E f : Searching(t, k, c, f)
<1> DEFINE I == {m \in Nat : m <= c /\ ~\E f : Searching(t, k, m, f)}
<1>1. SUFFICES ASSUME I # {} PROVE FALSE
  OBVIOUS
<1>2. PICK m \in I : \A j \in I : m <= j
  <2>1. I \in SUBSET Nat
    OBVIOUS
  <2> HIDE DEF I
  <2>2. QED
    BY <1>1, <2>1, LeastExists
<1>3. m \in Nat /\ m <= c /\ ~\E f : Searching(t, k, m, f)
  OBVIOUS
<1>4. CASE m = 0
  <2>1. PICK f : f = [n \in 0..0 |-> [i \in Int |-> -1]]
    OBVIOUS
  <2>2. \A n \in 0..0 : \A i \in Int : Step(t, k, f, n, i) = -1
    BY DEF Step
  <2>3. \A n \in 0..0 : [i \in Int |-> Step(t, k, f, n, i)] = [i \in Int |-> -1]
    BY <2>2, Zenon
  <2>4. [n \in 0..0 |-> [i \in Int |-> Step(t, k, f, n, i)]] = [n \in 0..0 |-> [i \in Int |-> -1]]
    BY <2>3, Zenon
  <2>5. Searching(t, k, 0, f)
    BY <2>1, <2>4, Zenon DEF Searching
  <2>6. QED
    BY <1>3, <1>4, <2>5
<1>5. CASE m # 0
  <2>1. PICK p \in Nat : m = p + 1
    <3>1. m - 1 \in Nat /\ m = (m - 1) + 1
      BY <1>3, <1>5
    <3>2. QED
      BY <3>1
  <2>2. p \notin I
    BY <1>2, <2>1
  <2>3. PICK f : Searching(t, k, p, f)
    BY <1>3, <2>1, <2>2
  <2>4. PICK g : g = [n \in 0..m |-> IF n = m THEN [i \in Int |-> Step(t, k, f, m, i)] ELSE f[n]]
    OBVIOUS
  <2>5. \A n \in 0..p : g[n] = f[n] /\ n # m /\ n \in 0..m
    BY <2>1, <2>4
  <2>6. \A n \in 0..m : n = m \/ n \in 0..p
    BY <2>1
  <2>7. ASSUME NEW n \in 0..m PROVE \A i \in Int : Step(t, k, g, n, i) = Step(t, k, f, n, i)
    <3>1. n = 0 \/ n - 1 \in 0..p
      BY <2>1
    <3>2. n = 0 \/ g[n - 1] = f[n - 1]
      BY <2>5, <3>1
    <3>3. QED
      BY <3>2, Zenon DEF Step
  <2>8. \A n \in 0..m : [i \in Int |-> Step(t, k, g, n, i)] = [i \in Int |-> Step(t, k, f, n, i)]
    BY <2>7, Zenon
  <2>9. \A n \in 0..p : f[n] = [i \in Int |-> Step(t, k, f, n, i)]
    <3> DEFINE B(n) == [i \in Int |-> Step(t, k, f, n, i)]
    <3>1. f = [n \in 0..p |-> B(n)]
      BY <2>3 DEF Searching
    <3> HIDE DEF B
    <3>2. \A n \in 0..p : f[n] = B(n)
      BY <3>1
    <3>3. QED
      BY <3>2 DEF B
  <2>10. \A n \in 0..m : (IF n = m THEN [i \in Int |-> Step(t, k, f, m, i)] ELSE f[n]) = [i \in Int |-> Step(t, k, g, n, i)]
    BY <2>6, <2>8, <2>9, Zenon
  <2>11. [n \in 0..m |-> IF n = m THEN [i \in Int |-> Step(t, k, f, m, i)] ELSE f[n]]
           = [n \in 0..m |-> [i \in Int |-> Step(t, k, g, n, i)]]
    BY <2>10, Zenon
  <2>12. Searching(t, k, m, g)
    BY <2>4, <2>11, Zenon DEF Searching
  <2>13. QED
    BY <1>3, <2>12
<1>6. QED
  BY <1>4, <1>5

(* SlotOf in terms of such a search. *)
LEMMA SlotOfIs ==
  ASSUME NEW t, NEW k, t.capacity \in Nat
  PROVE  \E f : /\ \A n \in 0..t.capacity, i \in Int : f[n][i] = Step(t, k, f, n, i)
                /\ SlotOf(t, k) = IF t.length = 0 \/ HasPrev(t, HeadOf(t, k)) THEN -1
                                  ELSE f[t.capacity][HeadOf(t, k)]
<1> DEFINE S == CHOOSE f : Searching(t, k, t.capacity, f)
<1>1. Searching(t, k, t.capacity, S)
  BY SearchExists, Zenon
<1>2. SlotOf(t, k) = IF t.length = 0 \/ HasPrev(t, HeadOf(t, k)) THEN -1 ELSE S[t.capacity][HeadOf(t, k)]
  BY Zenon DEF SlotOf, Searching, Step
<1> HIDE DEF S
<1>3. \A n \in 0..t.capacity, i \in Int : S[n][i] = Step(t, k, S, n, i)
  BY <1>1, SearchingIs
<1>4. QED
  BY <1>2, <1>3

(* No key is in two slots. *)
Once(A, c) == \A i, j \in 0..(c - 1) : A[i].key # NoKey /\ A[i].key = A[j].key => i = j

(* Every rank up to that of an entry is met in its chain. *)
LEMMA RanksMet ==
  ASSUME NEW c \in Nat, NEW A, NEW r, Linked(A, c, r),
         NEW i \in 0..(c - 1), A[i].key # NoKey, NEW m \in 0..r[i]
  PROVE  \E x \in 0..(c - 1) : A[x].key # NoKey /\ Home(A, c, x) = Home(A, c, i) /\ r[x] = m
<1> DEFINE Met(d) == \E x \in 0..(c - 1) : A[x].key # NoKey /\ Home(A, c, x) = Home(A, c, i) /\ r[x] = r[i] - d
           I == {d \in Nat : d <= r[i] /\ ~Met(d)}
<1>0. r[i] \in Nat
  BY LinkedEntry
<1>1. I = {}
  <2> SUFFICES ASSUME I # {} PROVE FALSE
    OBVIOUS
  <2>1. PICK d \in I : \A j \in I : d <= j
    <3>1. I \in SUBSET Nat
      OBVIOUS
    <3> HIDE DEF I
    <3>2. QED
      BY <3>1, LeastExists
  <2>2. d \in Nat /\ d <= r[i] /\ ~Met(d)
    OBVIOUS
  <2>3. d # 0
    <3>1. Met(0)
      BY <1>0
    <3>2. QED
      BY <2>2, <3>1
  <2>4. d - 1 \in Nat /\ d - 1 <= r[i] /\ d - 1 \notin I
    <3> HIDE DEF I
    <3>1. QED
      BY <1>0, <2>1, <2>2, <2>3
  <2>5. Met(d - 1)
    BY <2>4
  <2>6. PICK x \in 0..(c - 1) : A[x].key # NoKey /\ Home(A, c, x) = Home(A, c, i) /\ r[x] = r[i] - (d - 1)
    BY <2>5
  <2>7. Behind(A, c, r, x)
    BY <2>6, Neighbours
  <2>8. r[x] # 0
    BY <1>0, <2>2, <2>6
  <2>9. PICK p : p = PrevOf(A, x)
    OBVIOUS
  <2>10. /\ p \in 0..(c - 1) /\ A[p].key # NoKey
         /\ Home(A, c, p) = Home(A, c, x) /\ r[x] = r[p] + 1
    BY <2>7, <2>8, <2>9 DEF Behind
  <2>11. r[p] \in Nat
    BY <2>10, LinkedEntry
  <2>12. r[p] = r[i] - d
    BY <1>0, <2>2, <2>6, <2>10, <2>11
  <2>13. Met(d)
    BY <2>6, <2>10, <2>12
  <2>14. QED
    BY <2>2, <2>13
<1>2. PICK d \in Nat : d = r[i] - m /\ d <= r[i] /\ m = r[i] - d
  <2>1. r[i] - m \in Nat /\ r[i] - m <= r[i] /\ m = r[i] - (r[i] - m)
    BY <1>0
  <2>2. QED
    BY <2>1
<1>3. Met(d)
  BY <1>1, <1>2
<1>4. QED
  BY <1>2, <1>3

(* Two entries of a chain differ in rank. *)
LEMMA RankDiffers ==
  ASSUME NEW c \in Nat, NEW A, NEW r, Linked(A, c, r),
         NEW i \in 0..(c - 1), A[i].key # NoKey, NEW j \in 0..(c - 1), A[j].key # NoKey,
         Home(A, c, i) = Home(A, c, j), r[i] = r[j]
  PROVE  i = j
<1> DEFINE Twice(m) == \E x, y \in 0..(c - 1) : /\ A[x].key # NoKey /\ A[y].key # NoKey
                                                /\ Home(A, c, x) = Home(A, c, y)
                                                /\ r[x] = m /\ r[y] = m /\ x # y
           I == {m \in Nat : Twice(m)}
<1>1. SUFFICES I = {}
  <2>1. r[i] \in Nat
    BY LinkedEntry
  <2>2. i # j => Twice(r[i])
    OBVIOUS
  <2> HIDE DEF Twice
  <2>3. QED
    BY <2>1, <2>2
<1>2. SUFFICES ASSUME I # {} PROVE FALSE
  OBVIOUS
<1>3. PICK m \in I : \A n \in I : m <= n
  <2>1. I \in SUBSET Nat
    OBVIOUS
  <2> HIDE DEF I
  <2>2. QED
    BY <1>2, <2>1, LeastExists
<1>4. m \in Nat /\ Twice(m)
  OBVIOUS
<1>5. PICK x \in 0..(c - 1), y \in 0..(c - 1) :
        /\ A[x].key # NoKey /\ A[y].key # NoKey /\ Home(A, c, x) = Home(A, c, y)
        /\ r[x] = m /\ r[y] = m /\ x # y
  BY <1>4
<1>6. Behind(A, c, r, x) /\ Behind(A, c, r, y)
  BY <1>5, Neighbours
<1>7. PICK p, q : p = PrevOf(A, x) /\ q = PrevOf(A, y)
  OBVIOUS
<1>8. CASE m = 0
  <2>1. p = -1 /\ q = -1
    BY <1>5, <1>6, <1>7, <1>8 DEF Behind
  <2>2. x = Home(A, c, x) /\ y = Home(A, c, y)
    BY <1>6, <1>7, <2>1 DEF Behind
  <2>3. QED
    BY <1>5, <2>2
<1>9. CASE m # 0
  <2>1. /\ p \in 0..(c - 1) /\ A[p].key # NoKey /\ NextOf(A, p) = x
        /\ Home(A, c, p) = Home(A, c, x) /\ r[x] = r[p] + 1
        /\ q \in 0..(c - 1) /\ A[q].key # NoKey /\ NextOf(A, q) = y
        /\ Home(A, c, q) = Home(A, c, y) /\ r[y] = r[q] + 1
    BY <1>5, <1>6, <1>7, <1>9 DEF Behind
  <2>2. r[p] \in Nat /\ r[q] \in Nat
    BY <2>1, LinkedEntry
  <2>3. r[p] = m - 1 /\ r[q] = m - 1 /\ m - 1 \in Nat
    BY <1>5, <2>1, <2>2
  <2>4. Home(A, c, p) = Home(A, c, q) /\ p # q
    BY <1>5, <2>1
  <2>5. Twice(m - 1)
    BY <2>1, <2>3, <2>4
  <2>6. m - 1 \in I
    BY <2>3, <2>5
  <2>7. m <= m - 1
    <3> HIDE DEF I
    <3>1. QED
      BY <1>3, <2>6
  <2>8. QED
    BY <1>4, <2>7
<1>10. QED
  BY <1>8, <1>9

(* An entry has a rank less than the number of slots. *)
LEMMA RankBound ==
  ASSUME NEW c \in Nat, NEW A, NEW r, Linked(A, c, r), NEW i \in 0..(c - 1), A[i].key # NoKey
  PROVE  r[i] < c
<1>0. r[i] \in Nat /\ r \in [0..(c - 1) -> Nat]
  BY LinkedEntry DEF Linked
<1> DEFINE S == 0..(c - 1)
           V == {r[x] : x \in S}
<1>1. PICK f : f = [x \in S |-> r[x]]
  OBVIOUS
<1>2. f \in Surjection(S, V)
  BY <1>1 DEF Surjection
<1>3. IsFiniteSet(S) /\ Cardinality(S) = c
  <2>1. IsFiniteSet(0..(c - 1)) /\ Cardinality(0..(c - 1)) = IF 0 > c - 1 THEN 0 ELSE (c - 1) - 0 + 1
    <3>1. 0 \in Int /\ c - 1 \in Int
      OBVIOUS
    <3>2. QED
      BY <3>1, FS_Interval, Zenon
  <2>2. QED
    BY <2>1
<1> HIDE DEF S, V
<1>4. IsFiniteSet(V) /\ Cardinality(V) <= c
  BY <1>2, <1>3, FS_Surjection
<1>5. 0..r[i] \in SUBSET V
  <2>1. ASSUME NEW m \in 0..r[i] PROVE m \in V
    <3>1. PICK x \in 0..(c - 1) : r[x] = m
      BY RanksMet
    <3>2. QED
      BY <3>1 DEF V, S
  <2>2. QED
    BY <2>1
<1>6. Cardinality(0..r[i]) <= Cardinality(V)
  BY <1>4, <1>5, FS_Subset
<1>7. Cardinality(0..r[i]) = r[i] + 1
  <2>1. Cardinality(0..r[i]) = IF 0 > r[i] THEN 0 ELSE r[i] - 0 + 1
    <3>1. 0 \in Int /\ r[i] \in Int
      BY <1>0
    <3>2. QED
      BY <3>1, FS_Interval, Zenon
  <2>2. QED
    BY <1>0, <2>1
<1>8. Cardinality(V) \in Nat
  BY <1>4, FS_CardinalityType
<1>9. QED
  BY <1>0, <1>4, <1>6, <1>7, <1>8

(* f finds what SlotOf finds in up to c steps. *)
Walks(t, k, c, f) == \A n \in 0..c, x \in Int : f[n][x] = Step(t, k, f, n, x)

(* The search comes to the entry of the key, from every entry before it. *)
LEMMA SearchFinds ==
  ASSUME NEW c \in Nat, NEW t, t.capacity = c, NEW r, Linked(t.at, c, r), Once(t.at, c),
         NEW i \in 0..(c - 1), NEW k, k = t.at[i].key, k # NoKey,
         NEW f, Walks(t, k, c, f)
  PROVE  f[c][Home(t.at, c, i)] = i
<1>1. PICK A : A = t.at
  OBVIOUS
<1>2. /\ Linked(A, c, r) /\ Once(A, c) /\ A[i].key = k /\ r[i] \in Nat /\ r[i] < c
      /\ r \in [0..(c - 1) -> Nat]
  BY <1>1, LinkedEntry, RankBound DEF Linked
<1> DEFINE Found(d) == \A x \in 0..(c - 1) :
             /\ A[x].key # NoKey /\ Home(A, c, x) = Home(A, c, i)
             /\ r[x] + d = r[i]
             => f[c - r[x]][x] = i
           I == {d \in Nat : ~Found(d)}
<1>0. r[i] \in Nat
  BY <1>2
<1>3. I = {}
  <2> SUFFICES ASSUME I # {} PROVE FALSE
    OBVIOUS
  <2>1. PICK d \in I : \A j \in I : d <= j
    <3>1. I \in SUBSET Nat
      OBVIOUS
    <3> HIDE DEF I
    <3>2. QED
      BY <3>1, LeastExists
  <2>2. d \in Nat /\ ~Found(d)
    OBVIOUS
  <2>3. PICK x \in 0..(c - 1) :
          /\ A[x].key # NoKey /\ Home(A, c, x) = Home(A, c, i)
          /\ r[x] + d = r[i] /\ f[c - r[x]][x] # i
    BY <2>2
  <2>4. r[x] \in Nat
    BY <1>2, LinkedEntry
  <2> HIDE DEF Found, I
  <2>40. r[x] < c
    BY <1>2, <2>3, RankBound
  <2>41. c - r[x] \in 0..c /\ c - r[x] # 0 /\ (c - r[x]) - 1 \in 0..c
    BY <2>4, <2>40
  <2>5. PICK n \in 0..c : n = c - r[x] /\ n # 0 /\ n - 1 \in 0..c
    BY <2>41
  <2>6. f[n][x] = Step(t, k, f, n, x)
    BY <2>5 DEF Walks
  <2>7. x \in Slots(t) /\ t.at[x] = A[x]
    BY <1>1 DEF Slots
  <2>8. CASE d = 0
    <3>1. r[x] = r[i]
      BY <1>0, <2>3, <2>4, <2>8
    <3>20. Home(A, c, x) = Home(A, c, i) /\ A[x].key # NoKey /\ A[i].key # NoKey /\ Linked(A, c, r)
      BY <1>2, <2>3
    <3>2. x = i
      BY <3>1, <3>20, RankDiffers
    <3>3. Step(t, k, f, n, x) = x
      BY <1>2, <2>5, <2>7, <3>2 DEF Step
    <3>4. QED
      BY <2>3, <2>5, <2>6, <3>2, <3>3
  <2>9. CASE d # 0
    <3>0. r[x] + d = r[i]
      BY <2>3
    <3>1. PICK m \in 0..r[i] : m = r[x] + 1
      <4>1. r[x] + 1 \in 0..r[i]
        BY <1>0, <2>2, <2>4, <2>9, <3>0
      <4>2. QED
        BY <4>1
    <3>20. Linked(A, c, r) /\ A[i].key # NoKey
      BY <1>2
    <3>2. PICK y \in 0..(c - 1) : A[y].key # NoKey /\ Home(A, c, y) = Home(A, c, i) /\ r[y] = r[x] + 1
      BY <3>1, <3>20, RanksMet
    <3>3. PICK p : p = PrevOf(A, y)
      OBVIOUS
    <3>4. r[y] # 0
      BY <2>4, <3>2
    <3>5. Behind(A, c, r, y)
      BY <1>2, <3>2, Neighbours
    <3>6. /\ p \in 0..(c - 1) /\ A[p].key # NoKey /\ NextOf(A, p) = y
          /\ Home(A, c, p) = Home(A, c, y) /\ r[y] = r[p] + 1
      BY <3>3, <3>4, <3>5 DEF Behind
    <3>7. r[p] = r[x]
      <4>1. r[p] \in Nat
        BY <1>2, <3>6, LinkedEntry
      <4>2. QED
        BY <2>4, <3>2, <3>6, <4>1
    <3>8. p = x
      <4>1. Home(A, c, p) = Home(A, c, x)
        BY <2>3, <3>2, <3>6
      <4>2. A[p].key # NoKey /\ A[x].key # NoKey /\ p \in 0..(c - 1)
        BY <2>3, <3>6
      <4>3. QED
        BY <3>20, <3>7, <4>1, <4>2, RankDiffers
    <3>9. A[x].next # 0 /\ y = x + A[x].next
      BY <3>6, <3>8 DEF NextOf
    <3>10. A[x].key # k
      <4>1. x # i
        BY <1>0, <2>2, <2>9, <3>0
      <4>2. QED
        BY <1>2, <2>3, <4>1 DEF Once
    <3>11. Step(t, k, f, n, x) = f[n - 1][y]
      BY <2>5, <2>7, <3>9, <3>10 DEF Step, HasNext
    <3>12. d - 1 \in Nat /\ d - 1 \notin I
      <4>1. d - 1 \in Nat /\ ~(d <= d - 1)
        BY <2>2, <2>9
      <4> HIDE DEF I
      <4>2. QED
        BY <2>1, <4>1
    <3>13. Found(d - 1)
      BY <3>12 DEF I
    <3>140. r[y] = r[x] + 1
      BY <3>2
    <3>14. r[y] + (d - 1) = r[i] /\ c - r[y] = n - 1
      BY <1>0, <2>2, <2>4, <2>5, <3>0, <3>140
    <3>15. f[n - 1][y] = i
      BY <3>2, <3>13, <3>14 DEF Found
    <3>16. QED
      BY <2>3, <2>5, <2>6, <3>11, <3>15
  <2>10. QED
    BY <2>8, <2>9
<1>4. PICK h : h = Home(A, c, i)
  OBVIOUS
<1>5. h \in 0..(c - 1) /\ A[h].key # NoKey /\ Home(A, c, h) = h /\ r[h] = 0
  BY <1>2, <1>4, HeadUsed
<1>6. r[i] \in Nat /\ Found(r[i])
  BY <1>2, <1>3
<1>7. f[c - r[h]][h] = i
  BY <1>2, <1>4, <1>5, <1>6
<1>8. c - r[h] = c
  BY <1>5
<1>9. QED
  BY <1>1, <1>4, <1>7, <1>8

(* What it finds has the key. *)
Sound(t, k, c, f) ==
  \A n \in 0..c, x \in Int : f[n][x] = -1 \/ (f[n][x] \in 0..(c - 1) /\ t.at[f[n][x]].key = k)

(* A search that finds a slot finds one of its key.                        *)
LEMMA SearchSound ==
  ASSUME NEW c \in Nat, NEW t, t.capacity = c, NEW k, NEW f,
         Walks(t, k, c, f), \A x \in 0..(c - 1) : t.at[x].next \in Int
  PROVE  Sound(t, k, c, f)
<1> DEFINE Right(y) == y = -1 \/ (y \in 0..(c - 1) /\ t.at[y].key = k)
           All(n) == \A x \in Int : Right(f[n][x])
           I == {n \in Nat : n <= c /\ ~All(n)}
<1>1. I = {}
  <2> SUFFICES ASSUME I # {} PROVE FALSE
    OBVIOUS
  <2>1. PICK n \in I : \A j \in I : n <= j
    <3>1. I \in SUBSET Nat
      OBVIOUS
    <3> HIDE DEF I
    <3>2. QED
      BY <3>1, LeastExists
  <2>2. n \in Nat /\ n <= c /\ ~All(n)
    OBVIOUS
  <2>3. PICK x \in Int : ~Right(f[n][x])
    BY <2>2
  <2>4. f[n][x] = Step(t, k, f, n, x)
    <3>1. n \in 0..c
      BY <2>2
    <3>2. QED
      BY <3>1 DEF Walks
  <2>5. f[n][x] # -1
    BY <2>3
  <2>6. n # 0 /\ x \in 0..(c - 1)
    BY <2>4, <2>5 DEF Step, Slots
  <2>7. t.at[x].key # k
    <3>1. SUFFICES ASSUME t.at[x].key = k PROVE FALSE
      OBVIOUS
    <3>2. f[n][x] = x
      BY <2>4, <2>6, <3>1 DEF Step, Slots
    <3>3. QED
      BY <2>3, <2>6, <3>1, <3>2
  <2>8. PICK y : y = x + t.at[x].next
    OBVIOUS
  <2>9. f[n][x] = f[n - 1][y]
    BY <2>4, <2>5, <2>6, <2>7, <2>8 DEF Step, Slots
  <2>10. y \in Int
    BY <2>6, <2>8
  <2>11. n - 1 \in Nat /\ n - 1 <= c /\ n - 1 \notin I
    <3>1. n - 1 \in Nat /\ n - 1 <= c /\ ~(n <= n - 1)
      BY <2>2, <2>6
    <3> HIDE DEF I
    <3>2. QED
      BY <2>1, <3>1
  <2>12. All(n - 1)
    BY <2>11
  <2>13. QED
    <3> HIDE DEF Right
    <3>1. QED
      BY <2>3, <2>9, <2>10, <2>12
<1>2. \A n \in 0..c : n \in Nat /\ n <= c
  OBVIOUS
<1>3. \A n \in 0..c : All(n)
  BY <1>1, <1>2
<1>4. QED
  BY <1>3 DEF Sound

(* Looking for a key finds its slot, and nothing if there is none. *)
LEMMA SlotFound ==
  ASSUME NEW c \in Nat, NEW t \in Table(c), Chained(t.at, c), Once(t.at, c), NEW k \in Key
  PROVE  /\ \A i \in 0..(c - 1) : t.at[i].key = k /\ t.length # 0 => SlotOf(t, k) = i
         /\ SlotOf(t, k) = -1 \/ (SlotOf(t, k) \in 0..(c - 1) /\ t.at[SlotOf(t, k)].key = k)
<1>1. PICK r : Linked(t.at, c, r)
  BY DEF Chained
<1>2. t.capacity = c /\ t.at \in Arrays(c) /\ t.length \in 0..c
  BY TabIs
<1>3. PICK f : /\ Walks(t, k, c, f)
               /\ SlotOf(t, k) = IF t.length = 0 \/ HasPrev(t, HeadOf(t, k)) THEN -1
                                 ELSE f[c][HeadOf(t, k)]
  <2>1. t.capacity \in Nat
    BY <1>2
  <2>2. PICK f : /\ \A n \in 0..t.capacity, i \in Int : f[n][i] = Step(t, k, f, n, i)
                 /\ SlotOf(t, k) = IF t.length = 0 \/ HasPrev(t, HeadOf(t, k)) THEN -1
                                   ELSE f[t.capacity][HeadOf(t, k)]
    BY <2>1, SlotOfIs
  <2>3. Walks(t, k, t.capacity, f)
    BY <2>2, Zenon DEF Walks
  <2>4. Walks(t, k, c, f)
    BY <1>2, <2>3
  <2>5. SlotOf(t, k) = IF t.length = 0 \/ HasPrev(t, HeadOf(t, k)) THEN -1 ELSE f[c][HeadOf(t, k)]
    BY <1>2, <2>2
  <2>6. QED
    BY <2>4, <2>5
<1>4. k # NoKey
  BY TableAssumption
<1>5. ASSUME NEW i \in 0..(c - 1), t.at[i].key = k, t.length # 0 PROVE SlotOf(t, k) = i
  <2>1. f[c][Home(t.at, c, i)] = i
    BY <1>1, <1>2, <1>3, <1>4, <1>5, SearchFinds
  <2>2. PICK h : h = Home(t.at, c, i)
    OBVIOUS
  <2>3. h \in 0..(c - 1) /\ PrevOf(t.at, h) = -1
    BY <1>1, <1>4, <1>5, <2>2, HeadUsed
  <2>4. HeadOf(t, k) = h
    BY <1>2, <1>5, <2>2 DEF HeadOf, Home
  <2>5. t.at[h].prev = 0
    BY <1>1, <2>3, LinkedEntry, PlainIs
  <2>6. ~HasPrev(t, HeadOf(t, k))
    BY <2>4, <2>5 DEF HasPrev
  <2>7. QED
    BY <1>3, <1>5, <2>1, <2>2, <2>4, <2>6
<1>6. SlotOf(t, k) = -1 \/ (SlotOf(t, k) \in 0..(c - 1) /\ t.at[SlotOf(t, k)].key = k)
  <2>1. SUFFICES ASSUME SlotOf(t, k) # -1
                 PROVE  SlotOf(t, k) \in 0..(c - 1) /\ t.at[SlotOf(t, k)].key = k
    OBVIOUS
  <2>2. SlotOf(t, k) = f[c][HeadOf(t, k)] /\ t.length # 0
    BY <1>3, <2>1
  <2>3. c \in Nat \ {0}
    BY <1>2, <2>2
  <2>4. HeadOf(t, k) \in Int
    BY <1>2, <2>3, HomeIn DEF HeadOf
  <2>5. \A x \in 0..(c - 1) : t.at[x].next \in Int
    BY <1>2, ArrayEntry, FieldTypes
  <2>6. Sound(t, k, c, f)
    BY <1>2, <1>3, <2>5, SearchSound
  <2>7. c \in 0..c
    OBVIOUS
  <2>8. QED
    BY <2>1, <2>2, <2>4, <2>6, <2>7 DEF Sound
<1>7. QED
  BY <1>5, <1>6

-----------------------------------------------------------------------------
(* What the array holds.                                                   *)

Hold(A, c, k, v) == \E i \in 0..(c - 1) : A[i].key = k /\ A[i].val = v
InArray(A, c) == {k \in Key : \E i \in 0..(c - 1) : A[i].key = k}

SamePair(A, B, x) == B[x].key = A[x].key /\ B[x].val = A[x].val

(* B is A with a pair in its free slot m, with the pair at src moved to    *)
(* the free slot dst, or without the pair at i.                            *)
AddAt(c, A, B, m, k, v) ==
  /\ A[m].key = NoKey /\ B[m].key = k /\ B[m].val = v
  /\ \A x \in 0..(c - 1) : x # m => SamePair(A, B, x)
Shift(c, A, B, dst, src) ==
  /\ A[dst].key = NoKey /\ B[src].key = NoKey
  /\ B[dst].key = A[src].key /\ B[dst].val = A[src].val
  /\ \A x \in 0..(c - 1) : x # dst /\ x # src => SamePair(A, B, x)
DropAt(c, A, B, i) ==
  /\ B[i].key = NoKey
  /\ \A x \in 0..(c - 1) : x # i => SamePair(A, B, x)

Adds(c, A, B, k, v) ==
  \A x \in Key, w \in Val \cup {NoVal} : Hold(B, c, x, w) <=> Hold(A, c, x, w) \/ (x = k /\ w = v)
Keeps(c, A, B) ==
  \A x \in Key, w \in Val \cup {NoVal} : Hold(B, c, x, w) <=> Hold(A, c, x, w)
Loses(c, A, B, k) ==
  \A x \in Key, w \in Val \cup {NoVal} : Hold(B, c, x, w) <=> Hold(A, c, x, w) /\ x # k

(* A pair that is put in a free slot is one more pair of the array.        *)
LEMMA AddsPair ==
  ASSUME NEW c, NEW A, NEW B, NEW m \in 0..(c - 1), NEW k \in Key, NEW v,
         AddAt(c, A, B, m, k, v), Once(A, c), k \notin InArray(A, c)
  PROVE  Once(B, c) /\ Adds(c, A, B, k, v)
<1>1. NoKey \notin Key
  BY TableAssumption
<1>2. \A x \in 0..(c - 1) : A[x].key # k
  BY DEF InArray
<1>3. Once(B, c)
  <2>1. SUFFICES ASSUME NEW i \in 0..(c - 1), NEW j \in 0..(c - 1), B[i].key # NoKey, B[i].key = B[j].key
                 PROVE  i = j
    BY DEF Once
  <2>2. CASE i # m /\ j # m
    BY <2>1, <2>2 DEF AddAt, Once, SamePair
  <2>3. CASE i = m
    BY <1>2, <2>1, <2>3 DEF AddAt, SamePair
  <2>4. CASE j = m
    BY <1>2, <2>1, <2>4 DEF AddAt, SamePair
  <2>5. QED
    BY <2>2, <2>3, <2>4
<1>4. ASSUME NEW x \in Key, NEW w PROVE Hold(B, c, x, w) <=> Hold(A, c, x, w) \/ (x = k /\ w = v)
  <2>1. ASSUME Hold(B, c, x, w) PROVE Hold(A, c, x, w) \/ (x = k /\ w = v)
    BY <2>1 DEF Hold, AddAt, SamePair
  <2>2. ASSUME Hold(A, c, x, w) PROVE Hold(B, c, x, w)
    BY <1>1, <2>2 DEF Hold, AddAt, SamePair
  <2>3. ASSUME x = k, w = v PROVE Hold(B, c, x, w)
    BY <2>3 DEF Hold, AddAt
  <2>4. QED
    BY <2>1, <2>2, <2>3
<1>5. Adds(c, A, B, k, v)
  BY <1>4 DEF Adds
<1>6. QED
  BY <1>3, <1>5

(* Moving an entry leaves the pairs as they are.                           *)
LEMMA ShiftsPair ==
  ASSUME NEW c, NEW A, NEW B, NEW dst \in 0..(c - 1), NEW src \in 0..(c - 1), dst # src,
         Shift(c, A, B, dst, src), Once(A, c)
  PROVE  Once(B, c) /\ Keeps(c, A, B)
<1>1. NoKey \notin Key
  BY TableAssumption
<1>2. Once(B, c)
  <2>1. SUFFICES ASSUME NEW i \in 0..(c - 1), NEW j \in 0..(c - 1), B[i].key # NoKey, B[i].key = B[j].key
                 PROVE  i = j
    BY DEF Once
  <2>2. i # src /\ j # src
    BY <2>1 DEF Shift
  <2>3. CASE i # dst /\ j # dst
    BY <2>1, <2>2, <2>3 DEF Shift, Once, SamePair
  <2>4. CASE i = dst /\ j # dst
    BY <2>1, <2>2, <2>4 DEF Shift, Once, SamePair
  <2>5. CASE j = dst /\ i # dst
    BY <2>1, <2>2, <2>5 DEF Shift, Once, SamePair
  <2>6. QED
    BY <2>3, <2>4, <2>5
<1>3. ASSUME NEW x \in Key, NEW w PROVE Hold(B, c, x, w) <=> Hold(A, c, x, w)
  <2>1. ASSUME Hold(B, c, x, w) PROVE Hold(A, c, x, w)
    <3>1. PICK i \in 0..(c - 1) : B[i].key = x /\ B[i].val = w
      BY <2>1 DEF Hold
    <3>2. i # src
      BY <1>1, <3>1 DEF Shift
    <3>3. CASE i = dst
      BY <3>1, <3>3 DEF Shift, Hold
    <3>4. CASE i # dst
      BY <3>1, <3>2, <3>4 DEF Shift, Hold, SamePair
    <3>5. QED
      BY <3>3, <3>4
  <2>2. ASSUME Hold(A, c, x, w) PROVE Hold(B, c, x, w)
    <3>1. PICK i \in 0..(c - 1) : A[i].key = x /\ A[i].val = w
      BY <2>2 DEF Hold
    <3>2. i # dst
      BY <1>1, <3>1 DEF Shift
    <3>3. CASE i = src
      BY <3>1, <3>3 DEF Shift, Hold
    <3>4. CASE i # src
      BY <3>1, <3>2, <3>4 DEF Shift, Hold, SamePair
    <3>5. QED
      BY <3>3, <3>4
  <2>3. QED
    BY <2>1, <2>2
<1>4. Keeps(c, A, B)
  BY <1>3 DEF Keeps
<1>5. QED
  BY <1>2, <1>4

(* Emptying a slot takes its pair away and no other.                       *)
LEMMA DropsPair ==
  ASSUME NEW c, NEW A, NEW B, NEW i \in 0..(c - 1), DropAt(c, A, B, i), Once(A, c), A[i].key # NoKey
  PROVE  Once(B, c) /\ Loses(c, A, B, A[i].key)
<1>1. NoKey \notin Key
  BY TableAssumption
<1>2. Once(B, c)
  BY DEF Once, DropAt, SamePair
<1>3. ASSUME NEW x \in Key, NEW w PROVE Hold(B, c, x, w) <=> Hold(A, c, x, w) /\ x # A[i].key
  <2>1. ASSUME Hold(B, c, x, w) PROVE Hold(A, c, x, w) /\ x # A[i].key
    <3>1. PICK j \in 0..(c - 1) : B[j].key = x /\ B[j].val = w
      BY <2>1 DEF Hold
    <3>2. j # i
      BY <1>1, <3>1 DEF DropAt
    <3>3. A[j].key = x /\ A[j].val = w
      BY <3>1, <3>2 DEF DropAt, SamePair
    <3>4. x # A[i].key
      BY <3>2, <3>3 DEF Once
    <3>5. QED
      BY <3>3, <3>4 DEF Hold
  <2>2. ASSUME Hold(A, c, x, w), x # A[i].key PROVE Hold(B, c, x, w)
    BY <2>2 DEF Hold, DropAt, SamePair
  <2>3. QED
    BY <2>1, <2>2
<1>4. Loses(c, A, B, A[i].key)
  BY <1>3 DEF Loses
<1>5. QED
  BY <1>2, <1>4

(* The same of the keys alone, and of their number. *)
LEMMA KeysOf ==
  ASSUME NEW c \in Nat, NEW A \in Arrays(c), NEW B \in Arrays(c)
  PROVE  /\ \A k \in Key, v \in Val \cup {NoVal} : Adds(c, A, B, k, v) => InArray(B, c) = InArray(A, c) \cup {k}
         /\ Keeps(c, A, B) => InArray(B, c) = InArray(A, c)
         /\ \A k : Loses(c, A, B, k) => InArray(B, c) = InArray(A, c) \ {k}
<1>1. ASSUME NEW C \in Arrays(c), NEW k \in Key
      PROVE  k \in InArray(C, c) <=> \E v \in Val \cup {NoVal} : Hold(C, c, k, v)
  <2>1. \A i \in 0..(c - 1) : C[i].val \in Val \cup {NoVal}
    BY ArrayEntry, FieldTypes
  <2>2. QED
    BY <2>1 DEF InArray, Hold
<1>2. InArray(A, c) \subseteq Key /\ InArray(B, c) \subseteq Key
  BY DEF InArray
<1>3. ASSUME NEW k \in Key, NEW v \in Val \cup {NoVal}, Adds(c, A, B, k, v)
      PROVE  InArray(B, c) = InArray(A, c) \cup {k}
  BY <1>1, <1>2, <1>3 DEF Adds
<1>4. Keeps(c, A, B) => InArray(B, c) = InArray(A, c)
  BY <1>1, <1>2 DEF Keeps
<1>5. ASSUME NEW k, Loses(c, A, B, k) PROVE InArray(B, c) = InArray(A, c) \ {k}
  BY <1>1, <1>2, <1>5 DEF Loses
<1>6. QED
  BY <1>3, <1>4, <1>5

(* Two distances between the same slots are equal.                         *)
LEMMA SameDistance ==
  ASSUME NEW x \in Int, NEW y \in Int, NEW a \in Int, NEW b \in Int
  PROVE  (x = y + a /\ y = x - b => a = b) /\ (x = y - a /\ y = x + b => a = b)
OBVIOUS

(* The fields of an entry and of its neighbours. *)
PrevEntry(A, c, i) ==
  A[i].prev # 0 => LET p == i - A[i].prev
                   IN  p \in 0..(c - 1) /\ p # i /\ A[p].next = A[i].prev
NextEntry(A, c, i) ==
  A[i].next # 0 => LET n == i + A[i].next
                   IN  n \in 0..(c - 1) /\ n # i /\ A[n].prev = A[i].next

(* The links of an entry as the numbers the code computes with.            *)
LEMMA EntryLinks ==
  ASSUME NEW c \in Nat, NEW A, Chained(A, c), NEW i \in 0..(c - 1), A[i].key # NoKey
  PROVE  PrevEntry(A, c, i) /\ NextEntry(A, c, i)
<1>1. PICK r : Linked(A, c, r)
  BY DEF Chained
<1>2. A \in Arrays(c) /\ \A x \in 0..(c - 1) : Plain(A, x)
  BY <1>1 DEF Linked
<1>3. PICK p : p = PrevOf(A, i)
  OBVIOUS
<1>4. PICK n : n = NextOf(A, i)
  OBVIOUS
<1>5. Behind(A, c, r, i) /\ InFront(A, c, r, i)
  BY <1>1, Neighbours
<1>6. /\ p = IF A[i].prev = 0 THEN -1 ELSE i - A[i].prev
      /\ A[i].prev = 0 <=> p = -1
      /\ n = IF A[i].next = 0 THEN -1 ELSE i + A[i].next
      /\ A[i].next = 0 <=> n = -1
  BY <1>2, <1>3, <1>4, PlainIs
<1>7. A[i].prev \in Int /\ A[i].next \in Int
  BY <1>2, ArrayEntry, FieldTypes
<1>8. PrevEntry(A, c, i)
  <2>1. SUFFICES ASSUME A[i].prev # 0
                 PROVE  p \in 0..(c - 1) /\ p # i /\ A[p].next = A[i].prev
    BY <1>6 DEF PrevEntry
  <2>2. p \in 0..(c - 1) /\ p # i /\ NextOf(A, p) = i /\ p = i - A[i].prev
    BY <1>3, <1>5, <1>6, <2>1 DEF Behind
  <2>3. Plain(A, p) /\ A[p].next \in Int
    BY <1>2, <2>2, ArrayEntry, FieldTypes
  <2>4. i # -1
    OBVIOUS
  <2>5. i = p + A[p].next
    BY <2>2, <2>3, <2>4, PlainIs
  <2>6. A[p].next = A[i].prev
    <3>1. p \in Int /\ i \in Int
      BY <2>2
    <3>2. PICK a \in Int : a = A[p].next
      BY <2>3
    <3>3. PICK b \in Int : b = A[i].prev
      BY SMTT(30), <1>7
    <3>4. i = p + a /\ p = i - b
      BY <2>2, <2>5, <3>2, <3>3
    <3>5. a = b
      BY <3>1, <3>4, SameDistance
    <3>6. QED
      BY <3>2, <3>3, <3>5
  <2>7. QED
    BY <2>2, <2>6
<1>9. NextEntry(A, c, i)
  <2>1. SUFFICES ASSUME A[i].next # 0
                 PROVE  n \in 0..(c - 1) /\ n # i /\ A[n].prev = A[i].next
    BY <1>6 DEF NextEntry
  <2>2. n \in 0..(c - 1) /\ n # i /\ PrevOf(A, n) = i /\ n = i + A[i].next
    BY <1>4, <1>5, <1>6, <2>1 DEF InFront
  <2>3. Plain(A, n) /\ A[n].prev \in Int
    BY <1>2, <2>2, ArrayEntry, FieldTypes
  <2>4. i # -1
    OBVIOUS
  <2>5. i = n - A[n].prev
    BY <2>2, <2>3, <2>4, PlainIs
  <2>6. A[n].prev = A[i].next
    <3>1. n \in Int /\ i \in Int
      BY <2>2
    <3>2. PICK a \in Int : a = A[n].prev
      BY <2>3
    <3>3. PICK b \in Int : b = A[i].next
      BY SMTT(30), <1>7
    <3>4. i = n - a /\ n = i + b
      BY <2>2, <2>5, <3>2, <3>3
    <3>5. a = b
      BY <3>1, <3>4, SameDistance
    <3>6. QED
      BY <3>2, <3>3, <3>5
  <2>7. QED
    BY <2>2, <2>6
<1>10. QED
  BY <1>8, <1>9

(* movety in a table with chains. *)
LEMMA MoveIs ==
  ASSUME NEW c \in Nat, NEW len, NEW last, NEW A, Chained(A, c), NEW t, t = Tab(c, len, last, A),
         NEW dst \in 0..(c - 1), NEW src \in 0..(c - 1), dst # src, A[src].key # NoKey,
         NextOf(A, src) # dst
  PROVE  \E B : MoveEntry(t, dst, src) = Tab(c, len, last, B) /\ MovedTo(c, A, dst, src, B)
<1>1. PICK r : Linked(A, c, r)
  BY DEF Chained
<1>2. A \in Arrays(c) /\ t.at = A /\ \A x \in 0..(c - 1) : Plain(A, x)
  BY <1>1, TabFields DEF Linked
<1>3. PICK p : p = PrevOf(A, src)
  OBVIOUS
<1>4. PICK n : n = NextOf(A, src)
  OBVIOUS
<1>5. (p = -1 \/ p # n) /\ n # dst
  BY <1>1, <1>3, <1>4, Neighbours
<1>6. /\ p = IF A[src].prev = 0 THEN -1 ELSE src - A[src].prev
      /\ A[src].prev = 0 <=> p = -1
      /\ n = IF A[src].next = 0 THEN -1 ELSE src + A[src].next
      /\ A[src].next = 0 <=> n = -1
  BY <1>2, <1>3, <1>4, PlainIs
<1>8. A[src].prev # 0 => LET q == src - A[src].prev
                         IN  q \in 0..(c - 1) /\ q # src /\ A[q].next = A[src].prev
  BY EntryLinks DEF PrevEntry
<1>9. A[src].next # 0 => LET q == src + A[src].next
                         IN  q \in 0..(c - 1) /\ q # src /\ q # dst /\ A[q].prev = A[src].next
  <2>1. A[src].next # 0 => n = src + A[src].next
    BY <1>6
  <2>2. QED
    BY <1>5, <2>1, EntryLinks DEF NextEntry
<1>10. A[src].prev # 0 /\ A[src].next # 0 => src - A[src].prev # src + A[src].next
  BY <1>5, <1>6
<1>11. PICK B : B = Moved(A, dst, src, A[src], src - A[src].prev, src + A[src].next)
  OBVIOUS
<1>12. MoveEntry(t, dst, src) = [t EXCEPT !.at = B]
  BY SMTT(30), <1>2, <1>8, <1>9, <1>10, <1>11, MoveEntryIs
<1>13. MoveEntry(t, dst, src) = Tab(c, len, last, B)
  BY <1>12, TabWith
<1>14. MovedTo(c, A, dst, src, B)
  BY <1>2, <1>3, <1>4, <1>5, <1>11, MovedLinks
<1>15. QED
  BY <1>13, <1>14

(* No slot behind last is free. *)
AllBelow(A, c, last) == \A x \in 0..(c - 1) : A[x].key = NoKey => x <= last

(* newety finds the highest free slot below lastfree.                      *)
LEMMA NewSlotIs ==
  ASSUME NEW c \in Nat, NEW len, NEW last \in -1..(c - 1), NEW A, NEW t, t = Tab(c, len, last, A),
         FreeBelow(t) # {}
  PROVE  /\ NewSlot(t) \in 0..(c - 1) /\ A[NewSlot(t)].key = NoKey
         /\ AllBelow(A, c, last) => AllBelow(A, c, NewSlot(t))
<1>1. t.capacity = c /\ t.lastfree = last /\ t.at = A
  BY TabFields
<1>2. PICK S : S = FreeBelow(t)
  OBVIOUS
<1>3. S = {x \in 0..(c - 1) : A[x].key = NoKey /\ x <= last}
  BY <1>1, <1>2 DEF FreeBelow, FreeSlots, Slots, IsFree
<1>4. \E x \in S : \A y \in S : x >= y
  <2> DEFINE I == {(c - 1) - x : x \in S}
  <2>1. I \in SUBSET Nat /\ I # {}
    BY <1>2, <1>3
  <2>2. PICK m \in I : \A n \in I : m <= n
    <3> HIDE DEF I
    <3>1. QED
      BY <2>1, LeastExists
  <2>3. PICK x \in S : m = (c - 1) - x
    BY <2>2
  <2>4. \A y \in S : (c - 1) - x <= (c - 1) - y
    BY <2>2, <2>3
  <2>5. \A y \in S : y \in Int
    BY <1>3
  <2>6. \A y \in S : x >= y
    BY <2>4, <2>5
  <2>7. QED
    BY <2>6
<1>5. PICK m : m = NewSlot(t)
  OBVIOUS
<1>6. m = CHOOSE x \in S : \A y \in S : x >= y
  BY <1>2, <1>5 DEF NewSlot, Max
<1>7. m \in S /\ \A y \in S : m >= y
  BY <1>4, <1>6
<1>8. m \in 0..(c - 1) /\ A[m].key = NoKey
  BY <1>3, <1>7
<1>9. ASSUME AllBelow(A, c, last) PROVE AllBelow(A, c, m)
  <2>1. SUFFICES ASSUME NEW x \in 0..(c - 1), A[x].key = NoKey PROVE x <= m
    BY DEF AllBelow
  <2>2. x \in S
    BY <1>3, <1>9, <2>1 DEF AllBelow
  <2>3. QED
    BY <1>7, <1>8, <2>2
<1>10. QED
  BY <1>5, <1>8, <1>9

(* putety, and the value stored in the slot it returns. *)
Placed(c, len, A, last, k, v, u, last2, B) ==
  /\ u = Tab(c, len, last2, B) /\ last2 \in -1..(c - 1)
  /\ Chained(B, c) /\ Once(B, c) /\ Adds(c, A, B, k, v)
  /\ AllBelow(A, c, last) => AllBelow(B, c, last2)

(* An entry of the table, or an empty slot. *)
LEMMA ChainedIs ==
  ASSUME NEW c, NEW A, Chained(A, c)
  PROVE  /\ A \in Arrays(c) /\ \A x \in 0..(c - 1) : Plain(A, x)
         /\ \A x \in 0..(c - 1) : A[x].key = NoKey => A[x] = Empty
<1>1. PICK r : Linked(A, c, r)
  BY DEF Chained
<1>2. QED
  BY <1>1 DEF Linked

(* aloH_find puts a new key in the slot its hash leads to when it is free. *)
LEMMA PlaceFree ==
  ASSUME NEW c \in Nat \ {0}, NEW len, NEW last \in -1..(c - 1), NEW A, Chained(A, c), Once(A, c),
         NEW t, t = Tab(c, len, last, A), NEW k \in Key, NEW v \in Val \cup {NoVal},
         k \notin InArray(A, c), NEW h \in 0..(c - 1), h = Hash[k] % c, A[h].key = NoKey
  PROVE  \E last2, B : Placed(c, len, A, last, k, v, SetPair(t, h, k, v), last2, B)
<1>1. PICK B : B = Filled(A, h, k, v)
  OBVIOUS
<1>2. SetPair(t, h, k, v) = Tab(c, len, last, B)
  BY <1>1, SetPairIs
<1>3. c \in Nat /\ NoKey \notin Key
  BY TableAssumption
<1>4. Chained(B, c)
  BY <1>1, <1>3, FilledLinked
<1>5. A \in Arrays(c)
  BY ChainedIs
<1>6. AddAt(c, A, B, h, k, v)
  BY <1>1, <1>3, <1>5, FilledIs DEF AddAt, SamePair
<1>7. Once(B, c) /\ Adds(c, A, B, k, v)
  BY <1>6, AddsPair
<1>8. AllBelow(A, c, last) => AllBelow(B, c, last)
  BY <1>3, <1>6 DEF AllBelow, AddAt, SamePair
<1>9. QED
  BY <1>2, <1>4, <1>7, <1>8 DEF Placed

(* A new key whose slot is held by a key of the same chain is linked       *)
(* behind it.                                                              *)
LEMMA PlaceBehind ==
  ASSUME NEW c \in Nat \ {0}, NEW len, NEW last \in -1..(c - 1), NEW A, Chained(A, c), Once(A, c),
         NEW t, t = Tab(c, len, last, A), NEW k \in Key, NEW v \in Val \cup {NoVal},
         k \notin InArray(A, c), NEW h \in 0..(c - 1), h = Hash[k] % c, A[h].key # NoKey,
         PrevOf(A, h) = -1, FreeBelow(t) # {}
  PROVE  \E last2, B : Placed(c, len, A, last, k, v, SetPair(LinkAfter(t, h), NewSlot(t), k, v), last2, B)
<1>1. c \in Nat /\ NoKey \notin Key
  BY TableAssumption
<1>2. PICK new : new = NewSlot(t)
  OBVIOUS
<1>3. new \in 0..(c - 1) /\ A[new].key = NoKey /\ (AllBelow(A, c, last) => AllBelow(A, c, new))
  BY <1>1, <1>2, NewSlotIs
<1>4. /\ A \in Arrays(c) /\ \A x \in 0..(c - 1) : Plain(A, x)
      /\ A[new] = Empty /\ new # h
  BY <1>3, ChainedIs
<1>5. NextEntry(A, c, h)
  BY <1>1, EntryLinks
<1>6. A[h].next # 0 => LET n == h + A[h].next
                       IN  n \in 0..(c - 1) /\ n # h /\ n # new /\ A[n].prev = A[h].next
  <2>1. SUFFICES ASSUME A[h].next # 0 PROVE h + A[h].next # new
    BY <1>5 DEF NextEntry
  <2>2. A[h + A[h].next].prev # 0
    BY <1>5, <2>1 DEF NextEntry
  <2>3. A[new].prev = 0
    BY <1>4, EmptyIs
  <2>4. QED
    BY <2>2, <2>3
<1>7. PICK B : B = Inserted(A, h, new, k, v, A[h], h + A[h].next)
  OBVIOUS
<1>8. SetPair(LinkAfter(t, h), new, k, v) = Tab(c, len, new - 1, B)
  BY <1>1, <1>2, <1>3, <1>4, <1>6, <1>7, LinkAfterIs
<1>9. PICK n : n = NextOf(A, h)
  OBVIOUS
<1>10. n # h /\ n # new
  <2>1. h # -1 /\ new # -1
    BY <1>3
  <2>2. n = IF A[h].next = 0 THEN -1 ELSE h + A[h].next
    BY <1>9 DEF NextOf
  <2>3. QED
    BY <1>6, <2>1, <2>2
<1>11. AddedBehind(c, A, h, new, k, v, B)
  BY <1>1, <1>3, <1>4, <1>7, <1>9, <1>10, InsertedLinks
<1>12. Chained(B, c)
  BY <1>1, <1>3, <1>11, InsertedLinked
<1>13. AddAt(c, A, B, new, k, v)
  BY <1>3, <1>11 DEF AddAt, AddedBehind, SamePair
<1>14. Once(B, c) /\ Adds(c, A, B, k, v)
  BY <1>3, <1>13, AddsPair
<1>15. ASSUME AllBelow(A, c, last) PROVE AllBelow(B, c, new - 1)
  <2>1. SUFFICES ASSUME NEW x \in 0..(c - 1), B[x].key = NoKey PROVE x <= new - 1
    BY DEF AllBelow
  <2>2. x # new
    BY <1>1, <1>13, <2>1 DEF AddAt
  <2>3. A[x].key = NoKey
    BY <1>13, <2>1, <2>2 DEF AddAt, SamePair
  <2>4. x <= new
    BY <1>3, <1>15, <2>3 DEF AllBelow
  <2>5. QED
    BY <1>3, <2>2, <2>4
<1>16. new - 1 \in -1..(c - 1)
  BY <1>3
<1>17. QED
  BY <1>2, <1>8, <1>12, <1>14, <1>15, <1>16 DEF Placed

(* A new key whose slot is held by a key of another chain takes it, and    *)
(* that one is moved to a free slot.                                       *)
LEMMA PlaceInstead ==
  ASSUME NEW c \in Nat \ {0}, NEW len, NEW last \in -1..(c - 1), NEW A, Chained(A, c), Once(A, c),
         NEW t, t = Tab(c, len, last, A), NEW k \in Key, NEW v \in Val \cup {NoVal},
         k \notin InArray(A, c), NEW h \in 0..(c - 1), h = Hash[k] % c, A[h].key # NoKey,
         PrevOf(A, h) # -1, FreeBelow(t) # {}
  PROVE  \E last2, B :
           Placed(c, len, A, last, k, v, SetPair(MoveEntry(TakeSlot(t), NewSlot(t), h), h, k, v), last2, B)
<1>1. c \in Nat /\ NoKey \notin Key
  BY TableAssumption
<1>2. PICK new : new = NewSlot(t)
  OBVIOUS
<1>3. new \in 0..(c - 1) /\ A[new].key = NoKey /\ (AllBelow(A, c, last) => AllBelow(A, c, new))
  BY <1>1, <1>2, NewSlotIs
<1>4. TakeSlot(t) = Tab(c, len, new - 1, A)
  BY <1>2, TakeSlotIs
<1>5. new # h
  BY <1>3
<1>6. NextOf(A, h) # new
  <2>1. PICK r : Linked(A, c, r)
    BY DEF Chained
  <2>2. QED
    BY <1>3, <2>1, FreeLinks
<1>7. PICK M : MoveEntry(TakeSlot(t), new, h) = Tab(c, len, new - 1, M) /\ MovedTo(c, A, new, h, M)
  <2>1. PICK u : u = TakeSlot(t)
    OBVIOUS
  <2>2. \E M : MoveEntry(u, new, h) = Tab(c, len, new - 1, M) /\ MovedTo(c, A, new, h, M)
    BY <1>1, <1>3, <1>4, <1>5, <1>6, <2>1, MoveIs
  <2>3. QED
    BY <2>1, <2>2
<1>8. Chained(M, c)
  BY <1>1, <1>3, <1>7, MovedLinked
<1>9. M[h].key = NoKey
  BY <1>7, EmptyIs DEF MovedTo
<1>10. Shift(c, A, M, new, h)
  BY <1>3, <1>7, <1>9 DEF Shift, MovedTo, SamePair
<1>11. Once(M, c) /\ Keeps(c, A, M)
  BY <1>3, <1>5, <1>10, ShiftsPair
<1>12. PICK B : B = Filled(M, h, k, v)
  OBVIOUS
<1>13. SetPair(MoveEntry(TakeSlot(t), new, h), h, k, v) = Tab(c, len, new - 1, B)
  BY <1>7, <1>12, SetPairIs
<1>14. Chained(B, c)
  BY <1>1, <1>8, <1>9, <1>12, FilledLinked
<1>15. AddAt(c, M, B, h, k, v)
  <2>1. M \in Arrays(c)
    BY <1>8, ChainedIs
  <2>2. QED
    BY <1>1, <1>9, <1>12, <2>1, FilledIs DEF AddAt, SamePair
<1>16. k \notin InArray(M, c)
  <2>1. A \in Arrays(c) /\ M \in Arrays(c)
    BY <1>8, ChainedIs
  <2>2. InArray(M, c) = InArray(A, c)
    BY <1>1, <1>11, <2>1, KeysOf
  <2>3. QED
    BY <2>2
<1>17. Once(B, c) /\ Adds(c, M, B, k, v)
  BY <1>11, <1>15, <1>16, AddsPair
<1>18. Adds(c, A, B, k, v)
  BY <1>11, <1>17 DEF Adds, Keeps
<1>19. ASSUME AllBelow(A, c, last) PROVE AllBelow(B, c, new - 1)
  <2>1. SUFFICES ASSUME NEW x \in 0..(c - 1), B[x].key = NoKey PROVE x <= new - 1
    BY DEF AllBelow
  <2>2. x # h /\ M[x].key = NoKey
    BY <1>1, <1>15, <2>1 DEF AddAt, SamePair
  <2>3. x # new
    <3>1. M[new].key = A[h].key
      BY <1>10 DEF Shift
    <3>2. QED
      BY <2>2, <3>1
  <2>4. A[x].key = NoKey
    BY <1>10, <2>2, <2>3 DEF Shift, SamePair
  <2>5. x <= new
    BY <1>3, <1>19, <2>4 DEF AllBelow
  <2>6. QED
    BY <1>3, <2>3, <2>5
<1>20. new - 1 \in -1..(c - 1)
  BY <1>3
<1>21. QED
  BY <1>2, <1>13, <1>14, <1>17, <1>18, <1>19, <1>20 DEF Placed

(* The three ways a new key is placed keep the chains and add the pair.    *)
LEMMA PlaceIs ==
  ASSUME NEW c \in Nat \ {0}, NEW len, NEW last \in -1..(c - 1), NEW A, Chained(A, c), Once(A, c),
         NEW t, t = Tab(c, len, last, A), NEW k \in Key, NEW v \in Val \cup {NoVal},
         k \notin InArray(A, c), A[Hash[k] % c].key = NoKey \/ FreeBelow(t) # {}
  PROVE  \E last2, B : Placed(c, len, A, last, k, v, Place(t, k, v), last2, B)
<1>1. PICK h \in 0..(c - 1) : h = Hash[k] % c
  BY HomeIn
<1>2. t.capacity = c /\ t.at = A
  BY TabFields
<1>3. HeadOf(t, k) = h
  BY <1>1, <1>2 DEF HeadOf
<1>4. IsFree(t, h) <=> A[h].key = NoKey
  BY <1>2 DEF IsFree
<1>5. HasPrev(t, h) <=> PrevOf(A, h) # -1
  <2>1. Plain(A, h)
    BY ChainedIs
  <2>2. QED
    BY <1>2, <2>1, PlainIs DEF HasPrev
<1>6. Place(t, k, v) = IF IsFree(t, h) THEN SetPair(t, h, k, v)
                       ELSE IF ~HasPrev(t, h) THEN SetPair(LinkAfter(t, h), NewSlot(t), k, v)
                       ELSE SetPair(MoveEntry(TakeSlot(t), NewSlot(t), h), h, k, v)
  BY <1>3, Zenon DEF Place
<1>7. CASE A[h].key = NoKey
  <2>1. Place(t, k, v) = SetPair(t, h, k, v)
    BY <1>4, <1>6, <1>7
  <2>2. \E last2, B : Placed(c, len, A, last, k, v, SetPair(t, h, k, v), last2, B)
    BY <1>1, <1>7, PlaceFree
  <2>3. QED
    BY <2>1, <2>2
<1>8. CASE A[h].key # NoKey /\ PrevOf(A, h) = -1
  <2>1. Place(t, k, v) = SetPair(LinkAfter(t, h), NewSlot(t), k, v)
    BY <1>4, <1>5, <1>6, <1>8
  <2>2. \E last2, B : Placed(c, len, A, last, k, v, SetPair(LinkAfter(t, h), NewSlot(t), k, v), last2, B)
    BY <1>1, <1>8, PlaceBehind
  <2>3. QED
    BY <2>1, <2>2
<1>9. CASE A[h].key # NoKey /\ PrevOf(A, h) # -1
  <2>1. Place(t, k, v) = SetPair(MoveEntry(TakeSlot(t), NewSlot(t), h), h, k, v)
    BY <1>4, <1>5, <1>6, <1>9
  <2>2. \E last2, B :
          Placed(c, len, A, last, k, v, SetPair(MoveEntry(TakeSlot(t), NewSlot(t), h), h, k, v), last2, B)
    BY <1>1, <1>9, PlaceInstead
  <2>3. QED
    BY <2>1, <2>2
<1>10. QED
  BY <1>7, <1>8, <1>9

(* remety: the pair at i is gone, and so is the slot the entry n behind it *)
(* was in, if that moved to i.                                             *)
Removed(c, len, A, last, i, moves, n, u, last2, B) ==
  /\ u = Tab(c, len - 1, last2, B) /\ last2 \in -1..(c - 1)
  /\ Chained(B, c) /\ Once(B, c) /\ Loses(c, A, B, A[i].key)
  /\ AllBelow(A, c, last) /\ ~(moves /\ n > last) => AllBelow(B, c, last2)
  /\ moves => B[i].key = A[n].key
  /\ \A x \in 0..(c - 1) : x # i /\ ~(moves /\ x = n) => B[x].key = A[x].key

(* Removing an entry that no other follows keeps the chains and takes its  *)
(* pair away.                                                              *)
LEMMA RemoveLast ==
  ASSUME NEW c \in Nat, NEW len, NEW last \in -1..(c - 1), NEW A, Chained(A, c), Once(A, c),
         NEW t, t = Tab(c, len, last, A), NEW i \in 0..(c - 1), A[i].key # NoKey, A[i].next = 0, NEW n
  PROVE  \E last2, B : Removed(c, len, A, last, i, FALSE, n, Remove(t, i), last2, B)
<1>1. PICK B : B = Dropped(A, i, A[i], i - A[i].prev)
  OBVIOUS
<1>2. PICK last2 : last2 = IF last < i THEN i ELSE last
  OBVIOUS
<1>3. A \in Arrays(c) /\ \A x \in 0..(c - 1) : Plain(A, x)
  BY ChainedIs
<1>4. A[i].prev # 0 => i - A[i].prev \in 0..(c - 1) /\ i - A[i].prev # i
  BY EntryLinks DEF PrevEntry
<1>5. Remove(t, i) = Tab(c, len - 1, last2, B)
  BY <1>1, <1>2, <1>3, <1>4, RemoveIs
<1>6. PICK p : p = PrevOf(A, i)
  OBVIOUS
<1>7. p # i
  BY <1>4, <1>6 DEF PrevOf
<1>8. TakenOut(c, A, i, B)
  BY <1>1, <1>3, <1>6, <1>7, DroppedLinks
<1>9. NextOf(A, i) = -1
  BY DEF NextOf
<1>10. Chained(B, c)
  BY <1>8, <1>9, DroppedLinked
<1>11. DropAt(c, A, B, i)
  BY <1>8, EmptyIs DEF DropAt, TakenOut, SamePair
<1>12. Once(B, c) /\ Loses(c, A, B, A[i].key)
  BY <1>11, DropsPair
<1>13. last2 \in -1..(c - 1) /\ last <= last2 /\ i <= last2
  BY <1>2
<1>14. ASSUME AllBelow(A, c, last) PROVE AllBelow(B, c, last2)
  <2>1. SUFFICES ASSUME NEW x \in 0..(c - 1), B[x].key = NoKey PROVE x <= last2
    BY DEF AllBelow
  <2>2. CASE x = i
    BY <1>13, <2>2
  <2>3. CASE x # i
    <3>1. A[x].key = NoKey
      BY <1>11, <2>1, <2>3 DEF DropAt, SamePair
    <3>2. x <= last
      BY <1>14, <3>1 DEF AllBelow
    <3>3. QED
      BY <1>13, <3>2
  <2>4. QED
    BY <2>2, <2>3
<1>15. \A x \in 0..(c - 1) : x # i => B[x].key = A[x].key
  BY <1>11 DEF DropAt, SamePair
<1>16. QED
  BY <1>5, <1>10, <1>12, <1>13, <1>14, <1>15 DEF Removed

(* Removing a head that others follow moves the second entry into its slot *)
(* (remety).                                                               *)
LEMMA RemoveMoves ==
  ASSUME NEW c \in Nat, NEW len, NEW last \in -1..(c - 1), NEW A, Chained(A, c), Once(A, c),
         NEW t, t = Tab(c, len, last, A), NEW i \in 0..(c - 1), A[i].key # NoKey,
         A[i].prev = 0, A[i].next # 0, NEW n, n = i + A[i].next
  PROVE  \E last2, B : Removed(c, len, A, last, i, TRUE, n, Remove(t, i), last2, B)
<1>1. PICK r : Linked(A, c, r)
  BY DEF Chained
<1>2. A \in Arrays(c) /\ Plain(A, i)
  BY ChainedIs
<1>3. PrevOf(A, i) = -1 /\ NextOf(A, i) = n /\ n # -1
  BY <1>2, PlainIs
<1>4. InFront(A, c, r, i)
  BY <1>1, Neighbours
<1>5. n \in 0..(c - 1) /\ n # i /\ A[n].key # NoKey
  BY <1>3, <1>4 DEF InFront
<1>6. NextOf(A, n) # i
  <2>1. InFront(A, c, r, n)
    BY <1>1, <1>5, Neighbours
  <2>2. PICK m : m = NextOf(A, n)
    OBVIOUS
  <2>3. m # -1 => PrevOf(A, m) = n
    BY <2>1, <2>2 DEF InFront
  <2>4. i # -1
    OBVIOUS
  <2>5. QED
    BY <1>3, <2>2, <2>3, <2>4
<1>7. Remove(t, i) = MoveEntry(Tab(c, len - 1, last, A), i, n)
  BY RemoveHead
<1>8. PICK B : MoveEntry(Tab(c, len - 1, last, A), i, n) = Tab(c, len - 1, last, B) /\ MovedTo(c, A, i, n, B)
  <2>1. PICK m : m = len - 1
    OBVIOUS
  <2>2. PICK u : u = Tab(c, m, last, A)
    OBVIOUS
  <2>3. \E B : MoveEntry(u, i, n) = Tab(c, m, last, B) /\ MovedTo(c, A, i, n, B)
    BY <1>5, <1>6, <2>2, MoveIs
  <2>4. QED
    BY <2>1, <2>2, <2>3
<1>9. Chained(B, c)
  BY <1>3, <1>5, <1>8, HeadMovedLinked
<1>10. B[n].key = NoKey
  BY <1>8, EmptyIs DEF MovedTo
<1>11. PICK C : EntrySet(c, A, i, Empty, C)
  <2>1. PICK C : C = [A EXCEPT ![i] = Empty]
    OBVIOUS
  <2>2. EntrySet(c, A, i, Empty, C)
    BY <1>2, <2>1, EmptyIs, SetEntry
  <2>3. QED
    BY <2>2
<1>12. DropAt(c, A, C, i)
  BY <1>11, EmptyIs DEF EntrySet, DropAt, SamePair
<1>13. Once(C, c) /\ Loses(c, A, C, A[i].key)
  BY <1>12, DropsPair
<1>14. Shift(c, C, B, i, n)
  <2>1. C[n] = A[n] /\ C[i].key = NoKey /\ \A x \in 0..(c - 1) : x # i => C[x] = A[x]
    BY <1>5, <1>11, EmptyIs DEF EntrySet
  <2>2. QED
    BY <1>8, <1>10, <2>1 DEF Shift, MovedTo, SamePair
<1>15. Once(B, c) /\ Keeps(c, C, B)
  BY <1>5, <1>13, <1>14, ShiftsPair
<1>16. Loses(c, A, B, A[i].key)
  BY <1>13, <1>15 DEF Loses, Keeps
<1>17. B[i].key = A[n].key /\ \A x \in 0..(c - 1) : x # i /\ x # n => B[x].key = A[x].key
  BY <1>8 DEF MovedTo
<1>18. ASSUME AllBelow(A, c, last), ~(n > last) PROVE AllBelow(B, c, last)
  <2>1. SUFFICES ASSUME NEW x \in 0..(c - 1), B[x].key = NoKey PROVE x <= last
    BY DEF AllBelow
  <2>2. x # i
    BY <1>5, <1>17, <2>1
  <2>3. CASE x = n
    BY <1>18, <2>3
  <2>4. CASE x # n
    <3>1. A[x].key = NoKey
      BY <1>17, <2>1, <2>2, <2>4
    <3>2. QED
      BY <1>18, <3>1 DEF AllBelow
  <2>5. QED
    BY <2>3, <2>4
<1>19. Remove(t, i) = Tab(c, len - 1, last, B)
  BY <1>7, <1>8
<1>20. QED
  BY <1>9, <1>15, <1>16, <1>17, <1>18, <1>19 DEF Removed

(* Both ways of removing an entry keep the chains.                         *)
LEMMA RemoveOk ==
  ASSUME NEW c \in Nat, NEW len, NEW last \in -1..(c - 1), NEW A, Chained(A, c), Once(A, c),
         NEW t, t = Tab(c, len, last, A), NEW i \in 0..(c - 1), A[i].key # NoKey,
         ~Middle(t, i), NEW n, n = i + A[i].next
  PROVE  \E last2, B : Removed(c, len, A, last, i, Moves(t, i), n, Remove(t, i), last2, B)
<1>1. t.at = A
  BY TabFields
<1>2. CASE A[i].next = 0
  <2>1. ~Moves(t, i)
    BY <1>1, <1>2 DEF Moves, HasNext
  <2>2. \E last2, B : Removed(c, len, A, last, i, FALSE, n, Remove(t, i), last2, B)
    BY <1>2, RemoveLast
  <2>3. Moves(t, i) = FALSE
    BY <2>1 DEF Moves
  <2>4. QED
    BY <2>2, <2>3
<1>3. CASE A[i].next # 0
  <2>1. A[i].prev = 0
    BY <1>1, <1>3 DEF Middle, HasPrev, HasNext
  <2>2. Moves(t, i) = TRUE
    BY <1>1, <1>3, <2>1 DEF Moves, HasPrev, HasNext
  <2>3. \E last2, B : Removed(c, len, A, last, i, TRUE, n, Remove(t, i), last2, B)
    BY <1>3, <2>1, RemoveMoves
  <2>4. QED
    BY <2>2, <2>3
<1>4. QED
  BY <1>2, <1>3

-----------------------------------------------------------------------------
(* The number of keys.                                                     *)

LEMMA SlotsCounted ==
  ASSUME NEW c \in Nat
  PROVE  IsFiniteSet(0..(c - 1)) /\ Cardinality(0..(c - 1)) = c
<1>1. 0 \in Int /\ c - 1 \in Int
  OBVIOUS
<1>2. IsFiniteSet(0..(c - 1)) /\ Cardinality(0..(c - 1)) = IF 0 > c - 1 THEN 0 ELSE (c - 1) - 0 + 1
  BY <1>1, FS_Interval, Zenon
<1>3. QED
  BY <1>2

InUse(A, c) == {i \in 0..(c - 1) : A[i].key # NoKey}

(* There are as many keys as slots in use. *)
LEMMA KeysCounted ==
  ASSUME NEW c \in Nat, NEW A \in Arrays(c), Once(A, c)
  PROVE  /\ IsFiniteSet(InArray(A, c)) /\ Cardinality(InArray(A, c)) \in Nat
         /\ Cardinality(InUse(A, c)) = Cardinality(InArray(A, c))
         /\ Cardinality(InArray(A, c)) <= c
<1>1. PICK S : S = InUse(A, c)
  OBVIOUS
<1>2. S \subseteq 0..(c - 1)
  BY <1>1 DEF InUse
<1>3. IsFiniteSet(S) /\ Cardinality(S) <= c
  <2>1. PICK R : R = 0..(c - 1)
    OBVIOUS
  <2>2. IsFiniteSet(R) /\ Cardinality(R) = c /\ S \in SUBSET R
    BY <1>2, <2>1, SlotsCounted
  <2>3. IsFiniteSet(S) /\ Cardinality(S) <= Cardinality(R)
    BY <2>2, FS_Subset
  <2>4. QED
    BY <2>2, <2>3
<1>4. PICK K : K = InArray(A, c)
  OBVIOUS
<1>5. PICK f : f = [i \in S |-> A[i].key]
  OBVIOUS
<1>6. \A i \in S : A[i].key \in K
  <2>1. \A i \in S : A[i].key \in Key
    BY <1>1, ArrayEntry, FieldTypes DEF InUse
  <2>2. QED
    BY <1>2, <1>4, <2>1 DEF InArray
<1>7. \A k \in K : \E i \in S : A[i].key = k
  BY <1>1, <1>4, TableAssumption DEF InArray, InUse
<1>8. \A i, j \in S : A[i].key = A[j].key => i = j
  BY <1>1 DEF Once, InUse
<1>9. f \in Bijection(S, K)
  <2>1. DOMAIN f = S /\ \A i \in S : f[i] = A[i].key
    BY <1>5
  <2>2. f \in [S -> K]
    BY <1>5, <1>6
  <2>3. f \in Injection(S, K)
    BY <1>8, <2>1, <2>2 DEF Injection, IsInjective
  <2>4. f \in Surjection(S, K)
    BY <1>7, <2>1, <2>2 DEF Surjection
  <2>5. QED
    BY <2>3, <2>4 DEF Bijection
<1>10. ExistsBijection(S, K)
  BY <1>9 DEF ExistsBijection
<1>11. IsFiniteSet(K) /\ Cardinality(K) = Cardinality(S)
  BY <1>3, <1>10, FS_Bijection
<1>12. Cardinality(K) \in Nat
  BY <1>11, FS_CardinalityType
<1>13. QED
  BY <1>1, <1>3, <1>4, <1>11, <1>12

(* If there are fewer keys than slots, a slot is free. *)
LEMMA FreeExists ==
  ASSUME NEW c \in Nat, NEW A \in Arrays(c), Once(A, c), Cardinality(InArray(A, c)) < c
  PROVE  \E i \in 0..(c - 1) : A[i].key = NoKey
<1>1. SUFFICES ASSUME \A i \in 0..(c - 1) : A[i].key # NoKey PROVE FALSE
  OBVIOUS
<1>2. InUse(A, c) = 0..(c - 1)
  BY <1>1 DEF InUse
<1>3. Cardinality(InUse(A, c)) = c
  BY <1>2, SlotsCounted
<1>4. Cardinality(InArray(A, c)) = c
  BY <1>3, KeysCounted
<1>5. QED
  BY <1>4

-----------------------------------------------------------------------------
(* Laying the entries out again.                                           *)

(* The layout of the first i slots of t in n slots, when f[i - 1] is that  *)
(* of the first i - 1.                                                     *)
LayStep(t, n, f, i) ==
  IF i = 0 THEN Blank(n, t.length)
  ELSE IF IsFree(t, i - 1) THEN f[i - 1]
  ELSE Place(f[i - 1], t.at[i - 1].key, t.at[i - 1].val)
Laying(t, n, m, f) == f = [i \in 0..m |-> LayStep(t, n, f, i)]

(* What resizetable has laid out after the first i slots of the old array. *)
LEMMA LayingIs ==
  ASSUME NEW t, NEW n, NEW m \in Nat, NEW f, Laying(t, n, m, f)
  PROVE  \A i \in 0..m : f[i] = LayStep(t, n, f, i)
<1> DEFINE B(i) == LayStep(t, n, f, i)
<1>1. f = [i \in 0..m |-> B(i)]
  BY DEF Laying
<1> HIDE DEF B
<1>2. \A i \in 0..m : f[i] = B(i)
  BY <1>1
<1>3. QED
  BY <1>2 DEF B

(* The recursive function that lays out the pairs exists, by induction     *)
(* over the slots of the old array.                                        *)
LEMMA LayingExists ==
  ASSUME NEW t, NEW n, NEW c \in Nat
  PROVE  \E f : Laying(t, n, c, f)
<1> DEFINE I == {m \in Nat : m <= c /\ ~\E f : Laying(t, n, m, f)}
<1>1. SUFFICES ASSUME I # {} PROVE FALSE
  OBVIOUS
<1>2. PICK m \in I : \A j \in I : m <= j
  <2>1. I \in SUBSET Nat
    OBVIOUS
  <2> HIDE DEF I
  <2>2. QED
    BY <1>1, <2>1, LeastExists
<1>3. m \in Nat /\ m <= c /\ ~\E f : Laying(t, n, m, f)
  OBVIOUS
<1>4. CASE m = 0
  <2>1. PICK b : b = Blank(n, t.length)
    OBVIOUS
  <2>2. PICK f : f = [i \in 0..0 |-> b]
    OBVIOUS
  <2>3. \A i \in 0..0 : LayStep(t, n, f, i) = b
    BY <2>1 DEF LayStep
  <2>4. [i \in 0..0 |-> LayStep(t, n, f, i)] = [i \in 0..0 |-> b]
    BY <2>3, Zenon
  <2>5. Laying(t, n, 0, f)
    BY <2>2, <2>4, Zenon DEF Laying
  <2>6. QED
    BY <1>3, <1>4, <2>5
<1>5. CASE m # 0
  <2>1. PICK p \in Nat : m = p + 1
    <3>1. m - 1 \in Nat /\ m = (m - 1) + 1
      BY <1>3, <1>5
    <3>2. QED
      BY <3>1
  <2>2. p \notin I
    BY <1>2, <2>1
  <2>3. PICK f : Laying(t, n, p, f)
    BY <1>3, <2>1, <2>2
  <2>4. PICK g : g = [i \in 0..m |-> IF i = m THEN LayStep(t, n, f, m) ELSE f[i]]
    OBVIOUS
  <2>5. \A i \in 0..p : g[i] = f[i] /\ i # m /\ i \in 0..m
    BY <2>1, <2>4
  <2>6. \A i \in 0..m : i = m \/ i \in 0..p
    BY <2>1
  <2>7. ASSUME NEW i \in 0..m PROVE LayStep(t, n, g, i) = LayStep(t, n, f, i)
    <3>1. i = 0 \/ i - 1 \in 0..p
      BY <2>1
    <3>2. i = 0 \/ g[i - 1] = f[i - 1]
      BY <2>5, <3>1
    <3>3. QED
      BY <3>2, Zenon DEF LayStep
  <2>8. \A i \in 0..p : f[i] = LayStep(t, n, f, i)
    BY <2>3, LayingIs
  <2>9. \A i \in 0..m : (IF i = m THEN LayStep(t, n, f, m) ELSE f[i]) = LayStep(t, n, g, i)
    BY <2>6, <2>7, <2>8, Zenon
  <2>10. [i \in 0..m |-> IF i = m THEN LayStep(t, n, f, m) ELSE f[i]] = [i \in 0..m |-> LayStep(t, n, g, i)]
    BY <2>9, Zenon
  <2>11. Laying(t, n, m, g)
    BY <2>4, <2>10, Zenon DEF Laying
  <2>12. QED
    BY <1>3, <2>11
<1>6. QED
  BY <1>4, <1>5

Lays(t, n, c, f) == \A i \in 0..c : f[i] = LayStep(t, n, f, i)

(* resizetable gives the table the last step has laid out.                 *)
LEMMA ResizeIs ==
  ASSUME NEW t, NEW n, t.capacity \in Nat
  PROVE  \E f : Lays(t, n, t.capacity, f) /\ Resize(t, n) = f[t.capacity]
<1> DEFINE S == CHOOSE f : Laying(t, n, t.capacity, f)
<1>1. Laying(t, n, t.capacity, S)
  BY LayingExists, Zenon
<1>2. Resize(t, n) = S[t.capacity]
  BY Zenon DEF Resize, Laying, LayStep
<1> HIDE DEF S
<1>3. Lays(t, n, t.capacity, S)
  BY <1>1, LayingIs DEF Lays
<1>4. QED
  BY <1>2, <1>3

(* u has n slots and holds what the first m slots of A do. *)
Relaid(n, m, len, A, u, last2, B) ==
  /\ u = Tab(n, len, last2, B) /\ last2 \in -1..(n - 1)
  /\ Chained(B, n) /\ Once(B, n) /\ AllBelow(B, n, last2)
  /\ \A x \in Key, w \in Val \cup {NoVal} : Hold(B, n, x, w) <=> Hold(A, m, x, w)
Laid(n, m, len, A, u) == \E last2, B : Relaid(n, m, len, A, u, last2, B)

(* Before the first step nothing is laid out.                              *)
LEMMA BlankLaid ==
  ASSUME NEW n \in Nat, NEW len, NEW A
  PROVE  Laid(n, 0, len, A, Blank(n, len))
<1>1. PICK B : B = [i \in 0..(n - 1) |-> Empty]
  OBVIOUS
<1>2. Blank(n, len) = Tab(n, len, n - 1, B)
  BY <1>1 DEF Blank, Tab
<1>3. Chained(B, n)
  BY <1>1, BlankChained
<1>4. \A x \in 0..(n - 1) : B[x].key = NoKey
  BY <1>1, EmptyIs
<1>5. Once(B, n)
  BY <1>4 DEF Once
<1>6. n - 1 \in -1..(n - 1) /\ AllBelow(B, n, n - 1)
  BY DEF AllBelow
<1>7. \A x \in Key : \A w : ~Hold(B, n, x, w)
  BY <1>4, TableAssumption DEF Hold
<1>8. \A x \in Key : \A w : ~Hold(A, 0, x, w)
  BY DEF Hold
<1>9. QED
  BY <1>2, <1>3, <1>5, <1>6, <1>7, <1>8 DEF Relaid, Laid

(* The keys that are held are the keys of the slots. *)
LEMMA HeldKeys ==
  ASSUME NEW c, NEW A \in Arrays(c), NEW m \in Nat, \A i \in 0..(m - 1) : i \in 0..(c - 1)
  PROVE  \A k \in Key : k \in InArray(A, m) <=> \E w \in Val \cup {NoVal} : Hold(A, m, k, w)
<1>1. \A i \in 0..(m - 1) : A[i].val \in Val \cup {NoVal}
  BY ArrayEntry, FieldTypes
<1>2. QED
  BY <1>1 DEF InArray, Hold

(* The next entry finds a place. *)
LEMMA NextLaid ==
  ASSUME NEW c \in Nat, NEW A \in Arrays(c), Once(A, c), NEW n \in Nat, NEW len,
         Cardinality(InArray(A, c)) <= n,
         NEW m \in 0..(c - 1), A[m].key # NoKey, NEW u, Laid(n, m, len, A, u)
  PROVE  Laid(n, m + 1, len, A, Place(u, A[m].key, A[m].val))
<1>1. PICK last, B : Relaid(n, m, len, A, u, last, B)
  BY DEF Laid
<1>2. /\ u = Tab(n, len, last, B) /\ last \in -1..(n - 1)
      /\ Chained(B, n) /\ Once(B, n) /\ AllBelow(B, n, last)
      /\ \A x \in Key, w \in Val \cup {NoVal} : Hold(B, n, x, w) <=> Hold(A, m, x, w)
  BY <1>1 DEF Relaid
<1>3. PICK k \in Key : k = A[m].key
  BY ArrayEntry, FieldTypes
<1>4. PICK v \in Val \cup {NoVal} : v = A[m].val
  BY ArrayEntry, FieldTypes
<1>5. m \in Nat /\ \A i \in 0..(m - 1) : i \in 0..(c - 1) /\ i # m
  OBVIOUS
<1>6. B \in Arrays(n)
  BY <1>2, ChainedIs
<1>7. InArray(B, n) = InArray(A, m)
  <2>1. \A x \in Key : x \in InArray(A, m) <=> \E w \in Val \cup {NoVal} : Hold(A, m, x, w)
    BY <1>5, HeldKeys
  <2>2. \A x \in Key : x \in InArray(B, n) <=> \E w \in Val \cup {NoVal} : Hold(B, n, x, w)
    <3>1. \A i \in 0..(n - 1) : i \in 0..(n - 1)
      OBVIOUS
    <3>2. QED
      BY <1>6, <3>1, HeldKeys
  <2>3. InArray(A, m) \subseteq Key /\ InArray(B, n) \subseteq Key
    BY DEF InArray
  <2>4. \A x \in Key : x \in InArray(B, n) <=> x \in InArray(A, m)
    BY <1>2, <2>1, <2>2
  <2>5. QED
    BY <2>3, <2>4
<1>8. k \notin InArray(A, m)
  <2>1. SUFFICES ASSUME NEW i \in 0..(m - 1), A[i].key = k PROVE FALSE
    BY DEF InArray
  <2>2. i = m
    BY <1>3, <1>5, <2>1 DEF Once
  <2>3. QED
    BY <1>5, <2>2
<1>9. Cardinality(InArray(B, n)) < n
  <2>1. PICK K : K = InArray(A, c)
    OBVIOUS
  <2>2. PICK L : L = InArray(A, m)
    OBVIOUS
  <2>3. IsFiniteSet(K) /\ Cardinality(K) \in Nat /\ Cardinality(K) <= n
    BY <2>1, KeysCounted
  <2>4. L \in SUBSET K /\ k \in K /\ k \notin L
    BY <1>3, <1>5, <1>8, <2>1, <2>2 DEF InArray
  <2>5. L # K
    BY <2>4
  <2>6. IsFiniteSet(L) /\ Cardinality(L) <= Cardinality(K) /\ (Cardinality(K) = Cardinality(L) => K = L)
    BY <2>3, <2>4, FS_Subset
  <2>7. Cardinality(L) \in Nat
    BY <2>6, FS_CardinalityType
  <2>8. Cardinality(L) < n
    BY <2>3, <2>5, <2>6, <2>7
  <2>9. QED
    BY <1>7, <2>2, <2>8
<1>10. PICK x \in 0..(n - 1) : B[x].key = NoKey
  BY <1>2, <1>6, <1>9, FreeExists
<1>11. FreeBelow(u) # {}
  <2>1. u.capacity = n /\ u.lastfree = last /\ u.at = B
    BY <1>2, TabFields
  <2>2. x <= last
    BY <1>2, <1>10 DEF AllBelow
  <2>3. x \in FreeBelow(u)
    BY <1>10, <2>1, <2>2 DEF FreeBelow, FreeSlots, Slots, IsFree
  <2>4. QED
    BY <2>3
<1>12. n \in Nat \ {0}
  BY <1>10
<1>13. PICK last2, D : Placed(n, len, B, last, k, v, Place(u, k, v), last2, D)
  <2>1. k \notin InArray(B, n)
    BY <1>7, <1>8
  <2>2. QED
    BY <1>2, <1>11, <1>12, <2>1, PlaceIs
<1>14. /\ Place(u, k, v) = Tab(n, len, last2, D) /\ last2 \in -1..(n - 1)
       /\ Chained(D, n) /\ Once(D, n) /\ Adds(n, B, D, k, v) /\ AllBelow(D, n, last2)
  BY <1>2, <1>13 DEF Placed
<1>15. ASSUME NEW y \in Key, NEW w \in Val \cup {NoVal}
       PROVE  Hold(D, n, y, w) <=> Hold(A, m + 1, y, w)
  <2>1. Hold(D, n, y, w) <=> Hold(A, m, y, w) \/ (y = k /\ w = v)
    BY <1>2, <1>14 DEF Adds
  <2>2. \A i : i \in 0..((m + 1) - 1) <=> i \in 0..(m - 1) \/ i = m
    OBVIOUS
  <2>3. Hold(A, m + 1, y, w) <=> Hold(A, m, y, w) \/ (y = k /\ w = v)
    BY <1>3, <1>4, <2>2 DEF Hold
  <2>4. QED
    BY <2>1, <2>3
<1>16. Relaid(n, m + 1, len, A, Place(u, k, v), last2, D)
  BY <1>14, <1>15 DEF Relaid
<1>17. QED
  BY <1>3, <1>4, <1>16 DEF Laid

(* A table laid out anew with room for its keys holds the same pairs, in   *)
(* chains.                                                                 *)
LEMMA ResizeOk ==
  ASSUME NEW c \in Nat, NEW len, NEW last, NEW A, Chained(A, c), Once(A, c),
         NEW t, t = Tab(c, len, last, A), NEW n \in Nat, Cardinality(InArray(A, c)) <= n
  PROVE  Laid(n, c, len, A, Resize(t, n))
<1>1. t.capacity = c /\ t.length = len /\ t.at = A /\ A \in Arrays(c)
  BY TabFields, ChainedIs
<1>2. PICK f : Lays(t, n, t.capacity, f) /\ Resize(t, n) = f[t.capacity]
  <2>1. t.capacity \in Nat
    BY <1>1
  <2>2. QED
    BY <2>1, ResizeIs
<1>3. Lays(t, n, c, f) /\ Resize(t, n) = f[c]
  BY <1>1, <1>2
<1> DEFINE I == {m \in Nat : m <= c /\ ~Laid(n, m, len, A, f[m])}
<1>4. I = {}
  <2> SUFFICES ASSUME I # {} PROVE FALSE
    OBVIOUS
  <2>1. PICK m \in I : \A j \in I : m <= j
    <3>1. I \in SUBSET Nat
      OBVIOUS
    <3> HIDE DEF I
    <3>2. QED
      BY <3>1, LeastExists
  <2>2. m \in Nat /\ m <= c /\ ~Laid(n, m, len, A, f[m])
    OBVIOUS
  <2>3. f[m] = LayStep(t, n, f, m)
    <3>1. m \in 0..c
      BY <2>2
    <3>2. QED
      BY <1>3, <3>1 DEF Lays
  <2>4. CASE m = 0
    <3>1. f[m] = Blank(n, len)
      BY <1>1, <2>3, <2>4 DEF LayStep
    <3>2. Laid(n, 0, len, A, Blank(n, len))
      BY BlankLaid
    <3>3. QED
      BY <2>2, <2>4, <3>1, <3>2
  <2>5. CASE m # 0
    <3>1. PICK p \in 0..(c - 1) : m = p + 1 /\ m - 1 = p
      <4>1. m - 1 \in 0..(c - 1) /\ m = (m - 1) + 1
        BY <2>2, <2>5
      <4>2. QED
        BY <4>1
    <3>2. p \notin I /\ p \in Nat /\ p <= c
      <4>1. ~(m <= p) /\ p \in Nat /\ p <= c
        BY <3>1
      <4> HIDE DEF I
      <4>2. QED
        BY <2>1, <4>1
    <3>3. Laid(n, p, len, A, f[p])
      BY <3>2
    <3> HIDE DEF I
    <3>4. f[m] = IF A[p].key = NoKey THEN f[p] ELSE Place(f[p], A[p].key, A[p].val)
      BY <1>1, <2>3, <2>5, <3>1 DEF LayStep, IsFree
    <3>5. CASE A[p].key = NoKey
      <4>1. PICK last2, B : Relaid(n, p, len, A, f[p], last2, B)
        BY <3>3 DEF Laid
      <4>2. \A i : i \in 0..(m - 1) <=> i \in 0..(p - 1) \/ i = p
        BY <3>1
      <4>3. \A x \in Key : \A w : Hold(A, m, x, w) <=> Hold(A, p, x, w)
        BY <3>5, <4>2, TableAssumption DEF Hold
      <4>4. Relaid(n, m, len, A, f[p], last2, B)
        BY <4>1, <4>3 DEF Relaid
      <4>5. Laid(n, m, len, A, f[m])
        BY <3>4, <3>5, <4>4 DEF Laid
      <4>6. QED
        BY <2>2, <4>5
    <3>6. CASE A[p].key # NoKey
      <4>1. Laid(n, p + 1, len, A, Place(f[p], A[p].key, A[p].val))
        BY <1>1, <3>3, <3>6, NextLaid
      <4>2. QED
        BY <2>2, <3>1, <3>4, <3>6, <4>1
    <3>7. QED
      BY <3>5, <3>6
  <2>6. QED
    BY <2>4, <2>5
<1>5. c \in Nat /\ c <= c
  OBVIOUS
<1>6. Laid(n, c, len, A, f[c])
  BY <1>4, <1>5
<1>7. QED
  BY <1>3, <1>6

-----------------------------------------------------------------------------
(* Tables.                                                                 *)

(* A table of c slots as the operations leave it. *)
TableOk(c, t) ==
  /\ c \in Nat /\ t \in Table(c)
  /\ Chained(t.at, c) /\ Once(t.at, c) /\ t.length = Cardinality(InArray(t.at, c))
BelowLast(c, t) == AllBelow(t.at, c, t.lastfree)

(* u has the pairs of t. *)
Same(c, t, d, u) ==
  \A x \in Key, w \in Val \cup {NoVal} : Hold(u.at, d, x, w) <=> Hold(t.at, c, x, w)

(* A table of a chained array with each key once and their number is in    *)
(* order.                                                                  *)
LEMMA TableIf ==
  ASSUME NEW c \in Nat, NEW len, NEW last \in -1..(c - 1), NEW B, Chained(B, c), Once(B, c),
         len = Cardinality(InArray(B, c)), NEW u, u = Tab(c, len, last, B)
  PROVE  TableOk(c, u)
<1>1. B \in Arrays(c)
  BY ChainedIs
<1>2. len \in 0..c
  <2>1. Cardinality(InArray(B, c)) \in Nat /\ Cardinality(InArray(B, c)) <= c
    BY <1>1, KeysCounted
  <2>2. QED
    BY <2>1
<1>3. u \in Table(c)
  BY <1>1, <1>2, TabIn
<1>4. u.at = B /\ u.length = len
  BY TabFields
<1>5. QED
  BY <1>3, <1>4 DEF TableOk

(* An array with the pairs of another has its keys.                        *)
LEMMA SameKeys ==
  ASSUME NEW c \in Nat, NEW A \in Arrays(c), NEW d \in Nat, NEW B \in Arrays(d),
         \A x \in Key, w \in Val \cup {NoVal} : Hold(B, d, x, w) <=> Hold(A, c, x, w)
  PROVE  InArray(B, d) = InArray(A, c)
<1>1. \A x \in Key : x \in InArray(A, c) <=> \E w \in Val \cup {NoVal} : Hold(A, c, x, w)
  <2>1. \A i \in 0..(c - 1) : i \in 0..(c - 1)
    OBVIOUS
  <2>2. QED
    BY <2>1, HeldKeys
<1>2. \A x \in Key : x \in InArray(B, d) <=> \E w \in Val \cup {NoVal} : Hold(B, d, x, w)
  <2>1. \A i \in 0..(d - 1) : i \in 0..(d - 1)
    OBVIOUS
  <2>2. QED
    BY <2>1, HeldKeys
<1>3. InArray(A, c) \subseteq Key /\ InArray(B, d) \subseteq Key
  BY DEF InArray
<1>4. \A x \in Key : x \in InArray(B, d) <=> x \in InArray(A, c)
  BY <1>1, <1>2
<1>5. QED
  BY <1>3, <1>4

(* resizetable. *)
LEMMA ResizeTable ==
  ASSUME NEW c, NEW t, TableOk(c, t), NEW n \in Nat, t.length <= n
  PROVE  LET u == Resize(t, n)
         IN  TableOk(n, u) /\ BelowLast(n, u) /\ Same(c, t, n, u) /\ u.length = t.length
<1>1. c \in Nat /\ t \in Table(c) /\ Chained(t.at, c) /\ Once(t.at, c) /\ t.length = Cardinality(InArray(t.at, c))
  BY DEF TableOk
<1>2. t = Tab(c, t.length, t.lastfree, t.at) /\ t.at \in Arrays(c)
  BY <1>1, TabIs
<1>3. PICK A : A = t.at
  OBVIOUS
<1>4. PICK len : len = t.length
  OBVIOUS
<1>5. PICK last : last = t.lastfree
  OBVIOUS
<1>6. PICK u : u = Resize(t, n)
  OBVIOUS
<1>7. Laid(n, c, len, A, u)
  BY <1>1, <1>2, <1>3, <1>4, <1>5, <1>6, ResizeOk
<1>8. PICK last2, B : Relaid(n, c, len, A, u, last2, B)
  BY <1>7 DEF Laid
<1>9. /\ u = Tab(n, len, last2, B) /\ last2 \in -1..(n - 1)
      /\ Chained(B, n) /\ Once(B, n) /\ AllBelow(B, n, last2)
      /\ \A x \in Key, w \in Val \cup {NoVal} : Hold(B, n, x, w) <=> Hold(A, c, x, w)
  BY <1>8 DEF Relaid
<1>10. u.at = B /\ u.length = len /\ u.lastfree = last2
  BY <1>9, TabFields
<1>11. InArray(B, n) = InArray(A, c)
  <2>1. A \in Arrays(c) /\ B \in Arrays(n)
    BY <1>2, <1>3, <1>9, ChainedIs
  <2>2. QED
    BY <1>1, <1>9, <2>1, SameKeys
<1>12. TableOk(n, u)
  BY <1>1, <1>3, <1>4, <1>9, <1>11, TableIf
<1>13. BelowLast(n, u) /\ Same(c, t, n, u)
  BY <1>3, <1>9, <1>10 DEF BelowLast, Same
<1>14. QED
  BY <1>4, <1>6, <1>10, <1>12, <1>13

(* resizetable keeps a table in order, with its pairs, and forgets no free *)
(* slot.                                                                   *)
LEMMA ResizedTable ==
  ASSUME NEW c, NEW t, TableOk(c, t), NEW n \in Nat, t.length <= n, NEW u, u = Resize(t, n)
  PROVE  TableOk(n, u) /\ BelowLast(n, u) /\ Same(c, t, n, u) /\ u.length = t.length
BY ResizeTable

(* aloM_adjsize grants what is required. *)
LEMMA AdjSizeIs ==
  ASSUME NEW c \in Nat, c <= MaxSize, NEW t, t.capacity = c, NEW n \in Nat, n <= MaxSize
  PROVE  AdjSize(t, n) \in n..MaxSize
<1>1. MaxSize \in Nat /\ MinSize \in Nat
  BY TableAssumption
<1>2. PICK m : m = Max({2 * c, MinSize, n})
  OBVIOUS
<1>3. m \in Nat /\ n <= m
  <2>1. \E x \in {2 * c, MinSize, n} : \A y \in {2 * c, MinSize, n} : x >= y
    BY <1>1
  <2>2. m \in {2 * c, MinSize, n} /\ \A y \in {2 * c, MinSize, n} : m >= y
    BY <1>2, <2>1 DEF Max
  <2>3. QED
    BY <1>1, <2>2
<1>4. AdjSize(t, n) = Min({MaxSize, m})
  BY <1>2 DEF AdjSize
<1>5. PICK a : a = Min({MaxSize, m})
  OBVIOUS
<1>6. a \in {MaxSize, m} /\ \A y \in {MaxSize, m} : a <= y
  <2>1. \E x \in {MaxSize, m} : \A y \in {MaxSize, m} : x =< y
    BY <1>1, <1>3
  <2>2. QED
    BY <1>5, <2>1 DEF Min
<1>7. a \in n..MaxSize
  BY <1>1, <1>3, <1>6
<1>8. QED
  BY <1>4, <1>5, <1>7

(* aloH_ensure. *)
EnsuredTo(c, t, n, d, u) ==
  /\ d \in 0..MaxSize /\ TableOk(d, u) /\ Same(c, t, d, u) /\ u.length = t.length
  /\ BelowLast(c, t) \/ LaidOut(t, n) => BelowLast(d, u)
  /\ t.length + n <= d

(* aloH_ensure keeps a table in order and its pairs, and leaves room for   *)
(* the keys that are asked for.                                            *)
LEMMA EnsuredOk ==
  ASSUME NEW c \in 0..MaxSize, NEW t, TableOk(c, t), NEW n \in Nat, CanEnsure(t, n)
  PROVE  \E d : EnsuredTo(c, t, n, d, Ensured(t, n))
<1>1. c \in Nat /\ t.capacity = c /\ t.length \in 0..c
  BY TabIs DEF TableOk
<1>2. CASE t.length + n > t.capacity
  <2>1. Ensured(t, n) = Resize(t, AdjSize(t, t.length + n))
    BY <1>2 DEF Ensured
  <2>2. t.length + n \in Nat
    BY <1>1
  <2>3. t.length + n <= MaxSize
    <3>1. ~TooBig(t, t.length + n)
      BY <1>2 DEF CanEnsure
    <3>2. ~(t.length + n > MaxSize)
      BY <3>1 DEF TooBig
    <3>3. QED
      BY <2>2, <3>2, TableAssumption
  <2>4. PICK d : d = AdjSize(t, t.length + n)
    OBVIOUS
  <2>5. d \in (t.length + n)..MaxSize
    BY <1>1, <2>2, <2>3, <2>4, AdjSizeIs
  <2>6. d \in 0..MaxSize /\ d \in Nat /\ t.length + n <= d /\ t.length <= d
    BY <1>1, <2>2, <2>5, TableAssumption
  <2>7. PICK u : u = Resize(t, d)
    OBVIOUS
  <2>8. TableOk(d, u) /\ BelowLast(d, u) /\ Same(c, t, d, u) /\ u.length = t.length
    BY <2>6, <2>7, ResizedTable
  <2>9. QED
    BY <2>1, <2>4, <2>6, <2>7, <2>8 DEF EnsuredTo
<1>3. CASE ~(t.length + n > t.capacity)
  <2>1. Ensured(t, n) = t
    BY <1>3 DEF Ensured
  <2>2. t.length + n <= c /\ ~LaidOut(t, n)
    BY <1>1, <1>3 DEF LaidOut
  <2>3. Same(c, t, c, t)
    BY DEF Same
  <2>4. QED
    BY <2>1, <2>2, <2>3 DEF EnsuredTo
<1>4. QED
  BY <1>2, <1>3

(* aloH_clear, and the table without an array. *)
LEMMA BlankTable ==
  ASSUME NEW c \in Nat, NEW u, u = Blank(c, 0)
  PROVE  TableOk(c, u) /\ BelowLast(c, u) /\ InArray(u.at, c) = {}
<1>1. PICK A : A = u.at
  OBVIOUS
<1>2. Laid(c, 0, 0, A, u)
  BY BlankLaid
<1>3. PICK last2, B : Relaid(c, 0, 0, A, u, last2, B)
  BY <1>2 DEF Laid
<1>4. /\ u = Tab(c, 0, last2, B) /\ last2 \in -1..(c - 1)
      /\ Chained(B, c) /\ Once(B, c) /\ AllBelow(B, c, last2)
      /\ \A x \in Key, w \in Val \cup {NoVal} : Hold(B, c, x, w) <=> Hold(A, 0, x, w)
  BY <1>3 DEF Relaid
<1>5. \A x \in Key : \A w : ~Hold(A, 0, x, w)
  BY DEF Hold
<1>6. InArray(B, c) = {}
  <2>1. B \in Arrays(c)
    BY <1>4, ChainedIs
  <2>2. \A i \in 0..(c - 1) : B[i].val \in Val \cup {NoVal}
    BY <2>1, ArrayEntry, FieldTypes
  <2>3. QED
    BY <1>4, <1>5, <2>2 DEF InArray, Hold
<1>7. Cardinality(InArray(B, c)) = 0
  BY <1>6, FS_EmptySet
<1>8. TableOk(c, u)
  BY <1>4, <1>7, TableIf
<1>9. u.at = B /\ u.lastfree = last2
  BY <1>4, TabFields
<1>10. QED
  BY <1>4, <1>6, <1>8, <1>9 DEF BelowLast

(* A new table is empty (aloH_new).                                        *)
LEMMA NewTableIs == NewTable = Blank(0, 0)
<1>1. <<>> = [i \in 0..(0 - 1) |-> Empty]
  OBVIOUS
<1>2. QED
  BY <1>1 DEF NewTable, Blank

(* Looking for a key tells whether it is there, and where. *)
LEMMA KeyFound ==
  ASSUME NEW c, NEW t, TableOk(c, t), NEW k \in Key
  PROVE  /\ k \in Present(t) <=> k \in InArray(t.at, c)
         /\ \A i \in 0..(c - 1) : t.at[i].key = k => SlotOf(t, k) = i
         /\ k \in Present(t) => SlotOf(t, k) \in 0..(c - 1) /\ t.at[SlotOf(t, k)].key = k
<1>1. /\ c \in Nat /\ t \in Table(c) /\ Chained(t.at, c) /\ Once(t.at, c)
      /\ t.length = Cardinality(InArray(t.at, c)) /\ t.at \in Arrays(c)
  BY TabIs DEF TableOk
<1>2. PICK s : s = SlotOf(t, k)
  OBVIOUS
<1>3. /\ \A i \in 0..(c - 1) : t.at[i].key = k /\ t.length # 0 => s = i
      /\ s = -1 \/ (s \in 0..(c - 1) /\ t.at[s].key = k)
  BY <1>1, <1>2, SlotFound
<1>4. k \in InArray(t.at, c) => t.length # 0
  <2>1. SUFFICES ASSUME k \in InArray(t.at, c), t.length = 0 PROVE FALSE
    OBVIOUS
  <2>2. IsFiniteSet(InArray(t.at, c)) /\ Cardinality(InArray(t.at, c)) = 0
    BY <1>1, <2>1, KeysCounted
  <2>3. InArray(t.at, c) = {}
    BY <2>2, FS_EmptySet
  <2>4. QED
    BY <2>1, <2>3
<1>5. \A i \in 0..(c - 1) : t.at[i].key = k => k \in InArray(t.at, c)
  BY DEF InArray
<1>6. \A i \in 0..(c - 1) : t.at[i].key = k => s = i
  BY <1>3, <1>4, <1>5
<1>7. k \in InArray(t.at, c) => s \in 0..(c - 1)
  BY <1>6 DEF InArray
<1>8. k \in Present(t) <=> s # -1
  BY <1>2 DEF Present
<1>9. \A i \in 0..(c - 1) : i # -1
  OBVIOUS
<1>10. k \in Present(t) <=> k \in InArray(t.at, c)
  BY <1>3, <1>5, <1>7, <1>8, <1>9
<1>11. QED
  BY <1>2, <1>3, <1>6, <1>8, <1>10

(* aloH_set with a new key. *)
Inserts(c, t, k, v, d, u) ==
  /\ d \in 0..MaxSize /\ TableOk(d, u)
  /\ BelowLast(c, t) \/ LaidOut(t, 1) => BelowLast(d, u)
  /\ \A x \in Key, w \in Val \cup {NoVal} :
       Hold(u.at, d, x, w) <=> Hold(t.at, c, x, w) \/ (x = k /\ w = v)

(* One more entry is counted. *)
Longer(t) == [t EXCEPT !.length = @ + 1]

(* A table with one more key counted.                                      *)
LEMMA LongerIs ==
  ASSUME NEW c, NEW len, NEW last, NEW A
  PROVE  Longer(Tab(c, len, last, A)) = Tab(c, len + 1, last, A)
<1>1. PICK t : t = Tab(c, len, last, A)
  OBVIOUS
<1>2. t.length = len
  BY <1>1, TabFields
<1>3. PICK m : m = len + 1
  OBVIOUS
<1>4. Longer(t) = [t EXCEPT !.length = m]
  BY <1>2, <1>3 DEF Longer
<1>5. [t EXCEPT !.length = m] = Tab(c, m, last, A)
  BY <1>1 DEF Tab
<1>6. QED
  BY <1>1, <1>3, <1>4, <1>5, Zenon

(* aloH_find with a new key keeps a table in order and adds the pair.      *)
LEMMA InsertTable ==
  ASSUME NEW c \in 0..MaxSize, NEW t, TableOk(c, t), NEW k \in Key, k \notin Present(t), NEW v \in Val,
         CanEnsure(t, 1), NEW s, s = Ensured(t, 1), IsFree(s, HeadOf(s, k)) \/ FreeBelow(s) # {},
         NEW r, r = Longer(s), NEW u, u = Place(r, k, v)
  PROVE  \E d : Inserts(c, t, k, v, d, u)
<1>1. PICK d : EnsuredTo(c, t, 1, d, s)
  <2>1. 1 \in Nat
    OBVIOUS
  <2>2. QED
    BY <2>1, EnsuredOk
<1>2. /\ d \in 0..MaxSize /\ TableOk(d, s) /\ Same(c, t, d, s) /\ s.length = t.length
      /\ BelowLast(c, t) \/ LaidOut(t, 1) => BelowLast(d, s)
      /\ t.length + 1 <= d
  BY <1>1 DEF EnsuredTo
<1>3. /\ c \in Nat /\ t.at \in Arrays(c) /\ t.length \in Nat
  BY TabIs DEF TableOk
<1>4. d \in Nat \ {0} /\ d \in Nat
  BY <1>2, <1>3
<1>5. /\ s = Tab(d, s.length, s.lastfree, s.at) /\ s.capacity = d /\ s.lastfree \in -1..(d - 1)
      /\ s.at \in Arrays(d) /\ Chained(s.at, d) /\ Once(s.at, d)
      /\ s.length = Cardinality(InArray(s.at, d))
  BY <1>2, TabIs DEF TableOk
<1>6. PICK A : A = s.at
  OBVIOUS
<1>7. PICK last \in -1..(d - 1) : last = s.lastfree
  BY <1>5
<1>8. PICK len : len = s.length + 1
  OBVIOUS
<1>9. r = Tab(d, len, last, A)
  <2>1. PICK l : l = s.length
    OBVIOUS
  <2>2. s = Tab(d, l, last, A)
    BY <1>5, <1>6, <1>7, <2>1
  <2>3. r = Longer(Tab(d, l, last, A))
    BY <2>2
  <2>4. len = l + 1
    BY <1>8, <2>1
  <2>5. QED
    BY <2>3, <2>4, LongerIs
<1>10. r.capacity = d /\ r.at = A /\ r.lastfree = last
  BY <1>9, TabFields
<1>11. A[Hash[k] % d].key = NoKey \/ FreeBelow(r) # {}
  <2>1. FreeBelow(r) = FreeBelow(s)
    BY <1>5, <1>6, <1>7, <1>10 DEF FreeBelow, FreeSlots, Slots, IsFree
  <2>2. IsFree(s, HeadOf(s, k)) <=> A[Hash[k] % d].key = NoKey
    BY <1>5, <1>6 DEF IsFree, HeadOf
  <2>3. QED
    BY <2>1, <2>2
<1>12. InArray(A, d) = InArray(t.at, c)
  BY <1>2, <1>3, <1>4, <1>5, <1>6, SameKeys DEF Same
<1>13. k \notin InArray(A, d)
  BY <1>12, KeyFound
<1>14. v \in Val \cup {NoVal}
  OBVIOUS
<1>15. PICK last2, B : Placed(d, len, A, last, k, v, u, last2, B)
  <2>1. Chained(A, d) /\ Once(A, d)
    BY <1>5, <1>6
  <2>2. \E last2, B : Placed(d, len, A, last, k, v, Place(r, k, v), last2, B)
    BY <1>4, <1>9, <1>11, <1>13, <1>14, <2>1, PlaceIs
  <2>3. QED
    BY <2>2
<1>16. /\ u = Tab(d, len, last2, B) /\ last2 \in -1..(d - 1)
       /\ Chained(B, d) /\ Once(B, d) /\ Adds(d, A, B, k, v)
       /\ AllBelow(A, d, last) => AllBelow(B, d, last2)
  BY <1>15 DEF Placed
<1>17. len = Cardinality(InArray(B, d))
  <2>1. B \in Arrays(d) /\ A \in Arrays(d) /\ Once(A, d)
    BY <1>5, <1>6, <1>16, ChainedIs
  <2>2. InArray(B, d) = InArray(A, d) \cup {k}
    BY <1>4, <1>14, <1>16, <2>1, KeysOf
  <2>3. PICK K : K = InArray(A, d)
    OBVIOUS
  <2>4. IsFiniteSet(K)
    BY <1>4, <2>1, <2>3, KeysCounted
  <2>5. Cardinality(K \cup {k}) = Cardinality(K) + 1
    BY <1>13, <2>3, <2>4, FS_AddElement
  <2>6. QED
    BY <1>5, <1>6, <1>8, <2>2, <2>3, <2>5
<1>18. TableOk(d, u)
  BY <1>4, <1>16, <1>17, TableIf
<1>19. u.at = B /\ u.lastfree = last2
  BY <1>16, TabFields
<1>20. BelowLast(d, s) => BelowLast(d, u)
  BY <1>6, <1>7, <1>16, <1>19 DEF BelowLast
<1>21. \A x \in Key, w \in Val \cup {NoVal} :
         Hold(u.at, d, x, w) <=> Hold(t.at, c, x, w) \/ (x = k /\ w = v)
  BY <1>2, <1>6, <1>16, <1>19 DEF Adds, Same
<1>22. QED
  BY <1>2, <1>18, <1>20, <1>21 DEF Inserts

(* aloH_remove and aloH_rawrem. *)
Removes(c, t, i, u) ==
  /\ TableOk(c, u)
  /\ BelowLast(c, t) /\ ~LosesSlot(t, i) => BelowLast(c, u)
  /\ \A x \in Key, w \in Val \cup {NoVal} : Hold(u.at, c, x, w) <=> Hold(t.at, c, x, w) /\ x # t.at[i].key
  /\ Moves(t, i) => u.at[i].key = t.at[i + t.at[i].next].key
  /\ \A x \in 0..(c - 1) : x # i /\ ~(Moves(t, i) /\ x = i + t.at[i].next) => u.at[x].key = t.at[x].key

(* remety, not in the middle of a chain, keeps a table in order and takes  *)
(* the pair of its key away.                                               *)
LEMMA RemoveTable ==
  ASSUME NEW c, NEW t, TableOk(c, t), NEW i \in 0..(c - 1), t.at[i].key # NoKey, ~Middle(t, i),
         NEW u, u = Remove(t, i)
  PROVE  Removes(c, t, i, u)
<1>1. /\ c \in Nat /\ t = Tab(c, t.length, t.lastfree, t.at) /\ t.lastfree \in -1..(c - 1)
      /\ t.at \in Arrays(c) /\ Chained(t.at, c) /\ Once(t.at, c)
      /\ t.length = Cardinality(InArray(t.at, c))
  BY TabIs DEF TableOk
<1>2. PICK A : A = t.at
  OBVIOUS
<1>3. PICK last \in -1..(c - 1) : last = t.lastfree
  BY <1>1
<1>4. PICK len : len = t.length
  OBVIOUS
<1>5. PICK n : n = i + A[i].next
  OBVIOUS
<1>6. PICK last2, B : Removed(c, len, A, last, i, Moves(t, i), n, u, last2, B)
  <2>1. t = Tab(c, len, last, A) /\ Chained(A, c) /\ Once(A, c) /\ A[i].key # NoKey
    BY <1>1, <1>2, <1>3, <1>4
  <2>2. \E last2, B : Removed(c, len, A, last, i, Moves(t, i), n, Remove(t, i), last2, B)
    BY <1>1, <1>5, <2>1, RemoveOk
  <2>3. QED
    BY <2>2
<1>7. /\ u = Tab(c, len - 1, last2, B) /\ last2 \in -1..(c - 1)
      /\ Chained(B, c) /\ Once(B, c) /\ Loses(c, A, B, A[i].key)
      /\ AllBelow(A, c, last) /\ ~(Moves(t, i) /\ n > last) => AllBelow(B, c, last2)
      /\ Moves(t, i) => B[i].key = A[n].key
      /\ \A x \in 0..(c - 1) : x # i /\ ~(Moves(t, i) /\ x = n) => B[x].key = A[x].key
  BY <1>6 DEF Removed
<1>8. u.at = B /\ u.lastfree = last2
  BY <1>7, TabFields
<1>9. len - 1 = Cardinality(InArray(B, c))
  <2>1. B \in Arrays(c) /\ A \in Arrays(c) /\ Once(A, c)
    BY <1>1, <1>2, <1>7, ChainedIs
  <2>2. PICK k : k = A[i].key
    OBVIOUS
  <2>3. InArray(B, c) = InArray(A, c) \ {k}
    BY <1>1, <1>7, <2>1, <2>2, KeysOf
  <2>4. PICK K : K = InArray(A, c)
    OBVIOUS
  <2>5. IsFiniteSet(K)
    BY <1>1, <2>1, <2>4, KeysCounted
  <2>6. k \in K
    <3>1. k \in Key
      BY <1>2, <2>1, <2>2, ArrayEntry, FieldTypes
    <3>2. QED
      BY <2>2, <2>4, <3>1 DEF InArray
  <2>7. Cardinality(K \ {k}) = Cardinality(K) - 1
    BY <2>5, <2>6, FS_RemoveElement
  <2>8. QED
    BY <1>1, <1>2, <1>4, <2>3, <2>4, <2>7
<1>10. TableOk(c, u)
  BY <1>1, <1>7, <1>9, TableIf
<1>11. LosesSlot(t, i) <=> Moves(t, i) /\ n > last
  BY <1>2, <1>3, <1>5 DEF LosesSlot
<1>12. BelowLast(c, t) /\ ~LosesSlot(t, i) => BelowLast(c, u)
  BY <1>2, <1>3, <1>7, <1>8, <1>11 DEF BelowLast
<1>13. \A x \in Key, w \in Val \cup {NoVal} : Hold(u.at, c, x, w) <=> Hold(t.at, c, x, w) /\ x # t.at[i].key
  BY <1>2, <1>7, <1>8 DEF Loses
<1>14. QED
  BY <1>2, <1>5, <1>7, <1>8, <1>10, <1>12, <1>13 DEF Removes

(* aloH_set with a key that is there. *)
ValueAt(t, i, v) == [t EXCEPT !.at[i].val = v]

ValueSet(A, i, v, B) == B = [A EXCEPT ![i].val = v]

(* A table with another value in one entry.                                *)
LEMMA ValueAtIs ==
  ASSUME NEW c, NEW len, NEW last, NEW A \in Arrays(c), NEW i, NEW v, NEW t, t = Tab(c, len, last, A),
         NEW B, ValueSet(A, i, v, B)
  PROVE  ValueAt(t, i, v) = Tab(c, len, last, B)
<1>1. t.at = A
  BY TabFields
<1>2. ValueAt(t, i, v) = [t EXCEPT !.at = B]
  BY <1>1 DEF ValueAt, ValueSet
<1>3. [t EXCEPT !.at = B] = Tab(c, len, last, B)
  BY DEF Tab
<1>4. QED
  BY <1>2, <1>3, Zenon

Updates(c, t, i, k, v, u) ==
  /\ TableOk(c, u) /\ u.capacity = c
  /\ BelowLast(c, t) => BelowLast(c, u)
  /\ \A x \in 0..(c - 1) : u.at[x].key = t.at[x].key
  /\ \A x \in Key, w \in Val \cup {NoVal} :
       Hold(u.at, c, x, w) <=> IF x = k THEN w = v ELSE Hold(t.at, c, x, w)

(* aloH_find with a key that is there changes its value only.              *)
LEMMA UpdateTable ==
  ASSUME NEW c, NEW t, TableOk(c, t), NEW i \in 0..(c - 1), NEW k \in Key, t.at[i].key = k,
         NEW v \in Val, NEW u, u = ValueAt(t, i, v)
  PROVE  Updates(c, t, i, k, v, u)
<1>1. /\ c \in Nat /\ t = Tab(c, t.length, t.lastfree, t.at) /\ t.lastfree \in -1..(c - 1)
      /\ t.at \in Arrays(c) /\ Chained(t.at, c) /\ Once(t.at, c)
      /\ t.length = Cardinality(InArray(t.at, c))
  BY TabIs DEF TableOk
<1>2. PICK A \in Arrays(c) : A = t.at
  BY <1>1
<1>3. PICK last \in -1..(c - 1) : last = t.lastfree
  BY <1>1
<1>4. PICK len : len = t.length
  OBVIOUS
<1>5. PICK B : ValueSet(A, i, v, B)
  BY DEF ValueSet
<1>6. u = Tab(c, len, last, B)
  <2>1. t = Tab(c, len, last, A)
    BY <1>1, <1>2, <1>3, <1>4
  <2>2. ValueAt(t, i, v) = Tab(c, len, last, B)
    BY <1>5, <2>1, ValueAtIs
  <2>3. QED
    BY <2>2
<1>7. u.at = B /\ u.lastfree = last /\ u.capacity = c
  BY <1>6, TabFields
<1>8. /\ B \in Arrays(c) /\ B[i].val = v
      /\ \A x \in 0..(c - 1) : /\ B[x].key = A[x].key /\ B[x].prev = A[x].prev /\ B[x].next = A[x].next
                               /\ x # i => B[x] = A[x]
  BY <1>5 DEF Arrays, Entry, ValueSet
<1>9. A[i].key = k /\ k # NoKey
  BY <1>2, TableAssumption
<1>10. Chained(B, c)
  <2>1. Chained(A, c)
    BY <1>1, <1>2
  <2>2. ASSUME NEW x \in 0..(c - 1)
        PROVE  /\ B[x].key = A[x].key /\ B[x].prev = A[x].prev /\ B[x].next = A[x].next
               /\ A[x].key = NoKey => B[x] = A[x]
    BY <1>8, <1>9
  <2>3. QED
    BY <1>1, <1>8, <2>1, <2>2, SameLinked
<1>11. Once(A, c) /\ Once(B, c)
  BY <1>1, <1>2, <1>8 DEF Once
<1>12. InArray(B, c) = InArray(A, c)
  BY <1>8 DEF InArray
<1>13. TableOk(c, u)
  BY <1>1, <1>2, <1>4, <1>6, <1>10, <1>11, <1>12, TableIf
<1>14. BelowLast(c, t) => BelowLast(c, u)
  BY <1>2, <1>3, <1>7, <1>8 DEF BelowLast, AllBelow
<1>15. ASSUME NEW x \in Key, NEW w
       PROVE  Hold(B, c, x, w) <=> IF x = k THEN w = v ELSE Hold(A, c, x, w)
  <2>1. CASE x = k
    <3>1. \A j \in 0..(c - 1) : B[j].key = k => j = i
      BY <1>8, <1>9, <1>11 DEF Once
    <3>2. QED
      BY <1>8, <1>9, <2>1, <3>1 DEF Hold
  <2>2. CASE x # k
    BY <1>8, <1>9, <2>2 DEF Hold
  <2>3. QED
    BY <2>1, <2>2
<1>16. QED
  BY <1>2, <1>7, <1>8, <1>13, <1>14, <1>15 DEF Updates

-----------------------------------------------------------------------------
(* The invariant.                                                          *)

(* What an iterator has yet to yield is ahead of it. *)
DueAhead == off # NoItr => due \subseteq {tab.at[i].key : i \in Ahead}

IInv == TypeOK /\ TableOk(tab.capacity, tab) /\ FreeUnlessMoved /\ DueAhead

(* Some definitions in terms of the array. *)
LEMMA InTerms ==
  ASSUME NEW c, NEW t, TableOk(c, t)
  PROVE  /\ t.capacity = c /\ c \in Nat /\ t.at \in Arrays(c) /\ Slots(t) = 0..(c - 1)
         /\ Used(t) = InUse(t.at, c) /\ Keys(t) = InArray(t.at, c)
         /\ FreeSlots(t) = {i \in 0..(c - 1) : t.at[i].key = NoKey}
<1>1. t.capacity = c /\ c \in Nat /\ t.at \in Arrays(c)
  BY TabIs DEF TableOk
<1>2. Slots(t) = 0..(c - 1)
  BY <1>1 DEF Slots
<1>3. FreeSlots(t) = {i \in 0..(c - 1) : t.at[i].key = NoKey}
  BY <1>2 DEF FreeSlots, IsFree
<1>4. Used(t) = InUse(t.at, c)
  BY <1>2, <1>3 DEF Used, InUse
<1>5. Keys(t) = InArray(t.at, c)
  <2>1. \A i \in InUse(t.at, c) : t.at[i].key \in Key /\ i \in 0..(c - 1)
    BY <1>1, ArrayEntry, FieldTypes DEF InUse
  <2>2. \A k \in InArray(t.at, c) : \E i \in InUse(t.at, c) : t.at[i].key = k
    BY TableAssumption DEF InArray, InUse
  <2>3. InArray(t.at, c) = {k \in Key : \E i \in 0..(c - 1) : t.at[i].key = k}
    BY DEF InArray
  <2>4. QED
    BY <1>4, <2>1, <2>2, <2>3 DEF Keys
<1>6. QED
  BY <1>1, <1>2, <1>3, <1>4, <1>5

(* A slot behind lastfree is free only if one was freed by a move. *)
LEMMA LastFreeIs ==
  ASSUME NEW c, NEW t, TableOk(c, t)
  PROVE  BelowLast(c, t) <=> \A i \in FreeSlots(t) : i <= t.lastfree
BY InTerms DEF BelowLast, AllBelow

(* The invariant after a step, from the table and iterator it leaves. *)
LEMMA Reinstated ==
  ASSUME NEW d \in 0..MaxSize, TableOk(d, tab'), moved' \in BOOLEAN, moved' \/ BelowLast(d, tab'),
         \/ off' = NoItr /\ due' = {}
         \/ /\ off' \in -1..(d - 1) /\ due' \subseteq Key
            /\ \A k \in due' : \E i \in 0..(d - 1) : i > off' /\ tab'.at[i].key = k
  PROVE  IInv'
<1>1. tab'.capacity = d /\ tab' \in Table(d)
  BY TabIs DEF TableOk
<1>2. off' = NoItr \/ off' \in -1..(d - 1)
  OBVIOUS
<1>3. due' \subseteq Key
  OBVIOUS
<1>4. TypeOK'
  BY <1>1, <1>2, <1>3 DEF TypeOK
<1>5. TableOk(tab.capacity, tab)'
  BY <1>1
<1>6. FreeUnlessMoved'
  BY LastFreeIs DEF FreeUnlessMoved, FreeBelowLast
<1>7. DueAhead'
  <2>1. CASE off' = NoItr
    BY <2>1 DEF DueAhead
  <2>2. CASE off' # NoItr
    <3>1. SUFFICES ASSUME NEW k \in due' PROVE \E i \in Ahead' : tab'.at[i].key = k
      BY DEF DueAhead
    <3>2. PICK i \in 0..(d - 1) : i > off' /\ tab'.at[i].key = k
      BY <2>2, <3>1
    <3>3. tab'.at[i].key # NoKey
      BY <1>3, <3>1, <3>2, TableAssumption
    <3>4. i \in Used(tab')
      BY <3>3, InTerms DEF InUse
    <3>5. i \in Ahead'
      BY <3>2, <3>4 DEF Ahead
    <3>6. QED
      BY <3>2, <3>5
  <2>3. QED
    BY <2>1, <2>2
<1>8. QED
  BY <1>4, <1>5, <1>6, <1>7 DEF IInv

(* The invariant gives. *)
LEMMA InvGives ==
  ASSUME IInv, NEW c, c = tab.capacity
  PROVE  /\ c \in 0..MaxSize /\ c \in Nat /\ TableOk(c, tab) /\ moved \in BOOLEAN
         /\ moved \/ BelowLast(c, tab)
         /\ off = NoItr \/ off \in -1..(c - 1)
         /\ due \subseteq Key
         /\ off # NoItr => \A k \in due : \E i \in 0..(c - 1) : i > off /\ tab.at[i].key = k
<1>1. /\ c \in 0..MaxSize /\ TableOk(c, tab) /\ moved \in BOOLEAN
      /\ off = NoItr \/ off \in -1..(c - 1)
      /\ due \subseteq Key
  BY DEF IInv, TypeOK
<1>2. c \in Nat
  BY <1>1 DEF TableOk
<1>3. moved \/ BelowLast(c, tab)
  BY <1>1, LastFreeIs DEF IInv, FreeUnlessMoved, FreeBelowLast
<1>4. ASSUME off # NoItr, NEW k \in due PROVE \E i \in 0..(c - 1) : i > off /\ tab.at[i].key = k
  <2>1. PICK i \in Ahead : tab.at[i].key = k
    BY <1>4 DEF IInv, DueAhead
  <2>2. i \in Used(tab) /\ i > off
    BY <2>1 DEF Ahead
  <2>3. i \in 0..(c - 1)
    BY <1>1, <2>2, InTerms DEF InUse
  <2>4. QED
    BY <2>1, <2>2, <2>3
<1>5. QED
  BY <1>1, <1>2, <1>3, <1>4

(* The invariant holds of a new table.                                     *)
LEMMA InitInv == Init => IInv
<1> SUFFICES ASSUME Init PROVE IInv
  OBVIOUS
<1>1. tab = NewTable
  BY DEF Init
<1>11. tab = Blank(0, 0)
  BY <1>1, NewTableIs, Zenon
<1>2. off = NoItr /\ due = {} /\ moved = FALSE
  BY DEF Init
<1>3. TableOk(0, tab) /\ BelowLast(0, tab)
  BY <1>11, BlankTable
<1>4. tab.capacity = 0 /\ tab \in Table(0)
  BY <1>3, TabIs DEF TableOk
<1>5. TypeOK
  <2>1. 0 \in 0..MaxSize /\ {} \subseteq Key /\ FALSE \in BOOLEAN
    BY TableAssumption
  <2>2. QED
    BY <1>2, <1>4, <2>1, Zenon DEF TypeOK
<1>6. FreeUnlessMoved
  BY <1>3, LastFreeIs DEF FreeUnlessMoved, FreeBelowLast
<1>7. DueAhead
  BY <1>2 DEF DueAhead
<1>8. QED
  BY <1>3, <1>4, <1>5, <1>6, <1>7 DEF IInv

-----------------------------------------------------------------------------
(* One lemma per operation: what it does to the table.                     *)

LEMMA UpdateStep ==
  ASSUME IInv, NEW c, c = tab.capacity, NEW k \in Key, NEW v \in Val, Update(k, v)
  PROVE  \E i \in 0..(c - 1) : Updates(c, tab, i, k, v, tab')
<1>1. TableOk(c, tab)
  BY InvGives
<1>2. k \in Present(tab)
  BY DEF Update
<1>3. PICK i : i = SlotOf(tab, k)
  OBVIOUS
<1>4. i \in 0..(c - 1) /\ tab.at[i].key = k
  BY <1>1, <1>2, <1>3, KeyFound
<1>5. tab' = ValueAt(tab, i, v)
  BY <1>3 DEF Update, ValueAt
<1>6. QED
  BY <1>1, <1>4, <1>5, UpdateTable

(* What a step that sets a new key does to the table.                      *)
LEMMA InsertStep ==
  ASSUME IInv, NEW c, c = tab.capacity, NEW k \in Key, NEW v \in Val, Insert(k, v)
  PROVE  \E d : Inserts(c, tab, k, v, d, tab')
<1>1. c \in 0..MaxSize /\ TableOk(c, tab)
  BY InvGives
<1>2. PICK s : s = Ensured(tab, 1)
  OBVIOUS
<1>3. /\ k \notin Present(tab) /\ CanEnsure(tab, 1)
      /\ IsFree(s, HeadOf(s, k)) \/ FreeBelow(s) # {}
      /\ tab' = Place(Longer(s), k, v)
  BY <1>2 DEF Insert, Longer
<1>4. PICK r : r = Longer(s)
  OBVIOUS
<1>5. tab' = Place(r, k, v)
  BY <1>3, <1>4
<1>6. QED
  BY <1>1, <1>2, <1>3, <1>4, <1>5, InsertTable

(* What a step that removes a key does to the table.                       *)
LEMMA RemoveStep ==
  ASSUME IInv, NEW c, c = tab.capacity, NEW k \in Present(tab), ~Middle(tab, SlotOf(tab, k)), RemoveKey(k)
  PROVE  /\ Removes(c, tab, SlotOf(tab, k), tab') /\ tab.at[SlotOf(tab, k)].key = k
         /\ SlotOf(tab, k) \in 0..(c - 1) /\ k \in Key
<1>1. TableOk(c, tab) /\ k \in Key
  BY InvGives DEF Present
<1>2. PICK i : i = SlotOf(tab, k)
  OBVIOUS
<1>3. i \in 0..(c - 1) /\ tab.at[i].key = k
  BY <1>1, <1>2, KeyFound
<1>4. tab.at[i].key # NoKey
  BY <1>1, <1>3, TableAssumption
<1>5. tab' = Remove(tab, i) /\ ~Middle(tab, i)
  BY <1>2 DEF RemoveKey
<1>6. QED
  BY <1>1, <1>2, <1>3, <1>4, <1>5, RemoveTable

(* What removing the entry at the iterator does to the table.              *)
LEMMA IterRemoveStep ==
  ASSUME IInv, NEW c, c = tab.capacity, off \in Used(tab), ~Middle(tab, off), IterRemove
  PROVE  Removes(c, tab, off, tab') /\ off \in 0..(c - 1) /\ tab.at[off].key \in Key
<1>1. TableOk(c, tab)
  BY InvGives
<1>2. off \in 0..(c - 1) /\ tab.at[off].key # NoKey
  BY <1>1, InTerms DEF InUse
<1>3. tab' = Remove(tab, off)
  BY DEF IterRemove
<1>4. PICK i \in 0..(c - 1) : i = off
  BY <1>2
<1>5. Removes(c, tab, i, tab')
  BY <1>1, <1>2, <1>3, <1>4, RemoveTable
<1>6. tab.at[off].key \in Key
  BY <1>1, <1>2, InTerms, ArrayEntry, FieldTypes
<1>7. QED
  BY <1>2, <1>4, <1>5, <1>6

(* The keys an iterator has yet to yield are still ahead of it after it    *)
(* removed its entry.                                                      *)
LEMMA StillAhead ==
  ASSUME NEW c \in Nat, NEW t, NEW i \in 0..(c - 1), NEW u, Removes(c, t, i, u),
         NEW x \in 0..(c - 1), x > i, NEW o, o = IF Moves(t, i) THEN i - 1 ELSE i
  PROVE  \E y \in 0..(c - 1) : y > o /\ u.at[y].key = t.at[x].key
<1>1. PICK n : n = i + t.at[i].next
  OBVIOUS
<1>2. /\ Moves(t, i) => u.at[i].key = t.at[n].key
      /\ \A y \in 0..(c - 1) : y # i /\ ~(Moves(t, i) /\ y = n) => u.at[y].key = t.at[y].key
  BY <1>1 DEF Removes
<1>3. x # i
  OBVIOUS
<1>4. CASE Moves(t, i) /\ x = n
  <2>1. i > o
    BY <1>4
  <2>2. u.at[i].key = t.at[x].key
    BY <1>2, <1>4
  <2>3. QED
    BY <2>1, <2>2
<1>5. CASE ~(Moves(t, i) /\ x = n)
  <2>1. x > o
    OBVIOUS
  <2>2. u.at[x].key = t.at[x].key
    BY <1>2, <1>3, <1>5
  <2>3. QED
    BY <2>1, <2>2
<1>6. QED
  BY <1>4, <1>5

(* Setting a key that is there preserves the invariant.                    *)
LEMMA UpdateInv == ASSUME IInv, NEW k \in Key, NEW v \in Val, Update(k, v) PROVE IInv'
<1>1. PICK c : c = tab.capacity
  OBVIOUS
<1>2. PICK i \in 0..(c - 1) : Updates(c, tab, i, k, v, tab')
  BY <1>1, UpdateStep
<1>3. /\ TableOk(c, tab') /\ (BelowLast(c, tab) => BelowLast(c, tab'))
      /\ \A x \in 0..(c - 1) : tab'.at[x].key = tab.at[x].key
  BY <1>2 DEF Updates
<1>4. off' = off /\ due' = due /\ moved' = moved
  BY DEF Update
<1>5. /\ c \in 0..MaxSize /\ moved \in BOOLEAN /\ (moved \/ BelowLast(c, tab))
      /\ off = NoItr \/ off \in -1..(c - 1)
      /\ due \subseteq Key
      /\ off # NoItr => \A x \in due : \E j \in 0..(c - 1) : j > off /\ tab.at[j].key = x
  BY <1>1, InvGives
<1>6. CASE off # NoItr
  <2>1. \A x \in due : \E j \in 0..(c - 1) : j > off /\ tab'.at[j].key = x
    BY <1>3, <1>5, <1>6
  <2>2. off' \in -1..(c - 1) /\ due' \subseteq Key /\ moved' \in BOOLEAN /\ (moved' \/ BelowLast(c, tab'))
    BY <1>3, <1>4, <1>5, <1>6
  <2>3. \A x \in due' : \E j \in 0..(c - 1) : j > off' /\ tab'.at[j].key = x
    BY <1>4, <2>1
  <2>4. QED
    BY <1>3, <1>5, <2>2, <2>3, Reinstated
<1>7. CASE off = NoItr
  <2>1. /\ TypeOK' /\ FreeUnlessMoved' /\ TableOk(tab.capacity, tab)'
    <3>1. tab'.capacity = c /\ tab' \in Table(c)
      BY <1>3, TabIs DEF TableOk
    <3>2. off' = NoItr /\ due' \subseteq Key /\ moved' \in BOOLEAN
      BY <1>4, <1>5, <1>7
    <3>3. TypeOK'
      BY <1>5, <3>1, <3>2 DEF TypeOK
    <3>4. FreeUnlessMoved'
      BY <1>3, <1>4, <1>5, LastFreeIs DEF FreeUnlessMoved, FreeBelowLast
    <3>5. QED
      BY <1>3, <3>1, <3>3, <3>4
  <2>2. DueAhead'
    BY <1>4, <1>7 DEF DueAhead
  <2>3. QED
    BY <2>1, <2>2 DEF IInv
<1>8. QED
  BY <1>6, <1>7

(* Setting a new key preserves the invariant.                              *)
LEMMA InsertInv == ASSUME IInv, NEW k \in Key, NEW v \in Val, Insert(k, v) PROVE IInv'
<1>1. PICK c : c = tab.capacity
  OBVIOUS
<1>2. PICK d : Inserts(c, tab, k, v, d, tab')
  BY <1>1, InsertStep
<1>3. /\ d \in 0..MaxSize /\ TableOk(d, tab')
      /\ BelowLast(c, tab) \/ LaidOut(tab, 1) => BelowLast(d, tab')
  BY <1>2 DEF Inserts
<1>4. moved \in BOOLEAN /\ (moved \/ BelowLast(c, tab))
  BY <1>1, InvGives
<1>5. moved' = (moved /\ ~LaidOut(tab, 1)) /\ off' = NoItr /\ due' = {}
  BY DEF Insert, Edited
<1>6. moved' \in BOOLEAN /\ (moved' \/ BelowLast(d, tab'))
  BY <1>3, <1>4, <1>5
<1>7. QED
  BY <1>3, <1>5, <1>6, Reinstated

(* Removing a key preserves the invariant.                                 *)
LEMMA RemoveInv ==
  ASSUME IInv, NEW k \in Present(tab), ~Middle(tab, SlotOf(tab, k)), RemoveKey(k) PROVE IInv'
<1>1. PICK c : c = tab.capacity
  OBVIOUS
<1>2. PICK i : i = SlotOf(tab, k)
  OBVIOUS
<1>3. Removes(c, tab, i, tab')
  BY <1>1, <1>2, RemoveStep
<1>4. TableOk(c, tab') /\ (BelowLast(c, tab) /\ ~LosesSlot(tab, i) => BelowLast(c, tab'))
  BY <1>3 DEF Removes
<1>5. c \in 0..MaxSize /\ moved \in BOOLEAN /\ (moved \/ BelowLast(c, tab))
  BY <1>1, InvGives
<1>6. moved' = (moved \/ LosesSlot(tab, i)) /\ off' = NoItr /\ due' = {}
  BY <1>2 DEF RemoveKey, Edited
<1>7. moved' \in BOOLEAN /\ (moved' \/ BelowLast(c, tab'))
  <2>1. LosesSlot(tab, i) \in BOOLEAN
    BY DEF LosesSlot
  <2>2. QED
    BY <1>4, <1>5, <1>6, <2>1
<1>8. QED
  BY <1>4, <1>5, <1>6, <1>7, Reinstated

(* Removing the entry at the iterator preserves the invariant: the         *)
(* iterator steps back, so the entry that is moved to its slot is still    *)
(* ahead.                                                                  *)
LEMMA IterRemoveInv == ASSUME IInv, off \in Used(tab), ~Middle(tab, off), IterRemove PROVE IInv'
<1>1. PICK c : c = tab.capacity
  OBVIOUS
<1>2. Removes(c, tab, off, tab') /\ off \in 0..(c - 1)
  BY <1>1, IterRemoveStep
<1>3. PICK i \in 0..(c - 1) : i = off
  BY <1>2
<1>4. /\ Removes(c, tab, i, tab') /\ TableOk(c, tab')
      /\ BelowLast(c, tab) /\ ~LosesSlot(tab, i) => BelowLast(c, tab')
  BY <1>2, <1>3 DEF Removes
<1>5. /\ c \in 0..MaxSize /\ c \in Nat /\ moved \in BOOLEAN /\ (moved \/ BelowLast(c, tab))
      /\ due \subseteq Key
      /\ off # NoItr => \A x \in due : \E j \in 0..(c - 1) : j > off /\ tab.at[j].key = x
  BY <1>1, InvGives
<1>6. /\ moved' = (moved \/ LosesSlot(tab, i)) /\ due' = due
      /\ off' = IF Moves(tab, i) THEN i - 1 ELSE i
  BY <1>3 DEF IterRemove
<1>7. moved' \in BOOLEAN /\ (moved' \/ BelowLast(c, tab'))
  <2>1. LosesSlot(tab, i) \in BOOLEAN
    BY DEF LosesSlot
  <2>2. QED
    BY <1>4, <1>5, <1>6, <2>1
<1>8. off' \in -1..(c - 1)
  <2>1. i - 1 \in -1..(c - 1) /\ i \in -1..(c - 1)
    BY <1>5
  <2>2. CASE Moves(tab, i)
    BY <1>6, <2>1, <2>2
  <2>3. CASE ~Moves(tab, i)
    BY <1>6, <2>1, <2>3
  <2>4. QED
    BY <2>2, <2>3
<1>9. ASSUME NEW x \in due' PROVE \E y \in 0..(c - 1) : y > off' /\ tab'.at[y].key = x
  <2>1. PICK j \in 0..(c - 1) : j > i /\ tab.at[j].key = x
    <3>1. off # NoItr
      BY <1>3 DEF NoItr
    <3>2. QED
      BY <1>3, <1>5, <1>6, <1>9, <3>1
  <2>2. \E y \in 0..(c - 1) : y > off' /\ tab'.at[y].key = tab.at[j].key
    BY <1>4, <1>5, <1>6, <2>1, StillAhead
  <2>3. QED
    BY <2>1, <2>2
<1>10. due' \subseteq Key
  BY <1>5, <1>6
<1>11. QED
  BY <1>4, <1>5, <1>7, <1>8, <1>9, <1>10, Reinstated

(* Clearing preserves the invariant.                                       *)
LEMMA ClearInv == ASSUME IInv, Clear PROVE IInv'
<1>1. PICK c : c = tab.capacity
  OBVIOUS
<1>2. c \in 0..MaxSize /\ c \in Nat
  BY <1>1, InvGives
<1>3. tab' = Blank(c, 0)
  BY <1>1, Zenon DEF Clear
<1>4. TableOk(c, tab') /\ BelowLast(c, tab')
  BY <1>2, <1>3, BlankTable
<1>5. moved' = FALSE /\ off' = NoItr /\ due' = {}
  BY Zenon DEF Clear, Edited
<1>6. QED
  BY <1>2, <1>4, <1>5, Reinstated

(* A size hint preserves the invariant.                                    *)
LEMMA EnsureInv == ASSUME IInv, NEW n \in 1..MaxSize, Ensure(n) PROVE IInv'
<1>1. PICK c : c = tab.capacity
  OBVIOUS
<1>2. c \in 0..MaxSize /\ TableOk(c, tab)
  BY <1>1, InvGives
<1>3. LaidOut(tab, n) /\ CanEnsure(tab, n) /\ tab' = Ensured(tab, n) /\ n \in Nat
  BY DEF Ensure
<1>4. PICK d : EnsuredTo(c, tab, n, d, tab')
  BY <1>2, <1>3, EnsuredOk
<1>5. d \in 0..MaxSize /\ TableOk(d, tab') /\ BelowLast(d, tab')
  BY <1>3, <1>4 DEF EnsuredTo
<1>6. moved' = FALSE /\ off' = NoItr /\ due' = {}
  BY DEF Ensure, Edited
<1>7. QED
  BY <1>5, <1>6, Reinstated

(* aloH_trim. *)
LEMMA TrimStep ==
  ASSUME IInv, NEW c, c = tab.capacity, Trim
  PROVE  \E d \in 0..MaxSize : TableOk(d, tab') /\ BelowLast(d, tab') /\ Same(c, tab, d, tab')
<1>1. c \in 0..MaxSize /\ c \in Nat /\ TableOk(c, tab)
  BY InvGives
<1>2. tab.length = Cardinality(InArray(tab.at, c)) /\ tab.at \in Arrays(c) /\ Once(tab.at, c)
  BY <1>1, TabIs DEF TableOk
<1>3. CASE tab.length = 0 /\ tab' = NewTable
  <2>1. tab' = Blank(0, 0)
    BY <1>3, NewTableIs, Zenon
  <2>2. TableOk(0, tab') /\ BelowLast(0, tab')
    BY <2>1, BlankTable
  <2>3. InArray(tab.at, c) = {}
    <3>1. IsFiniteSet(InArray(tab.at, c))
      BY <1>1, <1>2, KeysCounted
    <3>2. Cardinality(InArray(tab.at, c)) = 0
      BY <1>2, <1>3
    <3>3. QED
      BY <3>1, <3>2, FS_EmptySet
  <2>4. \A x \in Key : \A w : ~Hold(tab.at, c, x, w)
    BY <2>3 DEF InArray, Hold
  <2>5. \A x \in Key : \A w : ~Hold(tab'.at, 0, x, w)
    BY DEF Hold
  <2>6. Same(c, tab, 0, tab')
    BY <2>4, <2>5 DEF Same
  <2>7. 0 \in 0..MaxSize
    BY TableAssumption
  <2>8. QED
    BY <2>2, <2>6, <2>7
<1>4. CASE tab.length \in 1..((tab.capacity \div 4) - 1) /\ tab' = Resize(tab, tab.capacity \div 2)
  <2>1. PICK d \in 0..MaxSize : d = c \div 2 /\ tab.length <= d /\ d \in Nat
    <3>1. c \div 2 \in Nat /\ c \div 2 <= c /\ c \div 4 <= c \div 2
      BY <1>1
    <3>2. tab.length \in 1..((c \div 4) - 1)
      BY <1>4
    <3>3. c \div 4 \in Int
      BY <1>1
    <3>4. tab.length <= c \div 2
      BY <3>1, <3>2, <3>3
    <3>5. c \div 2 \in 0..MaxSize
      BY <1>1, <3>1, TableAssumption
    <3>6. QED
      BY <3>1, <3>4, <3>5
  <2>2. tab' = Resize(tab, d)
    BY <1>4, <2>1
  <2>3. TableOk(d, tab') /\ BelowLast(d, tab') /\ Same(c, tab, d, tab')
    BY <1>1, <2>1, <2>2, ResizedTable
  <2>4. QED
    BY <2>3
<1>5. QED
  BY <1>3, <1>4 DEF Trim

(* Trimming preserves the invariant.                                       *)
LEMMA TrimInv == ASSUME IInv, Trim PROVE IInv'
<1>1. PICK c : c = tab.capacity
  OBVIOUS
<1>2. PICK d \in 0..MaxSize : TableOk(d, tab') /\ BelowLast(d, tab')
  BY <1>1, TrimStep
<1>3. moved' = FALSE /\ off' = NoItr /\ due' = {}
  BY Zenon DEF Trim, Edited
<1>4. QED
  BY <1>2, <1>3, Reinstated

(* Starting an iteration preserves the invariant: every key is ahead.      *)
LEMMA IterateInv == ASSUME IInv, Iterate PROVE IInv'
<1>1. PICK c : c = tab.capacity
  OBVIOUS
<1>2. /\ c \in 0..MaxSize /\ c \in Nat /\ TableOk(c, tab) /\ moved \in BOOLEAN
      /\ moved \/ BelowLast(c, tab)
  BY <1>1, InvGives
<1>3. off' = -1 /\ due' = Keys(tab) /\ tab' = tab /\ moved' = moved
  BY DEF Iterate
<1>4. due' = InArray(tab.at, c)
  BY <1>2, <1>3, InTerms
<1>5. due' \subseteq Key /\ \A x \in due' : \E i \in 0..(c - 1) : tab.at[i].key = x
  BY <1>4 DEF InArray
<1>6. off' \in -1..(c - 1) /\ \A x \in due' : \E i \in 0..(c - 1) : i > off' /\ tab'.at[i].key = x
  <2>1. \A i \in 0..(c - 1) : i > off'
    BY <1>3
  <2>2. QED
    BY <1>2, <1>3, <1>5, <2>1
<1>7. TableOk(c, tab') /\ moved' \in BOOLEAN /\ (moved' \/ BelowLast(c, tab'))
  BY <1>2, <1>3
<1>8. QED
  BY <1>2, <1>5, <1>6, <1>7, Reinstated

(* A step of the iterator preserves the invariant: it yields the first key *)
(* ahead and passes free slots only.                                       *)
LEMMA IterNextInv == ASSUME IInv, IterNext PROVE IInv'
<1>1. PICK c : c = tab.capacity
  OBVIOUS
<1>2. /\ c \in 0..MaxSize /\ c \in Nat /\ TableOk(c, tab) /\ moved \in BOOLEAN
      /\ moved \/ BelowLast(c, tab)
      /\ off = NoItr \/ off \in -1..(c - 1)
      /\ due \subseteq Key
      /\ off # NoItr => \A x \in due : \E j \in 0..(c - 1) : j > off /\ tab.at[j].key = x
  BY <1>1, InvGives
<1>3. /\ off # NoItr /\ Ahead # {} /\ off' = Min(Ahead) /\ due' = due \ {tab.at[off'].key}
      /\ tab' = tab /\ moved' = moved
  BY DEF IterNext
<1>4. Ahead = {i \in 0..(c - 1) : tab.at[i].key # NoKey /\ i > off}
  BY <1>2, InTerms DEF Ahead, InUse
<1>5. off' \in Ahead /\ \A i \in Ahead : off' <= i
  <2>1. PICK S : S = Ahead
    OBVIOUS
  <2>2. S \in SUBSET Nat /\ S # {}
    BY <1>3, <1>4, <2>1
  <2>3. \E x \in S : \A y \in S : x =< y
    BY <2>2, LeastExists
  <2>4. off' = CHOOSE x \in S : \A y \in S : x =< y
    BY <1>3, <2>1 DEF Min
  <2>5. QED
    BY <2>1, <2>3, <2>4
<1>6. off' \in 0..(c - 1) /\ due' \subseteq Key
  BY <1>2, <1>3, <1>4, <1>5
<1>7. ASSUME NEW x \in due' PROVE \E i \in 0..(c - 1) : i > off' /\ tab'.at[i].key = x
  <2>1. x \in due /\ x # tab.at[off'].key
    BY <1>3, <1>7
  <2>2. PICK i \in 0..(c - 1) : i > off /\ tab.at[i].key = x
    BY <1>2, <1>3, <2>1
  <2>3. x # NoKey
    BY <1>2, <2>1, TableAssumption
  <2>4. i \in Ahead
    BY <1>4, <2>2, <2>3
  <2>5. off' <= i /\ i # off'
    BY <1>5, <2>1, <2>2, <2>4
  <2>6. i > off'
    BY <1>6, <2>5
  <2>7. QED
    BY <1>3, <2>2, <2>6
<1>8. TableOk(c, tab') /\ moved' \in BOOLEAN /\ (moved' \/ BelowLast(c, tab')) /\ off' \in -1..(c - 1)
  BY <1>2, <1>3, <1>6
<1>9. QED
  BY <1>2, <1>6, <1>7, <1>8, Reinstated

(* A step that changes nothing preserves the invariant.                    *)
LEMMA StutterInv == ASSUME IInv, UNCHANGED vars PROVE IInv'
<1>1. tab' = tab /\ off' = off /\ due' = due /\ moved' = moved
  BY DEF vars
<1>2. TypeOK' /\ TableOk(tab.capacity, tab)' /\ FreeUnlessMoved'
  BY <1>1 DEF IInv, TypeOK, FreeUnlessMoved, FreeBelowLast
<1>3. DueAhead'
  BY <1>1 DEF IInv, DueAhead, Ahead
<1>4. QED
  BY <1>2, <1>3 DEF IInv

(* Every step preserves the invariant.                                     *)
LEMMA NextInv == IInv /\ [SafeNext]_vars => IInv'
<1> SUFFICES ASSUME IInv, [SafeNext]_vars PROVE IInv'
  OBVIOUS
<1>1. CASE \E k \in Key, v \in Val : Update(k, v) \/ Insert(k, v)
  BY <1>1, UpdateInv, InsertInv
<1>2. CASE Clear \/ (\E n \in 1..MaxSize : Ensure(n)) \/ Trim
  BY <1>2, ClearInv, EnsureInv, TrimInv
<1>3. CASE Iterate \/ IterNext
  BY <1>3, IterateInv, IterNextInv
<1>4. CASE \E k \in Present(tab) : ~Middle(tab, SlotOf(tab, k)) /\ RemoveKey(k)
  BY <1>4, RemoveInv
<1>5. CASE off \in Used(tab) /\ ~Middle(tab, off) /\ IterRemove
  BY <1>5, IterRemoveInv
<1>6. CASE UNCHANGED vars
  BY <1>6, StutterInv
<1>7. QED
  BY <1>1, <1>2, <1>3, <1>4, <1>5, <1>6 DEF SafeNext, Keep

-----------------------------------------------------------------------------
(* What the invariant is for.                                              *)

(* The inductive invariant: for every set of keys, every hash and every    *)
(* limit, as long as no key is removed from the middle of a chain,         *)
(* setting, removing, iterating, growing, trimming and clearing (atab.c)   *)
(* keep the chains ranked, each key once and the length the number of      *)
(* keys.                                                                   *)
THEOREM Invariant == SafeSpec => []IInv
BY InitInv, NextInv, PTL DEF SafeSpec

(* The fields of a table, of its entries and of the iterator keep their    *)
(* types: lengths within the capacity, lastfree within the array or -1.    *)
THEOREM TypeCorrect == SafeSpec => []TypeOK
BY Invariant, PTL DEF IInv

(* Between removals that move nothing, every free slot is below lastfree,  *)
(* so that newety (atab.c:92) returns a slot whenever the table has one    *)
(* free.                                                                   *)
THEOREM FreeIsKnown == SafeSpec => []FreeUnlessMoved
BY Invariant, PTL DEF IInv

(* The ranks order the chains, so they have no circle, and every link      *)
(* leads to an entry of the same chain and back.                           *)
LEMMA ChainsAre == IInv => ChainsWellFormed
<1> SUFFICES ASSUME IInv PROVE ChainsWellFormed
  OBVIOUS
<1>1. PICK c : c = tab.capacity
  OBVIOUS
<1>2. PICK A : A = tab.at
  OBVIOUS
<1>3. c \in Nat /\ TableOk(c, tab) /\ Chained(A, c) /\ A \in Arrays(c)
  <2>1. TableOk(c, tab)
    BY <1>1, InvGives
  <2>2. QED
    BY <1>2, <2>1, InTerms DEF TableOk
<1>4. Used(tab) = InUse(A, c) /\ FreeSlots(tab) = {i \in 0..(c - 1) : A[i].key = NoKey}
  BY <1>2, <1>3, InTerms
<1>5. PICK r : Linked(A, c, r)
  BY <1>3 DEF Chained
<1>6. \A i \in FreeSlots(tab) : tab.at[i] = Empty
  BY <1>2, <1>3, <1>4, ChainedIs
<1>7. ASSUME NEW i \in Used(tab)
      PROVE  LET e == tab.at[i]  head == HeadOf(tab, e.key)
             IN  /\ IF e.prev = 0 THEN i = head
                    ELSE /\ i - e.prev \in Used(tab) \ {i}
                         /\ tab.at[i - e.prev].next = e.prev
                         /\ HeadOf(tab, tab.at[i - e.prev].key) = head
                 /\ e.next # 0 => i + e.next \in Used(tab) /\ tab.at[i + e.next].prev = e.next
  <2>1. i \in 0..(c - 1) /\ A[i].key # NoKey
    BY <1>4, <1>7 DEF InUse
  <2>2. PrevEntry(A, c, i) /\ NextEntry(A, c, i)
    BY <1>3, <2>1, EntryLinks
  <2>3. Behind(A, c, r, i) /\ InFront(A, c, r, i) /\ Plain(A, i)
    BY <1>3, <1>5, <2>1, Neighbours, ChainedIs
  <2>4. \A x : HeadOf(tab, tab.at[x].key) = Home(A, c, x)
    BY <1>1, <1>2 DEF HeadOf, Home
  <2>7. ASSUME A[i].next # 0
        PROVE  i + A[i].next \in Used(tab) /\ A[i + A[i].next].prev = A[i].next
    <3>1. PICK n : n = i + A[i].next
      OBVIOUS
    <3>2. NextOf(A, i) = n /\ NextOf(A, i) # -1
      BY <2>3, <2>7, <3>1, PlainIs
    <3>3. n \in 0..(c - 1) /\ A[n].key # NoKey
      BY <2>3, <3>2 DEF InFront
    <3>4. A[n].prev = A[i].next
      BY <2>2, <2>7, <3>1 DEF NextEntry
    <3>5. n \in Used(tab)
      BY <1>4, <3>3 DEF InUse
    <3>6. QED
      BY <3>1, <3>4, <3>5
  <2>8. IF A[i].prev = 0 THEN i = HeadOf(tab, tab.at[i].key)
        ELSE /\ i - A[i].prev \in Used(tab) \ {i}
             /\ A[i - A[i].prev].next = A[i].prev
             /\ HeadOf(tab, tab.at[i - A[i].prev].key) = HeadOf(tab, tab.at[i].key)
    <3>1. CASE A[i].prev = 0
      <4>1. PrevOf(A, i) = -1
        BY <2>3, <3>1, PlainIs
      <4>2. i = Home(A, c, i)
        BY <2>3, <4>1 DEF Behind
      <4>3. QED
        BY <2>4, <3>1, <4>2
    <3>2. CASE A[i].prev # 0
      <4>1. PICK p : p = i - A[i].prev
        OBVIOUS
      <4>2. PrevOf(A, i) = p /\ PrevOf(A, i) # -1
        BY <2>3, <3>2, <4>1, PlainIs
      <4>3. p \in 0..(c - 1) /\ p # i /\ A[p].key # NoKey /\ Home(A, c, p) = Home(A, c, i)
        BY <2>3, <4>2 DEF Behind
      <4>4. A[p].next = A[i].prev
        BY <2>2, <3>2, <4>1 DEF PrevEntry
      <4>5. p \in Used(tab) \ {i}
        BY <1>4, <4>3 DEF InUse
      <4>6. HeadOf(tab, tab.at[p].key) = HeadOf(tab, tab.at[i].key)
        BY <2>4, <4>3
      <4>7. QED
        BY <3>2, <4>1, <4>4, <4>5, <4>6
    <3>3. QED
      BY <3>1, <3>2
  <2>9. QED
    BY <1>2, <2>7, <2>8, Zenon
<1>8. QED
  BY <1>6, <1>7 DEF ChainsWellFormed

(* The links of movety, addety and remety are mutual, lead to entries of   *)
(* the same hash and come from the head that the hash leads to.            *)
THEOREM ChainsAreKept == SafeSpec => []ChainsWellFormed
BY Invariant, ChainsAre, PTL

(* The search for a key follows its chain, along which the ranks grow: it  *)
(* comes to the key in fewer steps than there are slots.                   *)
LEMMA KeysAreFound == IInv => FoundByKey
<1> SUFFICES ASSUME IInv PROVE FoundByKey
  OBVIOUS
<1>1. PICK c : c = tab.capacity
  OBVIOUS
<1>2. TableOk(c, tab)
  BY <1>1, InvGives
<1>3. /\ c \in Nat /\ tab.at \in Arrays(c) /\ Once(tab.at, c)
      /\ tab.length = Cardinality(InArray(tab.at, c))
      /\ Used(tab) = InUse(tab.at, c) /\ Keys(tab) = InArray(tab.at, c)
  BY <1>2, InTerms DEF TableOk
<1>4. Keys(tab) = Present(tab)
  <2>1. \A k \in Key : k \in Present(tab) <=> k \in InArray(tab.at, c)
    BY <1>2, KeyFound
  <2>2. Present(tab) \subseteq Key /\ InArray(tab.at, c) \subseteq Key
    BY DEF Present, InArray
  <2>3. QED
    BY <1>3, <2>1, <2>2
<1>5. Cardinality(InUse(tab.at, c)) = Cardinality(InArray(tab.at, c))
  BY <1>3, KeysCounted
<1>6. QED
  BY <1>3, <1>4, <1>5 DEF FoundByKey

(* aloH_get finds every key that is in the array, whatever was set,        *)
(* removed, moved and laid out before.                                     *)
THEOREM AllAreFound == SafeSpec => []FoundByKey
BY Invariant, KeysAreFound, PTL

(* An iterator yields every key that was there when it began and is not    *)
(* removed, also when the entry it is at is removed and another is moved   *)
(* to its slot (aloH_rawrem, atab.c:352).                                  *)
THEOREM AllAreYielded == SafeSpec => []NothingMissed
<1>1. IInv => NothingMissed
  BY DEF IInv, DueAhead, NothingMissed
<1>2. QED
  BY <1>1, Invariant, PTL

-----------------------------------------------------------------------------
(* The table as a map.                                                     *)

(* The pairs a table holds are its contents. *)
LEMMA ContentsHeld ==
  ASSUME NEW c, NEW t, TableOk(c, t)
  PROVE  /\ Contents(t) = [k \in InArray(t.at, c) |-> Contents(t)[k]]
         /\ \A k \in InArray(t.at, c) : Hold(t.at, c, k, Contents(t)[k])
         /\ \A k \in Key, v \in Val \cup {NoVal} :
              Hold(t.at, c, k, v) <=> k \in InArray(t.at, c) /\ v = Contents(t)[k]
<1>1. Present(t) = InArray(t.at, c)
  <2>1. \A k \in Key : k \in Present(t) <=> k \in InArray(t.at, c)
    BY KeyFound
  <2>2. Present(t) \subseteq Key /\ InArray(t.at, c) \subseteq Key
    BY DEF Present, InArray
  <2>3. QED
    BY <2>1, <2>2
<1>2. Contents(t) = [k \in InArray(t.at, c) |-> t.at[SlotOf(t, k)].val]
  BY <1>1 DEF Contents
<1>3. \A k \in InArray(t.at, c) : k \in Key
  BY DEF InArray
<1>4. Once(t.at, c)
  BY DEF TableOk
<1>5. ASSUME NEW k \in InArray(t.at, c)
      PROVE  SlotOf(t, k) \in 0..(c - 1) /\ t.at[SlotOf(t, k)].key = k
  BY <1>3, <1>5, KeyFound
<1>6. ASSUME NEW k \in InArray(t.at, c) PROVE Hold(t.at, c, k, Contents(t)[k])
  BY <1>2, <1>5, <1>6 DEF Hold
<1>7. ASSUME NEW k \in Key, NEW v, Hold(t.at, c, k, v)
      PROVE  k \in InArray(t.at, c) /\ v = Contents(t)[k]
  <2>1. PICK i \in 0..(c - 1) : t.at[i].key = k /\ t.at[i].val = v
    BY <1>7 DEF Hold
  <2>2. k \in InArray(t.at, c)
    BY <2>1 DEF InArray
  <2>3. SlotOf(t, k) = i
    BY <2>1, KeyFound
  <2>4. QED
    BY <1>2, <2>1, <2>2, <2>3
<1>8. QED
  BY <1>2, <1>6, <1>7

(* A table with the pairs of m has it as its contents. *)
LEMMA ContentsAre ==
  ASSUME NEW c, NEW t, TableOk(c, t), NEW D \in SUBSET Key, NEW m,
         m = [k \in D |-> m[k]], \A k \in D : m[k] \in Val \cup {NoVal},
         \A k \in Key, v \in Val \cup {NoVal} : Hold(t.at, c, k, v) <=> k \in D /\ v = m[k]
  PROVE  Contents(t) = m
<1>1. PICK f : f = Contents(t)
  OBVIOUS
<1>2. PICK K : K = InArray(t.at, c)
  OBVIOUS
<1>3. /\ f = [k \in K |-> f[k]]
      /\ \A k \in Key, v \in Val \cup {NoVal} : Hold(t.at, c, k, v) <=> k \in K /\ v = f[k]
      /\ \A k \in K : Hold(t.at, c, k, f[k])
  BY <1>1, <1>2, ContentsHeld
<1>4. K \subseteq Key
  BY <1>2 DEF InArray
<1>5. \A k \in K : f[k] \in Val \cup {NoVal}
  <2>1. c \in Nat /\ t.at \in Arrays(c)
    BY InTerms
  <2>2. \A i \in 0..(c - 1) : t.at[i].val \in Val \cup {NoVal}
    BY <2>1, ArrayEntry, FieldTypes
  <2>3. QED
    BY <1>3, <2>2 DEF Hold
<1>6. \A k \in K : k \in D /\ f[k] = m[k]
  BY <1>3, <1>4, <1>5
<1>7. \A k \in D : k \in K
  BY <1>3
<1>8. K = D
  BY <1>6, <1>7
<1>9. [k \in K |-> f[k]] = [k \in D |-> m[k]]
  BY <1>6, <1>8, Zenon
<1>10. QED
  BY <1>1, <1>3, <1>9, Zenon

(* The values of a table are values. *)
LEMMA ValuesHeld ==
  ASSUME NEW c, NEW t, TableOk(c, t)
  PROVE  \A k \in InArray(t.at, c) : Contents(t)[k] \in Val \cup {NoVal}
<1>1. c \in Nat /\ t.at \in Arrays(c)
  BY InTerms
<1>2. \A i \in 0..(c - 1) : t.at[i].val \in Val \cup {NoVal}
  BY <1>1, ArrayEntry, FieldTypes
<1>3. \A k \in InArray(t.at, c) : Hold(t.at, c, k, Contents(t)[k])
  BY ContentsHeld
<1>4. QED
  BY <1>2, <1>3 DEF Hold

(* What an operation that sets a pair, removes a key or keeps all pairs    *)
(* does to the map.                                                        *)
LEMMA SetsPair ==
  ASSUME NEW c, NEW t, TableOk(c, t), NEW d, NEW u, TableOk(d, u), NEW k \in Key, NEW v \in Val,
         \A x \in Key, w \in Val \cup {NoVal} :
           Hold(u.at, d, x, w) <=> IF x = k THEN w = v ELSE Hold(t.at, c, x, w)
  PROVE  Contents(u) = Map!Set(Contents(t), k, v)
<1>1. PICK f : f = Contents(t)
  OBVIOUS
<1>2. PICK K : K = InArray(t.at, c)
  OBVIOUS
<1>3. /\ f = [x \in K |-> f[x]] /\ \A x \in K : f[x] \in Val \cup {NoVal}
      /\ \A x \in Key, w \in Val \cup {NoVal} : Hold(t.at, c, x, w) <=> x \in K /\ w = f[x]
  BY <1>1, <1>2, ContentsHeld, ValuesHeld
<1>4. DOMAIN f = K
  BY <1>3
<1>5. K \cup {k} \in SUBSET Key
  BY <1>2 DEF InArray
<1>6. PICK m : m = [x \in K \cup {k} |-> IF x = k THEN v ELSE f[x]]
  OBVIOUS
<1>7. m = [x \in K \cup {k} |-> m[x]] /\ \A x \in K \cup {k} : m[x] = IF x = k THEN v ELSE f[x]
  BY <1>6
<1>8. \A x \in K \cup {k} : m[x] \in Val \cup {NoVal}
  BY <1>3, <1>7
<1>9. ASSUME NEW x \in Key, NEW w \in Val \cup {NoVal}
      PROVE  Hold(u.at, d, x, w) <=> x \in K \cup {k} /\ w = m[x]
  <2>1. CASE x = k
    BY <1>7, <2>1
  <2>2. CASE x # k
    <3>1. Hold(u.at, d, x, w) <=> x \in K /\ w = f[x]
      BY <1>3, <2>2
    <3>2. x \in K \cup {k} /\ w = m[x] <=> x \in K /\ w = f[x]
      BY <1>7, <2>2
    <3>3. QED
      BY <3>1, <3>2
  <2>3. QED
    BY <2>1, <2>2
<1>10. PICK L \in SUBSET Key : L = K \cup {k}
  BY <1>5
<1>11. Contents(u) = m
  BY <1>7, <1>8, <1>9, <1>10, ContentsAre
<1>12. Map!Set(f, k, v) = m
  BY <1>4, <1>6 DEF Map!Set
<1>13. QED
  BY <1>1, <1>11, <1>12

(* Removing a key is a deletion of the abstract map.                       *)
LEMMA DeletesKey ==
  ASSUME NEW c, NEW t, TableOk(c, t), NEW d, NEW u, TableOk(d, u), NEW k,
         \A x \in Key, w \in Val \cup {NoVal} : Hold(u.at, d, x, w) <=> Hold(t.at, c, x, w) /\ x # k
  PROVE  Contents(u) = Map!Delete(Contents(t), k)
<1>1. PICK f : f = Contents(t)
  OBVIOUS
<1>2. PICK K : K = InArray(t.at, c)
  OBVIOUS
<1>3. /\ f = [x \in K |-> f[x]] /\ \A x \in K : f[x] \in Val \cup {NoVal}
      /\ \A x \in Key, w \in Val \cup {NoVal} : Hold(t.at, c, x, w) <=> x \in K /\ w = f[x]
  BY <1>1, <1>2, ContentsHeld, ValuesHeld
<1>4. DOMAIN f = K
  BY <1>3
<1>5. PICK L \in SUBSET Key : L = K \ {k}
  BY <1>2 DEF InArray
<1>6. PICK m : m = [x \in L |-> f[x]]
  OBVIOUS
<1>7. m = [x \in L |-> m[x]] /\ \A x \in L : m[x] = f[x]
  BY <1>6
<1>8. \A x \in L : m[x] \in Val \cup {NoVal}
  BY <1>3, <1>5, <1>7
<1>9. \A x \in Key, w \in Val \cup {NoVal} : Hold(u.at, d, x, w) <=> x \in L /\ w = m[x]
  BY <1>3, <1>5, <1>7
<1>10. Contents(u) = m
  BY <1>7, <1>8, <1>9, ContentsAre
<1>11. Map!Delete(f, k) = m
  BY <1>4, <1>5, <1>6 DEF Map!Delete
<1>12. QED
  BY <1>1, <1>10, <1>11

(* A table with the same pairs has the same contents.                      *)
LEMMA KeepsPairs ==
  ASSUME NEW c, NEW t, TableOk(c, t), NEW d, NEW u, TableOk(d, u), Same(c, t, d, u)
  PROVE  Contents(u) = Contents(t)
<1>1. PICK f : f = Contents(t)
  OBVIOUS
<1>2. PICK K \in SUBSET Key : K = InArray(t.at, c)
  BY DEF InArray
<1>3. /\ f = [x \in K |-> f[x]] /\ \A x \in K : f[x] \in Val \cup {NoVal}
      /\ \A x \in Key, w \in Val \cup {NoVal} : Hold(t.at, c, x, w) <=> x \in K /\ w = f[x]
  BY <1>1, <1>2, ContentsHeld, ValuesHeld
<1>4. \A x \in Key, w \in Val \cup {NoVal} : Hold(u.at, d, x, w) <=> x \in K /\ w = f[x]
  BY <1>3 DEF Same
<1>5. Contents(u) = f
  BY <1>3, <1>4, ContentsAre
<1>6. QED
  BY <1>1, <1>5

(* A table without keys has no contents.                                   *)
LEMMA NothingHeld ==
  ASSUME NEW c, NEW t, TableOk(c, t), InArray(t.at, c) = {}
  PROVE  Contents(t) = <<>>
<1>1. PICK f : f = Contents(t)
  OBVIOUS
<1>2. f = [x \in {} |-> f[x]]
  BY <1>1, ContentsHeld
<1>3. f = <<>>
  BY <1>2
<1>4. QED
  BY <1>1, <1>3

(* Setting a key of the contents is a step of the abstract map.            *)
LEMMA SetIsMap ==
  ASSUME NEW k \in Key, NEW v \in Val, Contents(tab') = Map!Set(Contents(tab), k, v)
  PROVE  Map!MNext
BY DEF Map!MNext

(* Deleting a key of the contents is a step of the abstract map.           *)
LEMMA DeleteIsMap ==
  ASSUME NEW k \in DOMAIN Contents(tab), Contents(tab') = Map!Delete(Contents(tab), k)
  PROVE  Map!MNext
BY DEF Map!MNext

(* Emptying the contents is a step of the abstract map.                    *)
LEMMA EmptyIsMap == ASSUME Contents(tab') = <<>> PROVE Map!MNext
BY DEF Map!MNext

(* Every step of the table is one of the map, or leaves its contents       *)
(* alone.                                                                  *)
LEMMA NextRefines == ASSUME IInv, IInv', [SafeNext]_vars PROVE [Map!MNext]_(Contents(tab))
<1>1. PICK c : c = tab.capacity
  OBVIOUS
<1>2. c \in 0..MaxSize /\ c \in Nat /\ TableOk(c, tab)
  BY <1>1, InvGives
<1>3. ASSUME NEW k \in Key, NEW v \in Val, Update(k, v) PROVE Map!MNext
  <2>1. PICK i \in 0..(c - 1) : Updates(c, tab, i, k, v, tab')
    BY <1>1, <1>3, UpdateStep
  <2>2. TableOk(c, tab') /\ \A x \in Key, w \in Val \cup {NoVal} :
          Hold(tab'.at, c, x, w) <=> IF x = k THEN w = v ELSE Hold(tab.at, c, x, w)
    BY <2>1 DEF Updates
  <2>3. Contents(tab') = Map!Set(Contents(tab), k, v)
    BY <1>2, <2>2, SetsPair
  <2>4. QED
    BY <2>3, SetIsMap
<1>4. ASSUME NEW k \in Key, NEW v \in Val, Insert(k, v) PROVE Map!MNext
  <2>1. PICK d : Inserts(c, tab, k, v, d, tab')
    BY <1>1, <1>4, InsertStep
  <2>2. TableOk(d, tab') /\ \A x \in Key, w \in Val \cup {NoVal} :
          Hold(tab'.at, d, x, w) <=> Hold(tab.at, c, x, w) \/ (x = k /\ w = v)
    BY <2>1 DEF Inserts
  <2>3. \A w : ~Hold(tab.at, c, k, w)
    <3>1. k \notin InArray(tab.at, c)
      BY <1>2, <1>4, KeyFound DEF Insert
    <3>2. QED
      BY <3>1 DEF InArray, Hold
  <2>4. \A x \in Key, w \in Val \cup {NoVal} :
          Hold(tab'.at, d, x, w) <=> IF x = k THEN w = v ELSE Hold(tab.at, c, x, w)
    BY <2>2, <2>3
  <2>5. Contents(tab') = Map!Set(Contents(tab), k, v)
    BY <1>2, <2>2, <2>4, SetsPair
  <2>6. QED
    BY <2>5, SetIsMap
<1>5. ASSUME NEW i \in 0..(c - 1), Removes(c, tab, i, tab'), tab.at[i].key \in Key PROVE Map!MNext
  <2>1. PICK k \in Key : k = tab.at[i].key
    BY <1>5
  <2>2. TableOk(c, tab') /\ \A x \in Key, w \in Val \cup {NoVal} :
          Hold(tab'.at, c, x, w) <=> Hold(tab.at, c, x, w) /\ x # k
    BY <1>5, <2>1 DEF Removes
  <2>3. Contents(tab') = Map!Delete(Contents(tab), k)
    BY <1>2, <2>2, DeletesKey
  <2>4. k \in DOMAIN Contents(tab)
    <3>1. k \in InArray(tab.at, c)
      BY <2>1 DEF InArray
    <3>2. PICK f : f = Contents(tab)
      OBVIOUS
    <3>3. f = [x \in InArray(tab.at, c) |-> f[x]]
      BY <1>2, <3>2, ContentsHeld
    <3>4. k \in DOMAIN f
      BY <3>1, <3>3
    <3>5. QED
      BY <3>2, <3>4
  <2>5. QED
    BY <2>3, <2>4, DeleteIsMap
<1>6. ASSUME NEW k \in Present(tab), ~Middle(tab, SlotOf(tab, k)), RemoveKey(k) PROVE Map!MNext
  <2>1. PICK i : i = SlotOf(tab, k)
    OBVIOUS
  <2>2. Removes(c, tab, i, tab') /\ tab.at[i].key \in Key /\ i \in 0..(c - 1)
    BY <1>1, <1>6, <2>1, RemoveStep
  <2>3. QED
    BY <1>5, <2>2
<1>7. ASSUME off \in Used(tab), ~Middle(tab, off), IterRemove PROVE Map!MNext
  <2>1. Removes(c, tab, off, tab') /\ off \in 0..(c - 1) /\ tab.at[off].key \in Key
    BY <1>1, <1>7, IterRemoveStep
  <2>2. PICK i : i = off
    OBVIOUS
  <2>3. QED
    BY <1>5, <2>1, <2>2
<1>8. ASSUME Clear PROVE Map!MNext
  <2>1. tab' = Blank(c, 0)
    BY <1>1, <1>8, Zenon DEF Clear
  <2>2. TableOk(c, tab') /\ InArray(tab'.at, c) = {}
    BY <1>2, <2>1, BlankTable
  <2>3. Contents(tab') = <<>>
    BY <2>2, NothingHeld
  <2>4. QED
    BY <2>3, EmptyIsMap
<1>9. ASSUME NEW n \in 1..MaxSize, Ensure(n) PROVE Contents(tab') = Contents(tab)
  <2>1. CanEnsure(tab, n) /\ tab' = Ensured(tab, n) /\ n \in Nat
    BY <1>9 DEF Ensure
  <2>2. PICK d : EnsuredTo(c, tab, n, d, tab')
    BY <1>2, <2>1, EnsuredOk
  <2>3. TableOk(d, tab') /\ Same(c, tab, d, tab')
    BY <2>2 DEF EnsuredTo
  <2>4. QED
    BY <1>2, <2>3, KeepsPairs
<1>10. ASSUME Trim PROVE Contents(tab') = Contents(tab)
  <2>1. PICK d \in 0..MaxSize : TableOk(d, tab') /\ Same(c, tab, d, tab')
    BY <1>1, <1>10, TrimStep
  <2>2. QED
    BY <1>2, <2>1, KeepsPairs
<1>11. ASSUME Iterate \/ IterNext \/ UNCHANGED vars PROVE Contents(tab') = Contents(tab)
  <2>1. tab' = tab
    BY <1>11 DEF Iterate, IterNext, vars
  <2>2. QED
    BY <2>1
<1>12. SafeNext => Map!MNext \/ Contents(tab') = Contents(tab)
  BY <1>3, <1>4, <1>6, <1>7, <1>8, <1>9, <1>10, <1>11 DEF SafeNext, Keep
<1>13. QED
  BY <1>11, <1>12

(* atab.c as a whole: as long as nothing is removed from the middle of a   *)
(* chain, a table is a map.                                                *)
THEOREM ImplementsMap == SafeSpec => MapSpec
<1>1. Init => Map!MInit
  <2> SUFFICES ASSUME Init PROVE Contents(tab) = <<>>
    BY DEF Map!MInit
  <2>1. tab = NewTable
    BY DEF Init
  <2>2. tab = Blank(0, 0)
    BY <2>1, NewTableIs, Zenon
  <2>3. TableOk(0, tab) /\ InArray(tab.at, 0) = {}
    BY <2>2, BlankTable
  <2>4. QED
    BY <2>3, NothingHeld
<1>2. IInv /\ IInv' /\ [SafeNext]_vars => [Map!MNext]_(Contents(tab))
  BY NextRefines
<1>3. QED
  BY <1>1, <1>2, Invariant, PTL DEF SafeSpec, MapSpec, Map!MSpec
====
