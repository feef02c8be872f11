----------------------------- MODULE MachineProofs -----------------------------
(***************************************************************************)
(* Proofs about the interpreter: on sound code (SoundCode) it stays in the *)
(* code, the registers and the captures of the function that runs, and an  *)
(* open capture is a variable of a frame that is still there.              *)
(*                                                                         *)
(* Values, objects and cells are records and tuples of many shapes, so     *)
(* sequences of them are typed by IsSeq: a sequence over some set.         *)
(***************************************************************************)
EXTENDS Machine, StackProofs

IsSeq(s) == \E E : s \in Seq(E)

------------------------------------------------------------------------------
(* Sequences                                                               *)

LEMMA SeqFacts ==
  ASSUME NEW s, IsSeq(s)
  PROVE  Len(s) \in Nat /\ DOMAIN s = 1 .. Len(s)
BY DEF IsSeq

LEMMA AppendFacts ==
  ASSUME NEW s, IsSeq(s), NEW x
  PROVE  /\ IsSeq(Append(s, x)) /\ Len(Append(s, x)) = Len(s) + 1
         /\ DOMAIN Append(s, x) = 1 .. Len(s) + 1
         /\ \A i \in 1 .. Len(s) : Append(s, x)[i] = s[i]
         /\ Append(s, x)[Len(s) + 1] = x
<1>1. PICK E : s \in Seq(E)
  BY DEF IsSeq
<1>2. s \in Seq(E \cup {x}) /\ x \in E \cup {x}
  BY <1>1, SeqMonotonic
<1>3. Append(s, x) \in Seq(E \cup {x}) /\ Len(Append(s, x)) = Len(s) + 1
  BY <1>2, AppendProperties
<1>4. /\ \A i \in 1 .. Len(s) : Append(s, x)[i] = s[i]
      /\ Append(s, x)[Len(s) + 1] = x
  BY <1>2, AppendProperties
<1>5. QED
  BY <1>3, <1>4, LenProperties DEF IsSeq

LEMMA ConcatFacts ==
  ASSUME NEW s, IsSeq(s), NEW t, IsSeq(t)
  PROVE  /\ IsSeq(s \o t) /\ Len(s \o t) = Len(s) + Len(t)
         /\ \A i \in 1 .. Len(s) : (s \o t)[i] = s[i]
         /\ \A i \in 1 .. Len(t) : (s \o t)[Len(s) + i] = t[i]
<1>1. PICK E1 : s \in Seq(E1)
  BY DEF IsSeq
<1>2. PICK E2 : t \in Seq(E2)
  BY DEF IsSeq
<1> DEFINE E == E1 \cup E2
<1>3. s \in Seq(E) /\ t \in Seq(E)
  BY <1>1, <1>2, SeqMonotonic
<1> HIDE DEF E
<1>4. /\ s \o t \in Seq(E) /\ Len(s \o t) = Len(s) + Len(t)
      /\ \A i \in 1 .. Len(s) + Len(t) : (s \o t)[i] = IF i <= Len(s) THEN s[i] ELSE t[i - Len(s)]
  BY <1>3, ConcatProperties
<1>5. Len(s) \in Nat /\ Len(t) \in Nat
  BY <1>3
<1>6. \A i \in 1 .. Len(t) : Len(s) + i \in 1 .. Len(s) + Len(t) /\ ~(Len(s) + i <= Len(s)) /\ Len(s) + i - Len(s) = i
  BY <1>5
<1>7. \A i \in 1 .. Len(s) : i \in 1 .. Len(s) + Len(t)
  BY <1>5
<1>8. QED
  BY <1>4, <1>6, <1>7 DEF IsSeq

LEMMA FrontFacts ==
  ASSUME NEW s, IsSeq(s), Len(s) > 0
  PROVE  /\ IsSeq(Front(s)) /\ Len(Front(s)) = Len(s) - 1
         /\ DOMAIN Front(s) = 1 .. Len(s) - 1
         /\ \A i \in 1 .. Len(s) - 1 : Front(s)[i] = s[i]
<1>1. PICK E : s \in Seq(E)
  BY DEF IsSeq
<1> DEFINE f == SubSeq(s, 1, Len(s) - 1)
<1>2. Len(s) \in Nat /\ Len(s) - 1 \in Int /\ \A i \in 1 .. Len(s) - 1 : s[i] \in E
  BY <1>1
<1>3. /\ f \in Seq(E)
      /\ Len(f) = IF 1 <= Len(s) - 1 THEN Len(s) - 1 - 1 + 1 ELSE 0
      /\ \A i \in 1 .. Len(s) - 1 - 1 + 1 : f[i] = s[1 + i - 1]
  BY <1>2, SubSeqProperties
<1> HIDE DEF f
<1>4. Len(f) = Len(s) - 1
  <2>1. \A n \in Nat : n > 0 => (IF 1 <= n - 1 THEN n - 1 - 1 + 1 ELSE 0) = n - 1
    OBVIOUS
  <2>2. QED
    BY <1>2, <1>3, <2>1
<1>5. \A i \in 1 .. Len(s) - 1 : f[i] = s[i]
  BY <1>2, <1>3
<1>6. DOMAIN f = 1 .. Len(s) - 1 /\ IsSeq(f)
  BY <1>3, <1>4, LenProperties DEF IsSeq
<1>7. QED
  BY <1>4, <1>5, <1>6 DEF Front, f

LEMMA ExceptFacts ==
  ASSUME NEW s, IsSeq(s), NEW k, NEW x
  PROVE  /\ IsSeq([s EXCEPT ![k] = x]) /\ Len([s EXCEPT ![k] = x]) = Len(s)
         /\ DOMAIN [s EXCEPT ![k] = x] = 1 .. Len(s)
         /\ \A i \in 1 .. Len(s) : [s EXCEPT ![k] = x][i] = IF i = k THEN x ELSE s[i]
<1>1. PICK E : s \in Seq(E)
  BY DEF IsSeq
<1>2. s \in Seq(E \cup {x}) /\ x \in E \cup {x}
  BY <1>1, SeqMonotonic
<1>3. CASE k \in 1 .. Len(s)
  BY <1>2, <1>3, ExceptSeq, LenProperties DEF IsSeq
<1>4. CASE k \notin 1 .. Len(s)
  <2>1. s \in [1 .. Len(s) -> E]
    BY <1>1, LenProperties
  <2>2. [s EXCEPT ![k] = x] = s
    BY <2>1, <1>4
  <2>3. QED
    BY <1>1, <2>2, <1>4, LenProperties DEF IsSeq
<1>5. QED
  BY <1>3, <1>4

LEMMA FunctionFacts ==
  ASSUME NEW n \in Nat, NEW f, f = [i \in 1 .. n |-> f[i]]
  PROVE  IsSeq(f) /\ Len(f) = n /\ DOMAIN f = 1 .. n
<1> DEFINE E == {f[i] : i \in 1 .. n}
<1>1. f \in [1 .. n -> E]
  OBVIOUS
<1>2. f \in Seq(E)
  BY <1>1
<1>3. DOMAIN f = 1 .. n /\ Len(f) \in Nat /\ DOMAIN f = 1 .. Len(f)
  BY <1>1, <1>2, LenProperties
<1>4. Len(f) = n
  BY <1>3
<1>5. QED
  BY <1>2, <1>3, <1>4 DEF IsSeq

LEMMA RemoveFacts ==
  ASSUME NEW s, IsSeq(s), NEW k \in 1 .. Len(s)
  PROVE  /\ IsSeq(RemoveAt(s, k))
         /\ \A i \in DOMAIN RemoveAt(s, k) : \E j \in DOMAIN s : RemoveAt(s, k)[i] = s[j]
<1>1. PICK E : s \in Seq(E)
  BY DEF IsSeq
<1> DEFINE T == {s[i] : i \in 1 .. Len(s)}
<1>2. Len(s) \in Nat /\ k \in Nat /\ DOMAIN s = 1 .. Len(s)
  BY <1>1
<1>3. /\ \A i \in 1 .. k - 1 : s[i] \in T
      /\ \A i \in k + 1 .. Len(s) : s[i] \in T
  BY <1>2
<1> HIDE DEF T
<1>4. SubSeq(s, 1, k - 1) \in Seq(T)
  BY <1>2, <1>3, SubSeqProperties
<1>5. SubSeq(s, k + 1, Len(s)) \in Seq(T)
  BY <1>2, <1>3, SubSeqProperties
<1>6. RemoveAt(s, k) \in Seq(T)
  BY <1>4, <1>5, ConcatProperties DEF RemoveAt
<1>7. \A i \in DOMAIN RemoveAt(s, k) : RemoveAt(s, k)[i] \in T
  BY <1>6, LenProperties, ElementOfSeq
<1>8. QED
  BY <1>2, <1>6, <1>7 DEF IsSeq, T

(* SetToSeq enumerates a finite set, each element once.                    *)
LEMMA Enumeration ==
  ASSUME NEW U, IsFiniteSet(U)
  PROVE  LET s == SetToSeq(U)
         IN /\ IsSeq(s) /\ \A i \in DOMAIN s : s[i] \in U
            /\ \A u \in U : \E i \in DOMAIN s : s[i] = u
            /\ \A i, j \in DOMAIN s : s[i] = s[j] => i = j
<1> DEFINE n == Cardinality(U)
           s == SetToSeq(U)
<1>1. n \in Nat /\ ExistsBijection(1 .. n, U)
  BY FS_CardinalityType
<1>2. PICK f : f \in Bijection(1 .. n, U)
  BY <1>1 DEF ExistsBijection
<1>3. f \in [1 .. n -> U] /\ IsInjective(f)
  BY <1>2 DEF Bijection, Injection, IsInjective
<1>4. s \in [1 .. n -> U] /\ IsInjective(s)
  BY <1>3 DEF SetToSeq
<1> HIDE DEF s
<1>5. DOMAIN s = 1 .. n /\ \A i, j \in DOMAIN s : s[i] = s[j] => i = j
  BY <1>4 DEF IsInjective
<1>6. s \in Injection(1 .. n, U)
  BY <1>4, <1>5 DEF Injection, IsInjective
<1>7. IsFiniteSet(1 .. n) /\ Cardinality(1 .. n) = n
  BY <1>1, FS_Interval
<1>8. s \in Surjection(1 .. n, U)
  BY <1>1, <1>6, <1>7, FS_Injection
<1>9. \A u \in U : \E i \in 1 .. n : s[i] = u
  BY <1>8 DEF Surjection
<1>10. s \in Seq(U)
  BY <1>1, <1>4
<1>11. QED
  BY <1>4, <1>5, <1>9, <1>10 DEF IsSeq, s

------------------------------------------------------------------------------
(* The invariant.  n is the number of cells, h the heap.                   *)

CONSTANT Prototypes        \* the prototypes of the program

(* A function has a cell for each of its captures, an object its kind.     *)
ValueOK(v, n, h) ==
    /\ v[1] = "fun" => /\ v[2] \in Prototypes
                       /\ Len(v[3]) = Len(v[2].caps) /\ DOMAIN v[3] = 1 .. Len(v[2].caps)
                       /\ \A c \in DOMAIN v[3] : v[3][c] \in 1 .. n
    /\ v[1] \in {"tab", "lis", "tup", "iter"} => v[2] \in DOMAIN h /\ h[v[2]].kind = v[1]
ValuesOK(vs, n, h) == \A i \in DOMAIN vs : ValueOK(vs[i], n, h)

ObjectOK(o, n, h) ==
    /\ o.kind \in {"tab", "lis", "tup", "iter"}
    /\ o.kind = "tab" => /\ o = [kind |-> "tab", map |-> o.map] /\ IsFiniteSet(DOMAIN o.map)
                        /\ \A k \in DOMAIN o.map : ValueOK(k, n, h) /\ ValueOK(o.map[k], n, h)
    /\ o.kind \in {"lis", "tup"} => /\ o = [kind |-> o.kind, seq |-> o.seq]
                                    /\ IsSeq(o.seq) /\ ValuesOK(o.seq, n, h)
    /\ o.kind = "iter" => /\ o = [kind |-> "iter", in |-> o.in, off |-> o.off]
                         /\ o.off \in Int /\ -1 <= o.off
                         /\ IsCol(o.in) /\ ValueOK(o.in, n, h)
HeapOK(h, n) == IsSeq(h) /\ \A id \in DOMAIN h : ObjectOK(h[id], n, h)

CellOK(c, n, h) == c = [at |-> c.at, v |-> c.v] /\ c.at \in -1 .. StackSize /\ ValueOK(c.v, n, h)
CellsOK(cs, h) == IsSeq(cs) /\ \A c \in DOMAIN cs : CellOK(cs[c], Len(cs), h)

StackOK(s, n, h) == s = [i \in 0 .. StackSize |-> s[i]] /\ \A i \in 0 .. StackSize : ValueOK(s[i], n, h)

FrameOK(f, n) ==
    /\ f = [falo |-> f.falo, proto |-> f.proto, caps |-> f.caps, fun |-> f.fun, base |-> f.base,
            top |-> f.top, pc |-> f.pc, nres |-> f.nres, tail |-> f.tail]
    /\ f.falo \in BOOLEAN /\ f.tail \in BOOLEAN
    /\ f.fun \in Nat /\ f.base \in Nat /\ f.fun < f.base
    /\ f.pc \in Nat /\ f.nres \in Int /\ MULTIRET <= f.nres
    /\ IF f.falo
       THEN /\ f.proto \in Prototypes
            /\ f.top = f.base + f.proto.nstack /\ f.top <= StackSize
            /\ Len(f.caps) = Len(f.proto.caps) /\ DOMAIN f.caps = 1 .. Len(f.proto.caps)
            /\ \A c \in DOMAIN f.caps : f.caps[c] \in 1 .. n
            /\ ~f.tail
       ELSE f.base = f.fun + 1 /\ f.fun + 2 <= StackSize

(* g is the frame of a function f has called and waits for.                *)
Called(f, g) ==
    /\ f.base <= g.fun
    /\ IF f.falo
       THEN LET i == f.proto.code[f.pc]
            IN /\ f.pc \in DOMAIN f.proto.code /\ i.i \in {"CALL", "ICALL"}
               /\ g.fun = f.base + i.A + Bit(i.i = "ICALL") /\ g.nres = i.C - 1
       ELSE g.nres = MULTIRET

FramesOK(fs, n) ==
    /\ IsSeq(fs)
    /\ \A k \in DOMAIN fs : FrameOK(fs[k], n)
    /\ \A k \in DOMAIN fs : k + 1 \in DOMAIN fs => Called(fs[k], fs[k + 1])

(* The frame that runs has a next instruction, with what that takes.       *)
TopOK(f, t) ==
    /\ t \in Nat /\ f.base <= t /\ t <= StackSize
    /\ f.falo => LET p == f.proto
                     i == p.code[f.pc + 1]
                 IN /\ f.pc + 1 \in DOMAIN p.code
                    /\ Takes(i) => f.base + Least(i) <= t
                    /\ t = f.top \/ (f.pc > 0 /\ Waits(p.code[f.pc])) \/ HasConcat(p)

Owned(fs, at) == \E k \in DOMAIN fs : fs[k].falo /\ at - fs[k].base \in Captured(fs[k].proto)
CapturesOK(fs, cs) ==
    /\ \A c \in DOMAIN cs : cs[c].at >= 0 => Owned(fs, cs[c].at)
    /\ \A c, d \in DOMAIN cs : cs[c].at >= 0 /\ cs[c].at = cs[d].at => c = d

IInv ==
    status = "run" =>
        /\ FramesOK(frames, Len(cells)) /\ Len(frames) > 0
        /\ CellsOK(cells, heap)
        /\ HeapOK(heap, Len(cells))
        /\ StackOK(stk, Len(cells), heap)
        /\ TopOK(F, top)
        /\ CapturesOK(frames, cells)

------------------------------------------------------------------------------
(* What was right stays right when cells and objects are added.            *)

Grows(h, g) == DOMAIN h \subseteq DOMAIN g /\ \A id \in DOMAIN h : g[id].kind = h[id].kind

LEMMA ValueKept ==
  ASSUME NEW n \in Nat, NEW m \in Nat, n <= m, NEW h, NEW g, Grows(h, g),
         NEW v, ValueOK(v, n, h)
  PROVE  ValueOK(v, m, g)
<1>1. \A c : c \in 1 .. n => c \in 1 .. m
  OBVIOUS
<1>2. QED
  BY <1>1 DEF ValueOK, Grows

LEMMA ObjectKept ==
  ASSUME NEW n \in Nat, NEW m \in Nat, n <= m, NEW h, NEW g, Grows(h, g),
         NEW o, ObjectOK(o, n, h)
  PROVE  ObjectOK(o, m, g)
<1>1. \A v : ValueOK(v, n, h) => ValueOK(v, m, g)
  BY ValueKept
<1>2. QED
  BY <1>1 DEF ObjectOK, ValuesOK

LEMMA CellKept ==
  ASSUME NEW n \in Nat, NEW m \in Nat, n <= m, NEW h, NEW g, Grows(h, g),
         NEW c, CellOK(c, n, h)
  PROVE  CellOK(c, m, g)
BY ValueKept DEF CellOK

LEMMA StackKept ==
  ASSUME NEW n \in Nat, NEW m \in Nat, n <= m, NEW h, NEW g, Grows(h, g),
         NEW s, StackOK(s, n, h)
  PROVE  StackOK(s, m, g)
BY ValueKept DEF StackOK

LEMMA SameHeapGrows == \A h : Grows(h, h)
BY DEF Grows

(* Plain values need no cell and no object.                                *)
LEMMA PlainOK ==
  ASSUME NEW n, NEW h, NEW v, v[1] \notin {"fun", "tab", "lis", "tup", "iter"}
  PROVE  ValueOK(v, n, h)
BY DEF ValueOK

LEMMA NilOK == ASSUME NEW n, NEW h PROVE ValueOK(Nil, n, h)
BY PlainOK DEF Nil

(* An object added to the heap.                                            *)
LEMMA HeapAdded ==
  ASSUME NEW h, NEW n \in Nat, HeapOK(h, n), NEW o, ObjectOK(o, n, h)
  PROVE  /\ HeapOK(Append(h, o), n) /\ Grows(h, Append(h, o))
         /\ \A v : v[1] = o.kind /\ v[2] = Len(h) + 1 => ValueOK(v, n, Append(h, o))
<1> DEFINE g == Append(h, o)
<1>1. IsSeq(h) /\ Len(h) \in Nat /\ DOMAIN h = 1 .. Len(h)
  BY SeqFacts DEF HeapOK
<1>2. /\ IsSeq(g) /\ DOMAIN g = 1 .. Len(h) + 1
      /\ \A i \in 1 .. Len(h) : g[i] = h[i]
      /\ g[Len(h) + 1] = o
  BY <1>1, AppendFacts
<1> HIDE DEF g
<1>3. Grows(h, g)
  BY <1>1, <1>2 DEF Grows
<1>4. \A id \in DOMAIN h : ObjectOK(h[id], n, g)
  BY <1>3, ObjectKept DEF HeapOK
<1>5. \A id \in DOMAIN g : id \in DOMAIN h \/ id = Len(h) + 1
  BY <1>1, <1>2
<1>6. \A id \in DOMAIN g : ObjectOK(g[id], n, g)
  BY <1>1, <1>2, <1>3, <1>4, <1>5, ObjectKept DEF g
<1>7. o.kind # "fun"
  BY DEF ObjectOK
<1>8. Len(h) + 1 \in DOMAIN g
  BY <1>1, <1>2
<1>9. QED
  BY <1>2, <1>3, <1>6, <1>7, <1>8 DEF HeapOK, ValueOK, g

(* An object changed in place.                                             *)
LEMMA HeapChanged ==
  ASSUME NEW h, NEW n \in Nat, HeapOK(h, n), NEW id \in DOMAIN h,
         NEW o, o.kind = h[id].kind, ObjectOK(o, n, h)
  PROVE  HeapOK([h EXCEPT ![id] = o], n) /\ Grows(h, [h EXCEPT ![id] = o])
<1> DEFINE g == [h EXCEPT ![id] = o]
<1>1. IsSeq(h) /\ DOMAIN h = 1 .. Len(h)
  BY SeqFacts DEF HeapOK
<1>2. IsSeq(g) /\ DOMAIN g = 1 .. Len(h) /\ \A i \in 1 .. Len(h) : g[i] = IF i = id THEN o ELSE h[i]
  BY <1>1, ExceptFacts
<1> HIDE DEF g
<1>3. Grows(h, g)
  BY <1>1, <1>2 DEF Grows
<1>4. \A i \in DOMAIN h : ObjectOK(h[i], n, g)
  BY <1>3, ObjectKept DEF HeapOK
<1>5. ObjectOK(o, n, g)
  BY <1>3, ObjectKept
<1>6. \A i \in DOMAIN g : ObjectOK(g[i], n, g)
  BY <1>1, <1>2, <1>4, <1>5
<1>7. QED
  BY <1>2, <1>3, <1>6 DEF HeapOK, g

(* Values written to the stack.                                            *)
LEMMA Filled ==
  ASSUME NEW s, NEW n, NEW h, StackOK(s, n, h), NEW from \in Int,
         NEW vs, IsSeq(vs), ValuesOK(vs, n, h)
  PROVE  StackOK(Fill(s, from, vs), n, h)
<1>1. Len(vs) \in Nat /\ DOMAIN vs = 1 .. Len(vs)
  BY SeqFacts
<1>2. DOMAIN s = 0 .. StackSize /\ StackSize \in Nat /\ \A i \in 0 .. StackSize : ValueOK(s[i], n, h)
  BY StackAssumption DEF StackOK
<1>3. \A i \in 0 .. StackSize : i >= from /\ i < from + Len(vs) => i - from + 1 \in DOMAIN vs
  BY <1>1, <1>2
<1>4. DOMAIN Fill(s, from, vs) = 0 .. StackSize /\ Fill(s, from, vs) = [i \in 0 .. StackSize |-> Fill(s, from, vs)[i]]
  BY <1>2 DEF Fill
<1>5. \A i \in 0 .. StackSize : Fill(s, from, vs)[i] = IF i >= from /\ i < from + Len(vs) THEN vs[i - from + 1] ELSE s[i]
  BY <1>2 DEF Fill
<1> HIDE DEF Fill
<1>6. \A i \in 0 .. StackSize : ValueOK(Fill(s, from, vs)[i], n, h)
  BY <1>2, <1>3, <1>5 DEF ValuesOK
<1>7. QED
  BY <1>4, <1>6 DEF StackOK

LEMMA StackSet ==
  ASSUME NEW s, NEW n, NEW h, StackOK(s, n, h), NEW a, NEW v, ValueOK(v, n, h)
  PROVE  StackOK([s EXCEPT ![a] = v], n, h)
<1>1. DOMAIN s = 0 .. StackSize
  BY DEF StackOK
<1>2. [s EXCEPT ![a] = v] = [i \in 0 .. StackSize |-> IF i = a THEN v ELSE s[i]]
  BY <1>1 DEF StackOK
<1>3. QED
  BY <1>2 DEF StackOK

LEMMA Adjusted ==
  ASSUME NEW vs, IsSeq(vs), NEW k \in Nat, NEW n, NEW h, ValuesOK(vs, n, h)
  PROVE  IsSeq(Adjust(vs, k)) /\ Len(Adjust(vs, k)) = k /\ ValuesOK(Adjust(vs, k), n, h)
<1>1. Len(vs) \in Nat /\ DOMAIN vs = 1 .. Len(vs)
  BY SeqFacts
<1>2. Adjust(vs, k) = [i \in 1 .. k |-> Adjust(vs, k)[i]]
  BY DEF Adjust
<1>3. IsSeq(Adjust(vs, k)) /\ Len(Adjust(vs, k)) = k /\ DOMAIN Adjust(vs, k) = 1 .. k
  BY <1>2, FunctionFacts
<1>4. \A i \in 1 .. k : Adjust(vs, k)[i] = IF i <= Len(vs) THEN vs[i] ELSE Nil
  BY DEF Adjust
<1>5. \A i \in 1 .. k : i <= Len(vs) => i \in DOMAIN vs
  BY <1>1
<1>6. QED
  BY <1>3, <1>4, <1>5, NilOK DEF ValuesOK

(* Values read from the stack.                                             *)
LEMMA Sliced ==
  ASSUME NEW n, NEW h, StackOK(stk, n, h), NEW from \in Nat, NEW k \in Nat, from + k <= StackSize + 1
  PROVE  IsSeq(Slots(from, k)) /\ Len(Slots(from, k)) = k /\ ValuesOK(Slots(from, k), n, h)
<1>1. Slots(from, k) = [i \in 1 .. k |-> Slots(from, k)[i]]
  BY DEF Slots
<1>2. IsSeq(Slots(from, k)) /\ Len(Slots(from, k)) = k /\ DOMAIN Slots(from, k) = 1 .. k
  BY <1>1, FunctionFacts
<1>3. \A i \in 1 .. k : Slots(from, k)[i] = stk[from + i - 1] /\ from + i - 1 \in 0 .. StackSize
  BY StackAssumption DEF Slots
<1>4. QED
  BY <1>2, <1>3 DEF ValuesOK, StackOK

------------------------------------------------------------------------------
(* Where the interpreter stands.                                           *)

LEMMA Here ==
  ASSUME IInv, status = "run"
  PROVE  /\ Len(frames) \in Nat \ {0} /\ DOMAIN frames = 1 .. Len(frames)
         /\ Len(frames) \in DOMAIN frames
         /\ F = frames[Len(frames)] /\ FrameOK(F, Len(cells))
         /\ F.base \in Nat /\ F.fun \in Nat /\ F.pc \in Nat /\ F.fun < F.base
         /\ Len(cells) \in Nat /\ DOMAIN cells = 1 .. Len(cells)
         /\ top \in Nat /\ F.base <= top /\ top <= StackSize /\ StackSize \in Nat
<1>1. IsSeq(frames) /\ IsSeq(cells) /\ Len(frames) > 0 /\ TopOK(F, top)
  BY DEF IInv, FramesOK, CellsOK
<1>2. /\ Len(frames) \in Nat \ {0} /\ DOMAIN frames = 1 .. Len(frames) /\ Len(frames) \in DOMAIN frames
      /\ Len(cells) \in Nat /\ DOMAIN cells = 1 .. Len(cells)
  BY <1>1, SeqFacts
<1>3. F = frames[Len(frames)]
  BY DEF F, Last
<1>4. FrameOK(F, Len(cells))
  BY <1>2, <1>3 DEF IInv, FramesOK
<1>5. QED
  BY <1>1, <1>2, <1>3, <1>4, StackAssumption DEF FrameOK, TopOK

LEMMA Scripted ==
  ASSUME SoundFunctions(Prototypes), IInv, status = "run", F.falo
  PROVE  /\ P \in Prototypes /\ FunctionSound(P, Prototypes)
         /\ P.nstack \in Nat /\ P.nstack <= MaxStack /\ MaxStack \in Nat /\ P.nargs \in Nat
         /\ F.top = F.base + P.nstack /\ F.top <= StackSize /\ F.top \in Nat
         /\ Len(F.caps) = Len(P.caps) /\ Len(P.caps) \in Nat \ {0} /\ DOMAIN F.caps = 1 .. Len(P.caps)
         /\ \A c \in DOMAIN F.caps : F.caps[c] \in 1 .. Len(cells)
         /\ F.pc + 1 \in DOMAIN P.code /\ InstructionSound(P, F.pc + 1)
         /\ I.i \in Opcodes /\ I.A \in Nat /\ I.B \in Int /\ I.C \in Nat
         /\ I.i \notin {"JMP", "JCZ"} => I.B \in Nat
         /\ OperandsSound(P, I) /\ RangesSound(P, I) /\ WaysSound(P, F.pc + 1)
<1>1. FrameOK(F, Len(cells)) /\ TopOK(F, top) /\ F.base \in Nat
  BY Here DEF IInv
<1>2. P \in Prototypes /\ FunctionSound(P, Prototypes)
  BY <1>1 DEF FrameOK, SoundFunctions, P
<1>3. F.pc + 1 \in DOMAIN P.code
  BY <1>1 DEF TopOK, P
<1>4. InstructionSound(P, F.pc + 1)
  BY <1>2, <1>3 DEF FunctionSound
<1>5. /\ I.i \in Opcodes /\ I.A \in Nat /\ I.B \in Int /\ I.C \in Nat
      /\ I.i \notin {"JMP", "JCZ"} => I.B \in Nat
      /\ OperandsSound(P, I) /\ RangesSound(P, I) /\ WaysSound(P, F.pc + 1)
  BY <1>4 DEF InstructionSound, I
<1>6. P.nstack \in Nat /\ P.nstack <= MaxStack /\ MaxStack \in Nat /\ P.nargs \in Nat /\ Len(P.caps) \in Nat \ {0}
  BY <1>2, MaxStackAssumption DEF FunctionSound
<1>7. /\ F.top = F.base + P.nstack /\ F.top <= StackSize
      /\ Len(F.caps) = Len(P.caps) /\ DOMAIN F.caps = 1 .. Len(P.caps)
      /\ \A c \in DOMAIN F.caps : F.caps[c] \in 1 .. Len(cells)
  BY <1>1 DEF FrameOK, P
<1>8. F.top \in Nat
  BY <1>1, <1>6, <1>7
<1>9. QED
  BY <1>2, <1>3, <1>4, <1>5, <1>6, <1>7, <1>8

LEMMA RegisterIn ==
  ASSUME SoundFunctions(Prototypes), IInv, status = "run", F.falo, NEW r, Register(P, r)
  PROVE  R(r) \in 0 .. StackSize /\ R(r) < F.top /\ F.base <= R(r) /\ R(r) \in Nat
<1>1. r \in Nat /\ r < P.nstack
  BY Scripted DEF Register
<1>2. /\ F.base \in Nat /\ P.nstack \in Nat /\ F.top = F.base + P.nstack
      /\ F.top <= StackSize /\ StackSize \in Nat
  BY Scripted, Here
<1>3. QED
  BY <1>1, <1>2 DEF R

(* Some registers in a row lie in the frame.                               *)
LEMMA InFrame ==
  ASSUME NEW b \in Nat, NEW r \in Nat, NEW n \in Nat, NEW size \in Nat, NEW limit \in Nat,
         r + n <= size, b + size <= limit
  PROVE  b + r \in Nat /\ b + r + n <= limit /\ b + r + n <= limit + 1
OBVIOUS

LEMMA PlaceOK ==
  ASSUME SoundFunctions(Prototypes), IInv, status = "run", F.falo, NEW r \in Nat, Place(P, r)
  PROVE  ValueOK(S(r), Len(cells), heap)
<1>1. StackOK(stk, Len(cells), heap) /\ CellsOK(cells, heap)
  BY DEF IInv
<1>2. CASE Register(P, r)
  <2>1. r < MaxStack
    BY <1>2, Scripted DEF Register
  <2>2. S(r) = stk[R(r)]
    BY <2>1 DEF S
  <2>3. QED
    BY <1>1, <1>2, <2>2, RegisterIn DEF StackOK
<1>3. CASE ~Register(P, r)
  <2>1. r - MaxStack \in 0 .. Len(P.caps) - 1
    BY <1>3 DEF Place
  <2> DEFINE c == F.caps[r - MaxStack + 1]
  <2>2. r - MaxStack + 1 \in DOMAIN F.caps
    BY <2>1, Scripted
  <2>3. c \in DOMAIN cells
    BY <2>2, Scripted, Here
  <2>4. CellOK(cells[c], Len(cells), heap)
    BY <1>1, <2>3 DEF CellsOK
  <2> HIDE DEF c
  <2>5. cells[c].at >= 0 => cells[c].at \in 0 .. StackSize
    BY <2>4, Here DEF CellOK
  <2>6. r < MaxStack \/ S(r) = (IF cells[c].at >= 0 THEN stk[cells[c].at] ELSE cells[c].v)
    BY DEF S, c
  <2>7. CASE r < MaxStack
    BY <2>1, <2>7, Scripted
  <2>8. CASE ~(r < MaxStack)
    BY <1>1, <2>4, <2>5, <2>6, <2>8 DEF StackOK, CellOK
  <2>9. QED
    BY <2>7, <2>8
<1>4. QED
  BY <1>2, <1>3

LEMMA OperandOK ==
  ASSUME SoundFunctions(Prototypes), IInv, status = "run", F.falo,
         NEW x, NEW r \in Nat, Operand(P, x, r)
  PROVE  ValueOK(X(x, r), Len(cells), heap)
<1>1. CASE x = 1
  <2>1. r + 1 \in DOMAIN P.consts /\ X(x, r) = P.consts[r + 1]
    BY <1>1 DEF Operand, X, K
  <2>2. P.consts[r + 1][1] \in {"nil", "true", "false", "int", "str"}
    BY <2>1, Scripted DEF FunctionSound
  <2>3. QED
    BY <2>1, <2>2, PlainOK
<1>2. CASE x # 1
  BY <1>2, PlaceOK DEF Operand, X
<1>3. QED
  BY <1>1, <1>2

(* Writing a register or a capture.                                        *)
LEMMA Written ==
  ASSUME SoundFunctions(Prototypes), IInv, status = "run", F.falo,
         NEW m \in Nat, Len(cells) <= m, NEW g, NEW s, StackOK(s, m, g),
         NEW cs, CellsOK(cs, g), Len(cs) = m,
         NEW a \in Nat, Place(P, a), NEW v, ValueOK(v, m, g), PutIn(s, cs, a, v)
  PROVE  /\ StackOK(stk', m, g) /\ CellsOK(cells', g) /\ Len(cells') = m
         /\ DOMAIN cells' = DOMAIN cs /\ \A c \in DOMAIN cs : cells'[c].at = cs[c].at
<1> DEFINE c == F.caps[a - MaxStack + 1]
<1>1. IsSeq(cs) /\ DOMAIN cs = 1 .. m
  BY SeqFacts DEF CellsOK
<1>2. CASE a < MaxStack
  <2>1. stk' = [s EXCEPT ![R(a)] = v] /\ cells' = cs
    BY <1>2 DEF PutIn
  <2>2. QED
    BY <2>1, StackSet
<1>3. CASE ~(a < MaxStack)
  <2>1. ~Register(P, a)
    BY <1>3, Scripted DEF Register
  <2>2. a - MaxStack + 1 \in DOMAIN F.caps
    BY <2>1, Scripted DEF Place
  <2>3. c \in 1 .. Len(cells)
    BY <2>2, Scripted
  <2> HIDE DEF c
  <2>4. c \in DOMAIN cs
    BY <1>1, <2>3
  <2>5. CellOK(cs[c], m, g)
    BY <2>4 DEF CellsOK
  <2>6. CASE cs[c].at >= 0
    <3>1. stk' = [s EXCEPT ![cs[c].at] = v] /\ cells' = cs
      BY <1>3, <2>6 DEF PutIn, c
    <3>2. QED
      BY <3>1, StackSet
  <2>7. CASE ~(cs[c].at >= 0)
    <3>1. stk' = s /\ cells' = [cs EXCEPT ![c].v = v]
      BY <1>3, <2>7 DEF PutIn, c
    <3> DEFINE d == [cs[c] EXCEPT !.v = v]
    <3>2. d = [at |-> cs[c].at, v |-> v]
      BY <2>5 DEF CellOK
    <3>3. cells' = [cs EXCEPT ![c] = d]
      BY <3>1
    <3>4. CellOK(d, m, g) /\ d.at = cs[c].at
      BY <2>5, <3>2 DEF CellOK
    <3> HIDE DEF d
    <3>5. /\ IsSeq(cells') /\ Len(cells') = m /\ DOMAIN cells' = 1 .. m
          /\ \A i \in 1 .. m : cells'[i] = IF i = c THEN d ELSE cs[i]
      BY <1>1, <3>3, ExceptFacts
    <3>6. \A i \in 1 .. m : CellOK(cells'[i], m, g)
      BY <1>1, <3>4, <3>5 DEF CellsOK
    <3>7. CellsOK(cells', g)
      BY <3>5, <3>6 DEF CellsOK
    <3>8. QED
      BY <1>1, <3>1, <3>4, <3>5, <3>7
  <2>8. QED
    BY <2>6, <2>7
<1>4. QED
  BY <1>2, <1>3

(* The frames once the last one has moved to the instruction q.            *)
Moved(fs, q) == [fs EXCEPT ![Len(fs)] = [fs[Len(fs)] EXCEPT !.pc = q]]

LEMMA FrameMoved ==
  ASSUME NEW n, NEW f, FrameOK(f, n), NEW q \in Nat
  PROVE  LET g == [f EXCEPT !.pc = q]
         IN /\ FrameOK(g, n) /\ g.pc = q
            /\ g.falo = f.falo /\ g.proto = f.proto /\ g.base = f.base /\ g.fun = f.fun
            /\ g.top = f.top /\ g.caps = f.caps /\ g.nres = f.nres /\ g.tail = f.tail
<1> DEFINE g == [f EXCEPT !.pc = q]
<1>1. g = [falo |-> f.falo, proto |-> f.proto, caps |-> f.caps, fun |-> f.fun, base |-> f.base,
           top |-> f.top, pc |-> q, nres |-> f.nres, tail |-> f.tail]
  BY DEF FrameOK
<1> HIDE DEF g
<1>2. /\ g.pc = q /\ g.falo = f.falo /\ g.proto = f.proto /\ g.base = f.base /\ g.fun = f.fun
      /\ g.top = f.top /\ g.caps = f.caps /\ g.nres = f.nres /\ g.tail = f.tail
  BY <1>1
<1>3. FrameOK(g, n)
  BY <1>1, <1>2 DEF FrameOK
<1>4. QED
  BY <1>2, <1>3 DEF g

LEMMA FrameKept ==
  ASSUME NEW n \in Nat, NEW m \in Nat, n <= m, NEW f, FrameOK(f, n)
  PROVE  FrameOK(f, m)
<1>1. \A c : c \in 1 .. n => c \in 1 .. m
  OBVIOUS
<1>2. QED
  BY <1>1 DEF FrameOK

LEMMA FramesKept ==
  ASSUME NEW n \in Nat, NEW m \in Nat, n <= m, NEW fs, FramesOK(fs, n)
  PROVE  FramesOK(fs, m)
BY FrameKept DEF FramesOK

LEMMA FramesMoved ==
  ASSUME NEW n, NEW fs, FramesOK(fs, n), Len(fs) > 0, NEW q \in Nat
  PROVE  LET gs == Moved(fs, q)
         IN /\ FramesOK(gs, n) /\ Len(gs) = Len(fs) /\ DOMAIN gs = 1 .. Len(fs)
            /\ Last(gs) = [Last(fs) EXCEPT !.pc = q]
            /\ gs[Len(fs)] = [Last(fs) EXCEPT !.pc = q]
            /\ \A at : Owned(fs, at) <=> Owned(gs, at)
<1> DEFINE l == Len(fs)
           g == [fs[l] EXCEPT !.pc = q]
           gs == Moved(fs, q)
<1>1. IsSeq(fs) /\ l \in Nat /\ DOMAIN fs = 1 .. l /\ l \in DOMAIN fs
  BY SeqFacts DEF FramesOK
<1>2. FrameOK(fs[l], n)
  BY <1>1 DEF FramesOK
<1>3. gs = [fs EXCEPT ![l] = g]
  BY DEF Moved
<1> HIDE DEF gs
<1>4. /\ FrameOK(g, n) /\ g.falo = fs[l].falo /\ g.proto = fs[l].proto /\ g.base = fs[l].base
      /\ g.fun = fs[l].fun /\ g.nres = fs[l].nres
  BY <1>2, FrameMoved
<1>5. g = [Last(fs) EXCEPT !.pc = q]
  BY DEF Last
<1> HIDE DEF g
<1>6. /\ IsSeq(gs) /\ Len(gs) = l /\ DOMAIN gs = 1 .. l
      /\ \A i \in 1 .. l : gs[i] = IF i = l THEN g ELSE fs[i]
  <2> HIDE DEF l
  <2>1. QED
    BY <1>1, <1>3, ExceptFacts DEF l
<1> HIDE DEF l
<1>7. gs[l] = g /\ \A i \in 1 .. l : i # l => gs[i] = fs[i]
  BY <1>1, <1>6
<1>8. \A k \in DOMAIN gs : FrameOK(gs[k], n)
  BY <1>1, <1>4, <1>6, <1>7 DEF FramesOK
<1>9. \A k \in DOMAIN gs : k + 1 \in DOMAIN gs => Called(gs[k], gs[k + 1])
  <2> SUFFICES ASSUME NEW k \in 1 .. l, k + 1 \in 1 .. l PROVE Called(gs[k], gs[k + 1])
    BY <1>6
  <2>1. k # l /\ gs[k] = fs[k] /\ Called(fs[k], fs[k + 1])
    BY <1>1, <1>7 DEF FramesOK
  <2>2. gs[k + 1].fun = fs[k + 1].fun /\ gs[k + 1].nres = fs[k + 1].nres
    BY <1>4, <1>7
  <2>3. QED
    BY <2>1, <2>2 DEF Called
<1>10. FramesOK(gs, n)
  BY <1>6, <1>8, <1>9 DEF FramesOK
<1>11. Last(gs) = gs[l]
  BY <1>6 DEF Last
<1>12. \A k \in 1 .. l : gs[k].falo = fs[k].falo /\ gs[k].base = fs[k].base /\ gs[k].proto = fs[k].proto
  BY <1>4, <1>7
<1>13. \A at : Owned(fs, at) <=> Owned(gs, at)
  BY <1>1, <1>6, <1>12 DEF Owned
<1>14. QED
  BY <1>5, <1>6, <1>7, <1>10, <1>11, <1>13 DEF gs, l

------------------------------------------------------------------------------
(* A step of a script function within its frame.                           *)

LEMMA Advances ==
  ASSUME IInv, status = "run", NEW k \in Int, Advance(k)
  PROVE  frames' = Moved(frames, F.pc + 1 + k)
BY Here DEF Advance, Moved

LEMMA Continues ==
  ASSUME SoundFunctions(Prototypes), IInv, status = "run", NEW q \in Nat,
         frames' = Moved(frames, q),
         Len(cells) <= Len(cells'), CellsOK(cells', heap'), HeapOK(heap', Len(cells')),
         StackOK(stk', Len(cells'), heap'),
         CapturesOK(frames, cells'),
         TopOK([F EXCEPT !.pc = q], top')
  PROVE  IInv'
<1>1. Len(cells') \in Nat /\ Len(cells) \in Nat
  BY SeqFacts, Here DEF CellsOK
<1>2. FramesOK(frames, Len(cells')) /\ Len(frames) > 0
  BY <1>1, FramesKept DEF IInv
<1>3. /\ FramesOK(frames', Len(cells')) /\ Len(frames') = Len(frames)
      /\ Last(frames') = [Last(frames) EXCEPT !.pc = q]
      /\ \A at : Owned(frames, at) <=> Owned(frames', at)
  BY <1>2, FramesMoved
<1>4. CapturesOK(frames', cells')
  BY <1>3 DEF CapturesOK
<1>5. F' = [F EXCEPT !.pc = q]
  BY <1>3 DEF F
<1>6. TopOK(F', top')
  BY <1>5
<1>7. /\ FramesOK(frames', Len(cells')) /\ Len(frames') > 0 /\ CapturesOK(frames', cells') /\ TopOK(F', top')
      /\ CellsOK(cells', heap') /\ HeapOK(heap', Len(cells')) /\ StackOK(stk', Len(cells'), heap')
  BY <1>2, <1>3, <1>4, <1>6
<1>8. QED
  BY <1>7 DEF IInv

(* T->top covers the registers unless an instruction has left values.      *)
LEMMA Covered ==
  ASSUME SoundFunctions(Prototypes), IInv, status = "run", F.falo, ~Takes(I)
  PROVE  top = F.top \/ HasConcat(P)
<1>1. top = F.top \/ (F.pc > 0 /\ Waits(P.code[F.pc])) \/ HasConcat(P)
  BY DEF IInv, TopOK, P
<1>2. ASSUME F.pc > 0, Waits(P.code[F.pc]) PROVE FALSE
  <2>1. F.pc + 1 \in DOMAIN P.code /\ F.pc \in Nat /\ FunctionSound(P, Prototypes)
    BY Scripted, Here
  <2>2. DOMAIN P.code = 1 .. Len(P.code) /\ Len(P.code) \in Nat
    BY <2>1 DEF FunctionSound
  <2>3. F.pc \in DOMAIN P.code
    BY <1>2, <2>1, <2>2
  <2>4. InstructionSound(P, F.pc)
    BY <2>1, <2>3 DEF FunctionSound
  <2>5. Follows(P.code[F.pc], P.code[F.pc + 1])
    BY <2>1, <2>4 DEF InstructionSound, WaysSound
  <2>6. QED
    BY <1>2, <2>5 DEF Follows, I
<1>3. QED
  BY <1>1, <1>2

LEMMA TopMoved ==
  ASSUME SoundFunctions(Prototypes), IInv, status = "run", F.falo,
         NEW q \in Nat, Leads(P, q + 1),
         NEW t, t = F.top \/ (t = top /\ ~Takes(I))
  PROVE  TopOK([F EXCEPT !.pc = q], t)
<1> DEFINE g == [F EXCEPT !.pc = q]
<1>1. g.pc = q /\ g.falo = F.falo /\ g.proto = F.proto /\ g.base = F.base /\ g.top = F.top
  <2>1. FrameOK(F, Len(cells))
    BY Here
  <2>2. QED
    BY ZenonT(40), <2>1, FrameMoved
<1> HIDE DEF g
<1>2. F.base <= F.top /\ F.top \in Nat /\ F.top <= StackSize
  <2>1. F.top = F.base + P.nstack /\ P.nstack \in Nat /\ F.top <= StackSize /\ F.base \in Nat
    BY Scripted, Here
  <2>2. QED
    BY <2>1
<1>3. t \in Nat /\ g.base <= t /\ t <= StackSize
  BY <1>1, <1>2, Here
<1>4. t = F.top \/ HasConcat(P)
  BY Covered
<1>5. q + 1 \in DOMAIN P.code /\ ~Takes(P.code[q + 1])
  BY DEF Leads
<1>6. QED
  BY <1>1, <1>3, <1>4, <1>5 DEF TopOK, P, g

(* The next instruction, when this one leaves no values to take.           *)
LEMMA LeadsOn ==
  ASSUME SoundFunctions(Prototypes), IInv, status = "run", F.falo, ~Waits(I),
         I.i \notin {"RET", "TCALL", "JMP"}
  PROVE  F.pc + 1 \in Nat /\ Leads(P, F.pc + 1 + 1)
<1>1. WaysSound(P, F.pc + 1) /\ F.pc + 1 \in Nat /\ I = P.code[F.pc + 1]
  <2>1. WaysSound(P, F.pc + 1) /\ F.pc \in Nat
    BY Scripted, Here
  <2>2. QED
    BY <2>1 DEF I
<1>2. F.pc + 1 + 1 \in DOMAIN P.code
  BY <1>1 DEF WaysSound
<1>3. Follows(I, P.code[F.pc + 1 + 1])
  BY <1>1, <1>2 DEF WaysSound
<1>4. QED
  BY <1>1, <1>2, <1>3 DEF Follows, Leads

LEMMA SameCaptures ==
  ASSUME IInv, status = "run", NEW cs, DOMAIN cs = DOMAIN cells,
         \A c \in DOMAIN cells : cs[c].at = cells[c].at
  PROVE  CapturesOK(frames, cs)
BY DEF IInv, CapturesOK

(* An instruction that writes one place and goes on.                       *)
LEMMA PutStep ==
  ASSUME SoundFunctions(Prototypes), IInv, status = "run", F.falo, ~Waits(I),
         I.i \notin {"RET", "TCALL", "JMP"},
         Place(P, I.A), NEW v, ValueOK(v, Len(cells), heap'), Put(I.A, v),
         HeapOK(heap', Len(cells)), Grows(heap, heap'), Advance(0),
         top' = F.top \/ (top' = top /\ ~Takes(I))
  PROVE  IInv'
<1>1. /\ StackOK(stk, Len(cells), heap') /\ CellsOK(cells, heap') /\ Len(cells) \in Nat
      /\ I.A \in Nat
  <2>1. Len(cells) \in Nat /\ I.A \in Nat
    BY Here, Scripted
  <2>2. Len(cells) <= Len(cells)
    BY <2>1
  <2>3. StackOK(stk, Len(cells), heap')
    BY <2>1, <2>2, StackKept DEF IInv
  <2>4. CellsOK(cells, heap')
    BY <2>1, <2>2, CellKept DEF IInv, CellsOK
  <2>5. QED
    BY <2>1, <2>3, <2>4
<1>2. PutIn(stk, cells, I.A, v) /\ Len(cells) <= Len(cells)
  BY <1>1 DEF Put
<1>3. /\ StackOK(stk', Len(cells), heap') /\ CellsOK(cells', heap') /\ Len(cells') = Len(cells)
      /\ DOMAIN cells' = DOMAIN cells /\ \A c \in DOMAIN cells : cells'[c].at = cells[c].at
  BY <1>1, <1>2, Written
<1>4. CapturesOK(frames, cells')
  BY <1>3, SameCaptures
<1>5. F.pc + 1 \in Nat /\ Leads(P, F.pc + 1 + 1)
  BY LeadsOn
<1>6. frames' = Moved(frames, F.pc + 1)
  <2>1. F.pc + 1 + 0 = F.pc + 1
    BY Here
  <2>2. QED
    BY <2>1, Advances
<1>7. TopOK([F EXCEPT !.pc = F.pc + 1], top')
  BY <1>5, TopMoved
<1>8. Len(cells) <= Len(cells')
  BY <1>1, <1>3
<1>9. QED
  BY <1>3, <1>4, <1>5, <1>6, <1>7, <1>8, Continues

------------------------------------------------------------------------------
(* Instructions that compute a value.                                      *)

LEMMA BadOK == ASSUME NEW n, NEW h PROVE ValueOK(Bad, n, h)
BY PlainOK DEF Bad

LEMMA IntOK == ASSUME NEW n, NEW h, NEW i PROVE ValueOK(IntV(i), n, h)
BY PlainOK DEF IntV

LEMMA ElementsOK ==
  ASSUME NEW n, HeapOK(heap, n), NEW v, v[1] \in {"lis", "tup"}, ValueOK(v, n, heap)
  PROVE  IsSeq(Elements(v)) /\ ValuesOK(Elements(v), n, heap)
<1>1. v[2] \in DOMAIN heap /\ heap[v[2]].kind = v[1]
  BY DEF ValueOK
<1>2. QED
  BY <1>1 DEF HeapOK, ObjectOK, Elements

LEMMA EntryOK ==
  ASSUME NEW n, HeapOK(heap, n), NEW v, v[1] = "tab", ValueOK(v, n, heap), NEW k
  PROVE  ValueOK(Entry(v[2], k), n, heap)
<1>1. v[2] \in DOMAIN heap /\ heap[v[2]].kind = "tab"
  BY DEF ValueOK
<1>2. QED
  BY <1>1, NilOK DEF HeapOK, ObjectOK, Entry

LEMMA GetOK ==
  ASSUME NEW n, HeapOK(heap, n), NEW v, ValueOK(v, n, heap), NEW k
  PROVE  ValueOK(Get(v, k), n, heap)
<1>1. CASE ~IsCol(v)
  BY <1>1, BadOK DEF Get
<1>2. CASE v[1] = "tab"
  BY <1>2, EntryOK DEF Get, IsCol
<1>3. CASE v[1] \in {"lis", "tup"}
  <2> DEFINE s == Elements(v)
             w == Wrap(k[2], Len(s))
  <2>1. IsSeq(s) /\ ValuesOK(s, n, heap)
    BY <1>3, ElementsOK
  <2>2. Get(v, k) = Item(s, k)
    BY <1>3 DEF Get, IsCol
  <2> HIDE DEF s
  <2>3. Len(s) \in Nat /\ DOMAIN s = 1 .. Len(s)
    BY <2>1, SeqFacts
  <2>4. CASE Within(k, s, Len(s))
    <3>1. w \in 0 .. Len(s) - 1
      BY <2>4 DEF Within
    <3> HIDE DEF w
    <3>2. w + 1 \in DOMAIN s
      BY <2>3, <3>1
    <3>3. Get(v, k) = s[w + 1]
      BY <2>2, <2>4 DEF Item, w
    <3>4. QED
      BY <2>1, <3>2, <3>3 DEF ValuesOK
  <2>5. CASE ~Within(k, s, Len(s))
    BY <2>2, <2>5, NilOK DEF Item
  <2>6. QED
    BY <2>4, <2>5
<1>4. QED
  BY <1>1, <1>2, <1>3 DEF IsCol

LEMMA SelectOK ==
  ASSUME SoundFunctions(Prototypes), IInv, status = "run", F.falo, P.nargs = 0, NEW k
  PROVE  ValueOK(Select(k), Len(cells), heap)
<1>1. CASE k[1] = "int" /\ Below(k[2], NExtra)
  <2>1. F.base \in Nat /\ F.fun \in Nat /\ F.fun < F.base /\ F.base <= StackSize /\ StackSize \in Nat
    <3>1. F.base \in Nat /\ F.fun \in Nat /\ F.fun < F.base /\ F.base <= top /\ top <= StackSize /\ top \in Nat /\ StackSize \in Nat
      BY Here
    <3>2. QED
      BY <3>1
  <2>2. NExtra \in Nat /\ NExtra = F.base - (F.fun + 1)
    BY <2>1 DEF NExtra
  <2>3. k[2] \in 0 .. NExtra - 1
    BY <1>1, <2>2 DEF Below
  <2>4. F.fun + 1 + P.nargs + k[2] \in 0 .. StackSize
    BY <2>1, <2>2, <2>3
  <2>5. Select(k) = stk[F.fun + 1 + P.nargs + k[2]]
    BY <1>1 DEF Select
  <2>6. QED
    BY <2>4, <2>5 DEF IInv, StackOK
<1>2. CASE ~(k[1] = "int" /\ Below(k[2], NExtra))
  BY <1>2, BadOK DEF Select
<1>3. QED
  BY <1>1, <1>2

LEMMA ComputedOK ==
  ASSUME SoundFunctions(Prototypes), IInv, status = "run", F.falo,
         I.i \in {"MOV", "LDC", "GET", "ADD", "SUB", "AADD", "ASUB", "UNM", "LEN", "SELV"}
  PROVE  ValueOK(Computed, Len(cells), heap)
<1> DEFINE n == Len(cells)
<1>1. /\ HeapOK(heap, n) /\ OperandsSound(P, I) /\ RangesSound(P, I)
      /\ I.B \in Nat /\ I.C \in Nat
  BY Scripted DEF IInv
<1>2. CASE I.i = "MOV"
  BY <1>1, <1>2, OperandOK DEF OperandsSound, Computed
<1>3. CASE I.i = "LDC"
  <2>1. I.B + 1 \in DOMAIN P.consts
    BY <1>1, <1>3 DEF OperandsSound
  <2>2. P.consts[I.B + 1][1] \in {"nil", "true", "false", "int", "str"}
    BY <2>1, Scripted DEF FunctionSound
  <2>3. QED
    BY <1>3, <2>2, PlainOK DEF Computed, K
<1>4. CASE I.i = "GET"
  <2>1. ValueOK(X(I.xB, I.B), n, heap)
    BY <1>1, <1>4, OperandOK DEF OperandsSound
  <2>2. Computed = Get(X(I.xB, I.B), X(I.xC, I.C))
    BY <1>4 DEF Computed
  <2>3. QED
    BY <1>1, <2>1, <2>2, GetOK
<1>5. CASE I.i \in {"ADD", "SUB", "AADD", "ASUB"}
  <2>1. \A op, a, b : ValueOK(Sum(op, a, b), n, heap)
    BY IntOK, BadOK DEF Sum
  <2>2. Computed = Sum(I.i, X(I.xB, I.B), X(I.xC, I.C)) \/ Computed = Sum(I.i, S(I.A), X(I.xB, I.B))
    BY <1>5 DEF Computed
  <2>3. QED
    BY <2>1, <2>2
<1>6. CASE I.i = "UNM"
  <2>1. Computed = (IF X(I.xB, I.B)[1] = "int" THEN IntV(-X(I.xB, I.B)[2]) ELSE Bad)
    BY <1>6 DEF Computed
  <2>2. QED
    BY <2>1, IntOK, BadOK
<1>7. CASE I.i = "LEN"
  <2>1. Computed = Length(X(I.xB, I.B))
    BY <1>7 DEF Computed
  <2>2. \A v : ValueOK(Length(v), n, heap)
    BY IntOK, BadOK DEF Length
  <2>3. QED
    BY <2>1, <2>2
<1>8. CASE I.i = "SELV"
  <2>1. P.nargs = 0 /\ I.xB \in 0 .. 3
    BY <1>1, <1>8 DEF OperandsSound, RangesSound
  <2>2. \/ Computed = Select(X(I.xB, I.B)) \/ Computed = Select(IntV(I.B)) \/ Computed = IntV(NExtra)
    BY <1>8, <2>1 DEF Computed
  <2>3. QED
    BY <2>1, <2>2, SelectOK, IntOK
<1>9. QED
  BY <1>2, <1>3, <1>4, <1>5, <1>6, <1>7, <1>8

LEMMA RaiseKeeps ==
  ASSUME Raise PROVE IInv'
BY DEF Raise, IInv

LEMMA RunningFacts ==
  ASSUME NEW op, Running(op)
  PROVE  status = "run" /\ F.falo /\ I.i = op
BY DEF Running

LEMMA EvaluateKeeps ==
  ASSUME SoundFunctions(Prototypes), IInv, Evaluate
  PROVE  IInv'
<1>1. /\ status = "run" /\ F.falo
      /\ I.i \in {"MOV", "LDC", "GET", "ADD", "SUB", "AADD", "ASUB", "UNM", "LEN", "SELV"}
  BY DEF Evaluate, Running
<1>2. CASE Computed = Bad
  BY <1>2, RaiseKeeps DEF Evaluate
<1>3. CASE Computed # Bad
  <2>1. /\ Put(I.A, Computed) /\ Advance(0) /\ top' = top /\ heap' = heap
    BY <1>3 DEF Evaluate
  <2>2. /\ ~Waits(I) /\ I.i \notin {"RET", "TCALL", "JMP"} /\ ~Takes(I)
    BY <1>1 DEF Waits, Takes
  <2>3. OperandsSound(P, I)
    BY <1>1, Scripted
  <2>4. Place(P, I.A)
    BY <1>1, <2>3 DEF OperandsSound, Loads, Changes
  <2>5. ValueOK(Computed, Len(cells), heap)
    BY <1>1, ComputedOK
  <2>6. HeapOK(heap', Len(cells)) /\ Grows(heap, heap') /\ ValueOK(Computed, Len(cells), heap')
    BY <1>1, <2>1, <2>5, SameHeapGrows DEF IInv
  <2>7. QED
    BY <1>1, <2>1, <2>2, <2>4, <2>6, PutStep
<1>4. QED
  BY <1>2, <1>3

------------------------------------------------------------------------------
(* Instructions that change the stack or the heap.                         *)

LEMMA Goes ==
  ASSUME SoundFunctions(Prototypes), IInv, status = "run", F.falo,
         NEW k \in Int, Advance(k), F.pc + 1 + k \in Nat,
         cells' = cells, StackOK(stk', Len(cells), heap),
         HeapOK(heap', Len(cells)), Grows(heap, heap'),
         TopOK([F EXCEPT !.pc = F.pc + 1 + k], top')
  PROVE  IInv'
<1>1. Len(cells) \in Nat /\ Len(cells) <= Len(cells)
  BY Here
<1>2. StackOK(stk', Len(cells'), heap') /\ CellsOK(cells', heap')
  <2>1. StackOK(stk', Len(cells), heap')
    BY <1>1, StackKept
  <2>2. CellsOK(cells, heap')
    BY <1>1, CellKept DEF IInv, CellsOK
  <2>3. QED
    BY <2>1, <2>2
<1>3. CapturesOK(frames, cells')
  BY DEF IInv
<1>4. frames' = Moved(frames, F.pc + 1 + k)
  BY Advances
<1>5. HeapOK(heap', Len(cells')) /\ Len(cells) <= Len(cells')
  BY <1>1
<1>6. QED
  BY <1>2, <1>3, <1>4, <1>5, Continues

(* The next instruction, after one that leaves values up to t.             *)
LEMMA TopLeft ==
  ASSUME SoundFunctions(Prototypes), IInv, status = "run", F.falo, Waits(I),
         NEW t \in Nat, R(I.A) <= t, t <= StackSize
  PROVE  TopOK([F EXCEPT !.pc = F.pc + 1], t)
<1> DEFINE g == [F EXCEPT !.pc = F.pc + 1]
           j == P.code[F.pc + 1 + 1]
<1>1. F.pc + 1 \in Nat /\ F.pc + 1 > 0 /\ F.base \in Nat /\ FrameOK(F, Len(cells))
  <2>1. F.pc \in Nat /\ F.base \in Nat /\ FrameOK(F, Len(cells))
    BY Here
  <2>2. QED
    BY <2>1
<1>2. g.pc = F.pc + 1 /\ g.falo = F.falo /\ g.proto = F.proto /\ g.base = F.base /\ g.top = F.top
  <2> DEFINE q == F.pc + 1
  <2>1. q \in Nat
    BY <1>1
  <2> HIDE DEF q
  <2> DEFINE e == [F EXCEPT !.pc = q]
  <2>2. e.pc = q /\ e.falo = F.falo /\ e.proto = F.proto /\ e.base = F.base /\ e.top = F.top
    <3>1. FrameOK(F, Len(cells))
      BY <1>1
    <3>2. QED
      BY ZenonT(40), <2>1, <3>1, FrameMoved
  <2>3. QED
    BY <2>2 DEF q
<1> HIDE DEF g
<1>3. I = P.code[F.pc + 1] /\ I.A \in Nat
  <2>1. I.A \in Nat
    BY Scripted
  <2>2. QED
    BY <2>1 DEF I
<1>4. WaysSound(P, F.pc + 1) /\ I.i \notin {"RET", "TCALL", "JMP"}
  BY Scripted DEF Waits
<1>5. F.pc + 1 + 1 \in DOMAIN P.code /\ Follows(I, j)
  BY <1>3, <1>4 DEF WaysSound
<1>6. Takes(j) /\ Least(j) <= I.A
  BY <1>5 DEF Follows
<1>7. InstructionSound(P, F.pc + 1 + 1)
  BY <1>5, Scripted DEF FunctionSound
<1> HIDE DEF j
<1>8. j.A \in Nat /\ (j.i \notin {"JMP", "JCZ"} => j.B \in Nat)
  BY <1>7 DEF InstructionSound, j
<1>9. Least(j) \in Nat
  <2>1. j.i \in {"CALL", "TCALL", "RET", "NEWA", "CAT"}
    BY <1>6 DEF Takes
  <2>2. QED
    BY <1>8, <2>1 DEF Least
<1>10. F.base <= t /\ F.base + Least(j) <= t
  <2>1. R(I.A) = F.base + I.A
    BY DEF R
  <2>2. QED
    BY <1>1, <1>3, <1>6, <1>9, <2>1
<1>11. g.falo => /\ g.pc + 1 \in DOMAIN g.proto.code
                 /\ g.base + Least(g.proto.code[g.pc + 1]) <= t
                 /\ g.pc > 0 /\ Waits(g.proto.code[g.pc])
  BY <1>1, <1>2, <1>3, <1>5, <1>10 DEF P, j
<1>12. QED
  BY <1>2, <1>10, <1>11 DEF TopOK, g

LEMMA LoadNilsKeeps ==
  ASSUME SoundFunctions(Prototypes), IInv, LoadNils
  PROVE  IInv'
<1>1. status = "run" /\ F.falo /\ I.i = "LDN"
  BY RunningFacts DEF LoadNils
<1>2. /\ stk' = Fill(stk, R(I.A), Adjust(<<>>, I.B)) /\ Advance(0)
      /\ cells' = cells /\ heap' = heap /\ top' = top
  BY DEF LoadNils
<1>3. I.A \in Nat /\ I.B \in Nat /\ R(I.A) \in Int
  <2>1. I.A \in Nat /\ I.B \in Nat /\ F.base \in Nat
    BY <1>1, Scripted, Here
  <2>2. QED
    BY <2>1 DEF R
<1>4. IsSeq(<<>>) /\ ValuesOK(<<>>, Len(cells), heap)
  <2>1. <<>> \in Seq({})
    OBVIOUS
  <2>2. DOMAIN <<>> = {}
    OBVIOUS
  <2>3. QED
    BY <2>1, <2>2 DEF IsSeq, ValuesOK
<1>5. IsSeq(Adjust(<<>>, I.B)) /\ ValuesOK(Adjust(<<>>, I.B), Len(cells), heap)
  BY <1>3, <1>4, Adjusted
<1>6. StackOK(stk, Len(cells), heap) /\ HeapOK(heap, Len(cells))
  BY <1>1 DEF IInv
<1>7. StackOK(stk', Len(cells), heap)
  BY <1>2, <1>3, <1>5, <1>6, Filled
<1>8. ~Waits(I) /\ ~Takes(I) /\ I.i \notin {"RET", "TCALL", "JMP"}
  BY <1>1 DEF Waits, Takes
<1>9. F.pc + 1 \in Nat /\ Leads(P, F.pc + 1 + 1)
  BY <1>1, <1>8, LeadsOn
<1>10. TopOK([F EXCEPT !.pc = F.pc + 1], top')
  BY <1>1, <1>2, <1>8, <1>9, TopMoved
<1>11. F.pc + 1 + 0 = F.pc + 1 /\ 0 \in Int
  BY <1>9
<1>12. HeapOK(heap', Len(cells)) /\ Grows(heap, heap')
  BY <1>2, <1>6, SameHeapGrows
<1>13. QED
  BY <1>1, <1>2, <1>7, <1>9, <1>10, <1>11, <1>12, Goes

LEMMA CopiedUpOK ==
  ASSUME NEW n, NEW h, StackOK(stk, n, h), NEW from \in Nat, NEW to \in Nat, from <= to, NEW k \in Nat
  PROVE  StackOK(CopiedUp(from, to, k), n, h)
<1> DEFINE s == CopiedUp(from, to, k)
           src(i) == from + (IF from < to THEN (i - to) % (to - from) ELSE i - to)
<1>1. DOMAIN stk = 0 .. StackSize /\ StackSize \in Nat
  BY StackAssumption DEF StackOK
<1>2. s = [i \in 0 .. StackSize |-> IF i \in to .. to + k - 1 THEN stk[src(i)] ELSE stk[i]]
  BY <1>1 DEF CopiedUp
<1>3. \A i \in 0 .. StackSize : i \in to .. to + k - 1 => src(i) \in 0 .. StackSize
  <2> SUFFICES ASSUME NEW i \in 0 .. StackSize, i \in to .. to + k - 1 PROVE src(i) \in 0 .. StackSize
    OBVIOUS
  <2>1. CASE from < to
    <3>1. i - to \in Nat /\ to - from \in Nat \ {0} /\ to <= StackSize
      BY <1>1, <2>1
    <3>2. \A a \in Nat, b \in Nat \ {0} : a % b \in 0 .. b - 1
      OBVIOUS
    <3>3. (i - to) % (to - from) \in 0 .. (to - from) - 1
      BY <3>1, <3>2
    <3> DEFINE m == (i - to) % (to - from)
    <3> HIDE DEF m
    <3>4. m \in Nat /\ m < to - from
      BY <3>1, <3>3 DEF m
    <3>5. from + m \in 0 .. StackSize
      BY <1>1, <3>1, <3>4
    <3>6. src(i) = from + m
      BY <2>1 DEF m
    <3>7. QED
      BY <3>5, <3>6
  <2>2. CASE ~(from < to)
    BY <1>1, <2>2
  <2>3. QED
    BY <2>1, <2>2
<1> HIDE DEF src, s
<1>4. \A i \in 0 .. StackSize : ValueOK(s[i], n, h)
  BY <1>2, <1>3 DEF StackOK
<1>5. s = [i \in 0 .. StackSize |-> s[i]]
  BY <1>2
<1>6. QED
  BY <1>4, <1>5 DEF StackOK, s

(* What a copy of extra arguments writes lies in the slots the code has    *)
(* made sure of.                                                           *)
LEMMA ExtraFits ==
  ASSUME SoundFunctions(Prototypes), IInv, status = "run", F.falo, I.i = "LDV",
         NEW n, n = IF I.B = 0 THEN NExtra ELSE I.B - 1
  PROVE  /\ n \in Nat /\ R(I.A) \in Nat /\ F.fun + 1 + P.nargs \in Nat
         /\ F.fun + 1 + P.nargs <= R(I.A)
         /\ IF I.B = 0 THEN R(I.A) + n <= top + n ELSE R(I.A) + n <= F.top
<1>1. /\ I.A \in Nat /\ I.B \in Nat /\ P.nargs = 0
      /\ I.B > 0 => I.A + I.B - 1 <= P.nstack
      /\ I.B = 0 => I.A <= P.nstack /\ ~HasConcat(P)
  <2>1. I.A \in Nat /\ I.B \in Nat /\ RangesSound(P, I)
    BY Scripted
  <2>2. QED
    BY <2>1 DEF RangesSound
<1>2. /\ F.base \in Nat /\ F.fun \in Nat /\ F.fun < F.base
      /\ P.nstack \in Nat /\ F.top = F.base + P.nstack
  BY Here, Scripted
<1>3. NExtra \in Nat
  BY <1>1, <1>2 DEF NExtra
<1>4. n \in Nat
  BY <1>1, <1>3
<1>5. R(I.A) = F.base + I.A
  BY DEF R
<1>6. CASE I.B = 0
  <2>1. top = F.top
    <3>1. ~Takes(I)
      BY DEF Takes
    <3>2. QED
      BY <1>1, <1>6, <3>1, Covered
  <2>2. R(I.A) <= top
    BY <1>1, <1>2, <1>5, <1>6, <2>1
  <2>3. QED
    BY <1>1, <1>2, <1>4, <1>5, <1>6, <2>1, <2>2
<1>7. CASE I.B # 0
  BY <1>1, <1>2, <1>4, <1>5, <1>7
<1>8. QED
  BY <1>6, <1>7

LEMMA LoadExtraKeeps ==
  ASSUME SoundFunctions(Prototypes), IInv, LoadExtra
  PROVE  IInv' /\ status' # "overrun"
<1> DEFINE n == IF I.B = 0 THEN NExtra ELSE I.B - 1
           last == R(I.A) + n - 1
           sure == IF I.B = 0 THEN {F.top, top + n} ELSE {F.top}
           full == I.B = 0 /\ top + n > StackSize
<1>1. status = "run" /\ F.falo /\ I.i = "LDV"
  BY RunningFacts DEF LoadExtra
<1>2. /\ n \in Nat /\ R(I.A) \in Nat /\ F.fun + 1 + P.nargs \in Nat /\ F.fun + 1 + P.nargs <= R(I.A)
      /\ IF I.B = 0 THEN R(I.A) + n <= top + n ELSE R(I.A) + n <= F.top
  BY <1>1, ExtraFits
<1>3. CASE full /\ Raise
  BY <1>3, RaiseKeeps DEF Raise
<1>4. ASSUME \A t \in sure : last > t PROVE FALSE
  <2> HIDE DEF n
  <2>1. top \in Nat /\ F.top \in Nat
    BY <1>1, Here, Scripted
  <2>2. CASE I.B = 0
    BY <1>2, <1>4, <2>1, <2>2
  <2>3. CASE I.B # 0
    BY <1>2, <1>4, <2>1, <2>3
  <2>4. QED
    BY <2>2, <2>3
<1>5. CASE /\ ~full
           /\ stk' = CopiedUp(F.fun + 1 + P.nargs, R(I.A), n)
           /\ top' = IF I.B = 0 THEN R(I.A) + n ELSE top
           /\ Advance(0) /\ cells' = cells /\ heap' = heap /\ status' = status
  <2>1. I.B \in Nat /\ F.pc \in Nat
    BY <1>1, Scripted, Here
  <2> HIDE DEF n
  <2>2. StackOK(stk, Len(cells), heap) /\ HeapOK(heap, Len(cells))
    BY <1>1 DEF IInv
  <2>3. StackOK(stk', Len(cells), heap)
    BY <1>2, <1>5, <2>2, CopiedUpOK
  <2>4. TopOK([F EXCEPT !.pc = F.pc + 1], top')
    <3>1. CASE I.B = 0
      <4>1. Waits(I) /\ top' = R(I.A) + n
        BY <1>1, <1>5, <3>1 DEF Waits
      <4>2. ~(top + n > StackSize) /\ R(I.A) + n <= top + n /\ top \in Nat /\ StackSize \in Nat
        BY <1>1, <1>2, <1>5, <3>1, Here
      <4>3. top' \in Nat /\ R(I.A) <= top' /\ top' <= StackSize
        BY <1>2, <4>1, <4>2
      <4>4. QED
        BY <1>1, <4>1, <4>3, TopLeft
    <3>2. CASE I.B # 0
      <4>1. ~Waits(I) /\ ~Takes(I) /\ I.i \notin {"RET", "TCALL", "JMP"}
        BY <1>1, <3>2 DEF Waits, Takes
      <4>2. F.pc + 1 \in Nat /\ Leads(P, F.pc + 1 + 1)
        BY <1>1, <4>1, LeadsOn
      <4>3. top' = top
        BY <1>5, <3>2
      <4>4. QED
        BY <1>1, <4>1, <4>2, <4>3, TopMoved
    <3>3. QED
      BY <3>1, <3>2
  <2>5. F.pc + 1 + 0 = F.pc + 1 /\ 0 \in Int /\ F.pc + 1 \in Nat
    BY <2>1
  <2>6. HeapOK(heap', Len(cells)) /\ Grows(heap, heap')
    BY <1>5, <2>2, SameHeapGrows
  <2>7. IInv'
    BY <1>1, <1>5, <2>3, <2>4, <2>5, <2>6, Goes
  <2>8. QED
    BY <1>1, <1>5, <2>7
<1>6. QED
  <2> HIDE DEF n
  <2>1. \/ full /\ Raise
        \/ \A t \in sure : last > t
        \/ /\ ~full
           /\ stk' = CopiedUp(F.fun + 1 + P.nargs, R(I.A), n)
           /\ top' = IF I.B = 0 THEN R(I.A) + n ELSE top
           /\ Advance(0) /\ cells' = cells /\ heap' = heap /\ status' = status
    BY DEF LoadExtra, n
  <2> HIDE DEF full, sure, last
  <2>2. QED
    BY <1>3, <1>4, <1>5, <2>1

LEMMA OfKind ==
  ASSUME NEW h, NEW n \in Nat, HeapOK(h, n), NEW o, ObjectOK(o, n, h)
  PROVE  /\ HeapOK(Append(h, o), n) /\ Grows(h, Append(h, o))
         /\ ValueOK(<<o.kind, Len(h) + 1>>, n, Append(h, o))
<1> DEFINE v == <<o.kind, Len(h) + 1>>
<1>1. v[1] = o.kind /\ v[2] = Len(h) + 1
  OBVIOUS
<1> HIDE DEF v
<1>2. ValueOK(v, n, Append(h, o))
  BY <1>1, HeapAdded
<1>3. QED
  BY <1>2, HeapAdded DEF v

LEMMA NewTupleKeeps ==
  ASSUME SoundFunctions(Prototypes), IInv, NewTuple
  PROVE  IInv'
<1> DEFINE n == IF I.C = 0 THEN top - R(I.B) ELSE I.C - 1
           o == [kind |-> "tup", seq |-> Slots(R(I.B), n)]
<1>1. status = "run" /\ F.falo /\ I.i = "NEWA"
  BY RunningFacts DEF NewTuple
<1>2. /\ heap' = Append(heap, o) /\ Put(I.A, <<"tup", Len(heap) + 1>>) /\ top' = F.top /\ Advance(0)
  BY DEF NewTuple
<1>3. I.B \in Nat /\ I.C \in Nat /\ OperandsSound(P, I) /\ RangesSound(P, I)
  BY <1>1, Scripted
<1>4. /\ F.base \in Nat /\ top \in Nat /\ top <= StackSize /\ Len(cells) \in Nat
      /\ P.nstack \in Nat /\ F.base + P.nstack <= StackSize /\ StackSize \in Nat
  <2>1. /\ F.base \in Nat /\ top \in Nat /\ top <= StackSize /\ StackSize \in Nat /\ Len(cells) \in Nat
    BY <1>1, Here
  <2>2. P.nstack \in Nat /\ F.top = F.base + P.nstack /\ F.top <= StackSize
    BY <1>1, Scripted
  <2>3. QED
    BY <2>1, <2>2
<1>5. n \in Nat /\ R(I.B) \in Nat /\ R(I.B) + n <= StackSize + 1
  <2>1. CASE I.C = 0
    <3>1. Takes(I) /\ Least(I) = I.B
      BY <1>1, <2>1 DEF Takes, Least
    <3>2. F.base + I.B <= top
      BY <1>1, <3>1 DEF IInv, TopOK, P, I
    <3>3. QED
      BY <1>3, <1>4, <2>1, <3>2 DEF R
  <2>2. CASE I.C # 0
    <3>1. I.B + I.C - 1 <= P.nstack
      BY <1>1, <1>3, <2>2 DEF RangesSound
    <3>2. n = I.C - 1 /\ I.B + n <= P.nstack /\ n \in Nat
      BY <1>3, <1>4, <2>2, <3>1
    <3>3. R(I.B) = F.base + I.B
      BY DEF R
    <3> HIDE DEF n
    <3>4. F.base \in Nat /\ I.B \in Nat /\ P.nstack \in Nat /\ StackSize \in Nat /\ F.base + P.nstack <= StackSize
      BY <1>3, <1>4
    <3>5. n \in Nat /\ I.B + n <= P.nstack
      BY <3>2
    <3>6. F.base + I.B \in Nat
      BY <3>4
    <3>7. F.base + I.B + n <= StackSize + 1
      BY <3>4, <3>5, InFrame
    <3>8. QED
      BY <3>3, <3>5, <3>6, <3>7
  <2>3. QED
    BY <2>1, <2>2
<1>6. StackOK(stk, Len(cells), heap) /\ HeapOK(heap, Len(cells))
  BY <1>1 DEF IInv
<1> HIDE DEF n
<1>7. IsSeq(Slots(R(I.B), n)) /\ ValuesOK(Slots(R(I.B), n), Len(cells), heap)
  BY <1>5, <1>6, Sliced
<1>8. ObjectOK(o, Len(cells), heap) /\ o.kind = "tup"
  BY <1>7 DEF ObjectOK
<1> HIDE DEF o
<1>9. /\ HeapOK(heap', Len(cells)) /\ Grows(heap, heap')
      /\ ValueOK(<<"tup", Len(heap) + 1>>, Len(cells), heap')
  BY <1>2, <1>4, <1>6, <1>8, OfKind
<1>10. ~Waits(I) /\ I.i \notin {"RET", "TCALL", "JMP"} /\ Place(P, I.A)
  BY <1>1, <1>3 DEF Waits, OperandsSound, Objects
<1>11. QED
  BY <1>1, <1>2, <1>9, <1>10, PutStep

LEMMA NewObjectKeeps ==
  ASSUME SoundFunctions(Prototypes), IInv, NewObject
  PROVE  IInv'
<1> DEFINE o == Object(I.i)
<1>1. status = "run" /\ F.falo /\ I.i \in {"NEWM", "NEWL"}
  BY RunningFacts DEF NewObject
<1>2. heap' = Append(heap, o) /\ Put(I.A, <<o.kind, Len(heap) + 1>>) /\ top' \in {top, F.top} /\ Advance(0)
  BY DEF NewObject, Collected
<1>3. OperandsSound(P, I) /\ Len(cells) \in Nat
  BY <1>1, Scripted, Here
<1>4. HeapOK(heap, Len(cells))
  BY <1>1 DEF IInv
<1>5. ObjectOK(o, Len(cells), heap)
  <2>1. CASE I.i = "NEWM"
    <3>1. o = [kind |-> "tab", map |-> <<>>]
      BY <2>1 DEF Object
    <3>2. DOMAIN <<>> = {} /\ IsFiniteSet({})
      BY FS_EmptySet
    <3>3. o.kind = "tab" /\ o.map = <<>>
      BY <3>1
    <3> HIDE DEF o
    <3>4. QED
      BY <3>1, <3>2, <3>3 DEF ObjectOK
  <2>2. CASE I.i # "NEWM"
    <3>1. o = [kind |-> "lis", seq |-> <<>>]
      BY <2>2 DEF Object
    <3>2. <<>> \in Seq({}) /\ DOMAIN <<>> = {}
      OBVIOUS
    <3>3. o.kind = "lis" /\ o.seq = <<>>
      BY <3>1
    <3> HIDE DEF o
    <3>4. QED
      BY <3>1, <3>2, <3>3 DEF ObjectOK, IsSeq, ValuesOK
  <2>3. QED
    BY <2>1, <2>2
<1> HIDE DEF o
<1>6. /\ HeapOK(heap', Len(cells)) /\ Grows(heap, heap')
      /\ ValueOK(<<o.kind, Len(heap) + 1>>, Len(cells), heap')
  BY <1>2, <1>3, <1>4, <1>5, OfKind
<1>7. ~Waits(I) /\ ~Takes(I) /\ I.i \notin {"RET", "TCALL", "JMP"} /\ Place(P, I.A)
  BY <1>1, <1>3 DEF Waits, Takes, OperandsSound, Objects
<1>8. QED
  BY <1>1, <1>2, <1>6, <1>7, PutStep

(* The heap with an entry more or less, with an element changed or added.  *)
LEMMA MapChanged ==
  ASSUME NEW n \in Nat, HeapOK(heap, n), NEW id \in DOMAIN heap, heap[id].kind = "tab",
         NEW map, IsFiniteSet(DOMAIN map),
         \A k \in DOMAIN map : ValueOK(k, n, heap) /\ ValueOK(map[k], n, heap)
  PROVE  HeapOK([heap EXCEPT ![id].map = map], n) /\ Grows(heap, [heap EXCEPT ![id].map = map])
<1> DEFINE o == [heap[id] EXCEPT !.map = map]
<1>1. o = [kind |-> "tab", map |-> map]
  BY DEF HeapOK, ObjectOK
<1>2. o.kind = heap[id].kind /\ ObjectOK(o, n, heap)
  BY <1>1 DEF ObjectOK
<1> HIDE DEF o
<1>3. HeapOK([heap EXCEPT ![id] = o], n) /\ Grows(heap, [heap EXCEPT ![id] = o])
  BY <1>2, HeapChanged
<1>4. QED
  BY <1>3 DEF o

LEMMA SeqChanged ==
  ASSUME NEW n \in Nat, HeapOK(heap, n), NEW id \in DOMAIN heap, heap[id].kind = "lis",
         NEW seq, IsSeq(seq), ValuesOK(seq, n, heap)
  PROVE  HeapOK([heap EXCEPT ![id].seq = seq], n) /\ Grows(heap, [heap EXCEPT ![id].seq = seq])
<1> DEFINE o == [heap[id] EXCEPT !.seq = seq]
<1>1. o = [kind |-> "lis", seq |-> seq]
  BY DEF HeapOK, ObjectOK
<1>2. o.kind = heap[id].kind /\ ObjectOK(o, n, heap)
  BY <1>1 DEF ObjectOK
<1> HIDE DEF o
<1>3. HeapOK([heap EXCEPT ![id] = o], n) /\ Grows(heap, [heap EXCEPT ![id] = o])
  BY <1>2, HeapChanged
<1>4. QED
  BY <1>3 DEF o

LEMMA SetAtOK ==
  ASSUME NEW n \in Nat, HeapOK(heap, n), NEW t, ValueOK(t, n, heap), NEW k, ValueOK(k, n, heap),
         NEW v, ValueOK(v, n, heap), Settable(t, k)
  PROVE  HeapOK(SetAt(t, k, v), n) /\ Grows(heap, SetAt(t, k, v))
<1>1. CASE t[1] = "tab"
  <2> DEFINE old == heap[t[2]].map
             map == WithEntry(old, k, v)
  <2>1. t[2] \in DOMAIN heap /\ heap[t[2]].kind = "tab"
    BY <1>1 DEF ValueOK
  <2>2. IsFiniteSet(DOMAIN old) /\ \A j \in DOMAIN old : ValueOK(j, n, heap) /\ ValueOK(old[j], n, heap)
    BY <2>1 DEF HeapOK, ObjectOK
  <2> HIDE DEF old
  <2>3. DOMAIN map = DOMAIN old \cup {k} /\ \A j \in DOMAIN map : map[j] = IF j = k THEN v ELSE old[j]
    BY DEF WithEntry
  <2> HIDE DEF map
  <2>4. IsFiniteSet(DOMAIN map)
    BY <2>2, <2>3, FS_AddElement
  <2>5. \A j \in DOMAIN map : ValueOK(j, n, heap) /\ ValueOK(map[j], n, heap)
    BY <2>2, <2>3
  <2>6. SetAt(t, k, v) = [heap EXCEPT ![t[2]].map = map]
    BY <1>1 DEF SetAt, map, old
  <2> DEFINE id == t[2]
  <2>7. id \in DOMAIN heap /\ heap[id].kind = "tab"
    BY <2>1
  <2> HIDE DEF id
  <2>8. HeapOK([heap EXCEPT ![id].map = map], n) /\ Grows(heap, [heap EXCEPT ![id].map = map])
    BY <2>4, <2>5, <2>7, MapChanged
  <2>9. QED
    BY <2>6, <2>8 DEF id
<1>2. CASE t[1] # "tab"
  <2> DEFINE s == Elements(t)
             i == Wrap(k[2], Len(s))
             seq == IF i = Len(s) THEN Append(s, v) ELSE [s EXCEPT ![i + 1] = v]
  <2>1. t[1] = "lis"
    BY <1>2 DEF Settable
  <2>2. t[2] \in DOMAIN heap /\ heap[t[2]].kind = "lis"
    BY <2>1 DEF ValueOK
  <2>3. IsSeq(s) /\ ValuesOK(s, n, heap)
    BY <2>1, ElementsOK
  <2>4. SetAt(t, k, v) = [heap EXCEPT ![t[2]].seq = seq]
    BY <1>2 DEF SetAt, Elements
  <2> HIDE DEF s
  <2>5. Len(s) \in Nat /\ DOMAIN s = 1 .. Len(s)
    BY <2>3, SeqFacts
  <2>6. CASE i = Len(s)
    <3>1. seq = Append(s, v)
      BY <2>6
    <3>2. /\ IsSeq(seq) /\ DOMAIN seq = 1 .. Len(s) + 1
          /\ \A j \in 1 .. Len(s) : seq[j] = s[j]
          /\ seq[Len(s) + 1] = v
      BY <2>3, <3>1, AppendFacts
    <3> HIDE DEF seq
    <3>3. \A j \in DOMAIN seq : j \in DOMAIN s \/ j = Len(s) + 1
      BY <2>5, <3>2
    <3>4. ValuesOK(seq, n, heap)
      BY <2>3, <2>5, <3>2, <3>3 DEF ValuesOK
    <3> DEFINE id == t[2]
    <3>5. id \in DOMAIN heap /\ heap[id].kind = "lis"
      BY <2>2
    <3> HIDE DEF id
    <3>6. HeapOK([heap EXCEPT ![id].seq = seq], n) /\ Grows(heap, [heap EXCEPT ![id].seq = seq])
      BY <3>2, <3>4, <3>5, SeqChanged
    <3>7. QED
      BY <2>4, <3>6 DEF id
  <2>7. CASE i # Len(s)
    <3>1. seq = [s EXCEPT ![i + 1] = v]
      BY <2>7
    <3>2. /\ IsSeq(seq) /\ DOMAIN seq = 1 .. Len(s)
          /\ \A j \in 1 .. Len(s) : seq[j] = IF j = i + 1 THEN v ELSE s[j]
      <4> HIDE DEF i, seq
      <4>1. QED
        BY <2>3, <3>1, ExceptFacts
    <3> HIDE DEF seq
    <3>3. ValuesOK(seq, n, heap)
      BY <2>3, <2>5, <3>2 DEF ValuesOK
    <3> DEFINE id == t[2]
    <3>4. id \in DOMAIN heap /\ heap[id].kind = "lis"
      BY <2>2
    <3> HIDE DEF id
    <3>5. HeapOK([heap EXCEPT ![id].seq = seq], n) /\ Grows(heap, [heap EXCEPT ![id].seq = seq])
      BY <3>2, <3>3, <3>4, SeqChanged
    <3>6. QED
      BY <2>4, <3>5 DEF id
  <2>8. QED
    BY <2>6, <2>7
<1>3. QED
  BY <1>1, <1>2

LEMMA SetItemKeeps ==
  ASSUME SoundFunctions(Prototypes), IInv, SetItem
  PROVE  IInv'
<1> DEFINE t == S(I.A)
           k == X(I.xB, I.B)
           v == X(I.xC, I.C)
<1>1. status = "run" /\ F.falo /\ I.i = "SET"
  BY RunningFacts DEF SetItem
<1>2. CASE ~Settable(t, k)
  BY <1>2, RaiseKeeps DEF SetItem
<1>3. CASE Settable(t, k)
  <2>1. heap' = SetAt(t, k, v) /\ Advance(0) /\ stk' = stk /\ top' = top /\ cells' = cells
    BY <1>3 DEF SetItem
  <2>2. I.A \in Nat /\ I.B \in Nat /\ I.C \in Nat /\ OperandsSound(P, I) /\ Len(cells) \in Nat
    BY <1>1, Scripted, Here
  <2>3. Place(P, I.A) /\ Operand(P, I.xB, I.B) /\ Operand(P, I.xC, I.C)
    BY <1>1, <2>2 DEF OperandsSound, Changes
  <2>4. ValueOK(t, Len(cells), heap) /\ ValueOK(k, Len(cells), heap) /\ ValueOK(v, Len(cells), heap)
    BY <1>1, <2>2, <2>3, PlaceOK, OperandOK
  <2>5. HeapOK(heap, Len(cells)) /\ StackOK(stk, Len(cells), heap)
    BY <1>1 DEF IInv
  <2> HIDE DEF t, k, v
  <2>6. HeapOK(heap', Len(cells)) /\ Grows(heap, heap')
    BY <1>3, <2>1, <2>2, <2>4, <2>5, SetAtOK
  <2>7. ~Waits(I) /\ ~Takes(I) /\ I.i \notin {"RET", "TCALL", "JMP"}
    BY <1>1 DEF Waits, Takes
  <2>8. F.pc + 1 \in Nat /\ Leads(P, F.pc + 1 + 1)
    BY <1>1, <2>7, LeadsOn
  <2>9. TopOK([F EXCEPT !.pc = F.pc + 1], top')
    BY <1>1, <2>1, <2>7, <2>8, TopMoved
  <2>10. F.pc + 1 + 0 = F.pc + 1 /\ 0 \in Int
    BY <2>8
  <2>11. QED
    BY <1>1, <2>1, <2>5, <2>6, <2>8, <2>9, <2>10, Goes
<1>4. QED
  BY <1>2, <1>3

LEMMA TopLow ==
  ASSUME SoundFunctions(Prototypes), IInv, status = "run", F.falo, HasConcat(P),
         NEW q \in Nat, Leads(P, q + 1), NEW t \in Nat, F.base <= t, t <= StackSize
  PROVE  TopOK([F EXCEPT !.pc = q], t)
<1> DEFINE g == [F EXCEPT !.pc = q]
<1>1. FrameOK(F, Len(cells))
  BY Here
<1>2. g.pc = q /\ g.falo = F.falo /\ g.proto = F.proto /\ g.base = F.base /\ g.top = F.top
  BY ZenonT(40), <1>1, FrameMoved
<1> HIDE DEF g
<1>3. q + 1 \in DOMAIN P.code /\ ~Takes(P.code[q + 1])
  BY DEF Leads
<1>4. QED
  BY <1>2, <1>3 DEF TopOK, P, g

LEMMA RemoveFromOK ==
  ASSUME NEW n \in Nat, HeapOK(heap, n), NEW t, ValueOK(t, n, heap), t[1] \in {"tab", "lis"}, NEW k
  PROVE  HeapOK(RemoveFrom(t, k), n) /\ Grows(heap, RemoveFrom(t, k))
<1> DEFINE id == t[2]
<1>1. id \in DOMAIN heap /\ heap[id].kind = t[1]
  BY DEF ValueOK
<1>2. CASE t[1] = "tab"
  <2> DEFINE old == heap[id].map
             map == [j \in DOMAIN old \ {k} |-> old[j]]
  <2>1. IsFiniteSet(DOMAIN old) /\ \A j \in DOMAIN old : ValueOK(j, n, heap) /\ ValueOK(old[j], n, heap)
    BY <1>1, <1>2 DEF HeapOK, ObjectOK
  <2>2. RemoveFrom(t, k) = [heap EXCEPT ![id].map = map]
    BY <1>2 DEF RemoveFrom
  <2> HIDE DEF id, old
  <2>3. DOMAIN map = DOMAIN old \ {k} /\ \A j \in DOMAIN map : map[j] = old[j]
    OBVIOUS
  <2> HIDE DEF map
  <2>4. IsFiniteSet(DOMAIN map)
    BY <2>1, <2>3, FS_RemoveElement
  <2>5. \A j \in DOMAIN map : ValueOK(j, n, heap) /\ ValueOK(map[j], n, heap)
    BY <2>1, <2>3
  <2>6. HeapOK([heap EXCEPT ![id].map = map], n) /\ Grows(heap, [heap EXCEPT ![id].map = map])
    BY <1>1, <1>2, <2>4, <2>5, MapChanged
  <2>7. QED
    BY <2>2, <2>6
<1>3. CASE t[1] = "lis" /\ Within(k, Elements(t), Len(Elements(t)))
  <2> DEFINE s == heap[id].seq
             at == Wrap(k[2], Len(s)) + 1
             seq == RemoveAt(s, at)
  <2>1. IsSeq(s) /\ ValuesOK(s, n, heap)
    BY <1>1, <1>3 DEF HeapOK, ObjectOK
  <2>2. RemoveFrom(t, k) = [heap EXCEPT ![id].seq = seq]
    BY <1>3 DEF RemoveFrom
  <2>3. Wrap(k[2], Len(s)) \in 0 .. Len(s) - 1
    BY <1>3 DEF Within, Elements
  <2> HIDE DEF id, s
  <2>4. Len(s) \in Nat
    BY <2>1, SeqFacts
  <2>5. at \in 1 .. Len(s)
    BY <2>3, <2>4
  <2> HIDE DEF at
  <2>6. IsSeq(seq) /\ \A i \in DOMAIN seq : \E j \in DOMAIN s : seq[i] = s[j]
    BY <2>1, <2>5, RemoveFacts
  <2> HIDE DEF seq
  <2>7. ValuesOK(seq, n, heap)
    BY <2>1, <2>6 DEF ValuesOK
  <2>8. HeapOK([heap EXCEPT ![id].seq = seq], n) /\ Grows(heap, [heap EXCEPT ![id].seq = seq])
    BY <1>1, <1>3, <2>6, <2>7, SeqChanged
  <2>9. QED
    BY <2>2, <2>8
<1>4. CASE t[1] = "lis" /\ ~Within(k, Elements(t), Len(Elements(t)))
  BY <1>4, SameHeapGrows DEF RemoveFrom
<1>5. QED
  BY <1>2, <1>3, <1>4

LEMMA RemoveItemKeeps ==
  ASSUME SoundFunctions(Prototypes), IInv, RemoveItem
  PROVE  IInv'
<1> DEFINE t == X(I.xB, I.B)
           k == X(I.xC, I.C)
           pastEnd == t[1] = "lis" /\ k = IntV(Len(Elements(t)))
<1>1. status = "run" /\ F.falo /\ I.i = "REM"
  BY RunningFacts DEF RemoveItem
<1>2. CASE t[1] \notin {"tab", "lis"}
  BY <1>2, RaiseKeeps DEF RemoveItem
<1>3. CASE t[1] \in {"tab", "lis"} /\ pastEnd
  <2>1. status' = "aborted"
    BY <1>3 DEF RemoveItem
  <2>2. QED
    BY <2>1 DEF IInv
<1>4. CASE t[1] \in {"tab", "lis"} /\ ~pastEnd
  <2>1. heap' = RemoveFrom(t, k) /\ Put(I.A, Get(t, k)) /\ Advance(0) /\ top' = top
    BY <1>4 DEF RemoveItem
  <2>2. I.A \in Nat /\ I.B \in Nat /\ OperandsSound(P, I) /\ Len(cells) \in Nat
    BY <1>1, Scripted, Here
  <2>3. Place(P, I.A) /\ Operand(P, I.xB, I.B)
    BY <1>1, <2>2 DEF OperandsSound, Changes
  <2>4. ValueOK(t, Len(cells), heap)
    BY <1>1, <2>2, <2>3, OperandOK
  <2>5. HeapOK(heap, Len(cells))
    BY <1>1 DEF IInv
  <2>6. t[1] \in {"tab", "lis"}
    BY <1>4
  <2> HIDE DEF t, k, pastEnd
  <2>7. HeapOK(heap', Len(cells)) /\ Grows(heap, heap')
    BY <2>1, <2>2, <2>4, <2>5, <2>6, RemoveFromOK
  <2>8. ValueOK(Get(t, k), Len(cells), heap)
    BY <2>4, <2>5, GetOK
  <2>9. ValueOK(Get(t, k), Len(cells), heap')
    <3>1. Len(cells) <= Len(cells)
      BY <2>2
    <3>2. QED
      BY <2>2, <2>7, <2>8, <3>1, ValueKept
  <2>10. ~Waits(I) /\ ~Takes(I) /\ I.i \notin {"RET", "TCALL", "JMP"}
    BY <1>1 DEF Waits, Takes
  <2>11. QED
    BY <1>1, <2>1, <2>3, <2>7, <2>9, <2>10, PutStep
<1>5. QED
  BY <1>2, <1>3, <1>4

LEMMA SpreadKeeps ==
  ASSUME SoundFunctions(Prototypes), IInv, Spread
  PROVE  IInv'
<1> DEFINE v == X(I.xB, I.B)
           all == I.C = 0
           vs == Elements(v)
           n == IF all THEN Len(vs) ELSE I.C - 1
           fits == v[1] = "tup" /\ (all \/ Len(vs) = n)
           bad == (v[1] # "tup" /\ I.xC = 0) \/ (v[1] = "tup" /\ all /\ R(I.A) + n > StackSize)
           k == Bit(I.xC = 1 /\ fits)
<1>1. status = "run" /\ F.falo /\ I.i = "UNBOX"
  BY RunningFacts DEF Spread
<1>2. CASE bad
  BY <1>2, RaiseKeeps DEF Spread
<1>3. CASE ~bad
  <2>1. /\ stk' = IF I.xC = 1 /\ ~fits THEN stk ELSE Fill(stk, R(I.A), Adjust(vs, n))
        /\ top' = IF v[1] = "tup" /\ all THEN R(I.A) + n ELSE top
        /\ Advance(k) /\ cells' = cells /\ heap' = heap
    BY <1>3 DEF Spread
  <2>2. /\ I.A \in Nat /\ I.B \in Nat /\ I.C \in Nat /\ I.xC \in {0, 1} /\ Operand(P, I.xB, I.B)
        /\ I.xC = 1 => I.C > 0 /\ Leads(P, F.pc + 1 + 2)
    <3>1. I.A \in Nat /\ I.B \in Nat /\ I.C \in Nat /\ OperandsSound(P, I)
      BY <1>1, Scripted
    <3>2. WaysSound(P, F.pc + 1)
      BY <1>1, Scripted
    <3>3. I.xC = 1 => I.C > 0 /\ Leads(P, F.pc + 1 + 2)
      BY <1>1, <3>2 DEF WaysSound, I
    <3>4. QED
      BY <1>1, <3>1, <3>3 DEF OperandsSound
  <2>3. F.base \in Nat /\ F.pc \in Nat
    BY <1>1, Here
  <2>4. ValueOK(v, Len(cells), heap) /\ HeapOK(heap, Len(cells)) /\ StackOK(stk, Len(cells), heap)
    BY <1>1, <2>2, OperandOK DEF IInv
  <2>5. v[1] = "tup" => IsSeq(vs) /\ ValuesOK(vs, Len(cells), heap)
    BY <2>4, ElementsOK
  <2>6. v[1] # "tup" => I.xC = 1 /\ ~fits /\ ~all
    BY <1>3, <2>2
  <2>7. v[1] = "tup" => n \in Nat
    BY <2>2, <2>5, SeqFacts
  <2>8. R(I.A) \in Nat
    BY <2>2, <2>3 DEF R
  <2>9. StackOK(stk', Len(cells), heap)
    <3>1. CASE I.xC = 1 /\ ~fits
      BY <2>1, <2>4, <3>1
    <3>2. CASE ~(I.xC = 1 /\ ~fits)
      <4>1. IsSeq(vs) /\ ValuesOK(vs, Len(cells), heap) /\ n \in Nat
        BY <2>5, <2>6, <2>7, <3>2
      <4>2. stk' = Fill(stk, R(I.A), Adjust(vs, n))
        BY <2>1, <3>2
      <4> HIDE DEF n, vs
      <4>3. IsSeq(Adjust(vs, n)) /\ ValuesOK(Adjust(vs, n), Len(cells), heap)
        BY <4>1, Adjusted
      <4>4. QED
        BY <2>4, <2>8, <4>2, <4>3, Filled
    <3>3. QED
      BY <3>1, <3>2
  <2>10. TopOK([F EXCEPT !.pc = F.pc + 1 + k], top') /\ k \in Int /\ F.pc + 1 + k \in Nat
    <3>1. CASE all
      <4>1. v[1] = "tup" /\ I.xC # 1
        BY <2>2, <2>6, <3>1
      <4>2. top' = R(I.A) + n /\ ~(R(I.A) + n > StackSize) /\ n \in Nat
        BY <1>3, <2>1, <2>7, <3>1, <4>1
      <4>3. top' \in Nat /\ R(I.A) <= top' /\ top' <= StackSize
        <5> HIDE DEF n
        <5>1. QED
          BY <2>8, <4>2, StackAssumption
      <4>4. k = 0 /\ Waits(I)
        BY <1>1, <3>1, <4>1 DEF Waits, Bit
      <4> HIDE DEF k
      <4>5. TopOK([F EXCEPT !.pc = F.pc + 1], top')
        BY <1>1, <4>3, <4>4, TopLeft
      <4>6. F.pc + 1 + k = F.pc + 1
        BY <2>3, <4>4
      <4>7. QED
        BY <2>3, <4>4, <4>5, <4>6
    <3>2. CASE ~all
      <4>1. top' = top /\ ~Waits(I) /\ ~Takes(I) /\ I.i \notin {"RET", "TCALL", "JMP"}
        BY <1>1, <2>1, <3>2 DEF Waits, Takes
      <4>2. F.pc + 1 \in Nat /\ Leads(P, F.pc + 1 + 1)
        BY <1>1, <4>1, LeadsOn
      <4>3. k = 0 \/ (k = 1 /\ I.xC = 1)
        BY DEF Bit
      <4> HIDE DEF k
      <4>4. k \in Int /\ F.pc + 1 + k \in Nat
        BY <2>3, <4>3
      <4>5. Leads(P, F.pc + 1 + k + 1)
        <5>1. k = 0 => F.pc + 1 + k + 1 = F.pc + 1 + 1
          BY <2>3
        <5>2. k = 1 => F.pc + 1 + k + 1 = F.pc + 1 + 2
          BY <2>3
        <5>3. QED
          BY <2>2, <4>2, <4>3, <5>1, <5>2
      <4>6. TopOK([F EXCEPT !.pc = F.pc + 1 + k], top')
        BY <1>1, <4>1, <4>4, <4>5, TopMoved
      <4>7. QED
        BY <4>4, <4>6
    <3>3. QED
      BY <3>1, <3>2
  <2>11. HeapOK(heap', Len(cells)) /\ Grows(heap, heap')
    BY <2>1, <2>4, SameHeapGrows
  <2> HIDE DEF k
  <2>12. QED
    BY <1>1, <2>1, <2>9, <2>10, <2>11, Goes
<1>4. QED
  BY <1>2, <1>3

LEMMA ConcatKeeps ==
  ASSUME SoundFunctions(Prototypes), IInv, Concat
  PROVE  IInv'
<1> DEFINE n == IF I.C = 0 THEN top - R(I.B) ELSE I.C + 1
           v == <<"str", Texts(Slots(R(I.B), n))>>
<1>1. status = "run" /\ F.falo /\ I.i = "CAT"
  BY RunningFacts DEF Concat
<1>2. /\ stk' = [stk EXCEPT ![R(I.B)] = v] /\ top' \in {R(I.B) + 1, F.top} /\ Advance(0)
      /\ cells' = cells /\ heap' = heap
  BY DEF Concat, Collected
<1>3. I.B \in Nat /\ I.C \in Nat /\ I.B + I.C < P.nstack /\ F.pc + 1 \in DOMAIN P.code
  <2>1. I.B \in Nat /\ I.C \in Nat /\ RangesSound(P, I) /\ F.pc + 1 \in DOMAIN P.code
    BY <1>1, Scripted
  <2>2. QED
    BY <1>1, <2>1 DEF RangesSound
<1>4. /\ F.base \in Nat /\ F.pc \in Nat /\ P.nstack \in Nat /\ F.base + P.nstack <= StackSize /\ StackSize \in Nat
  <2>1. /\ F.base \in Nat /\ F.pc \in Nat /\ StackSize \in Nat
    BY <1>1, Here
  <2>2. P.nstack \in Nat /\ F.top = F.base + P.nstack /\ F.top <= StackSize
    BY <1>1, Scripted
  <2>3. QED
    BY <2>1, <2>2
<1>5. R(I.B) \in Nat /\ R(I.B) + 1 \in Nat /\ F.base <= R(I.B) + 1 /\ R(I.B) + 1 <= StackSize
  <2>1. R(I.B) = F.base + I.B
    BY DEF R
  <2>2. I.B + 1 <= P.nstack
    BY <1>3, <1>4
  <2>3. QED
    BY <1>3, <1>4, <2>1, <2>2
<1>6. StackOK(stk, Len(cells), heap) /\ HeapOK(heap, Len(cells))
  BY <1>1 DEF IInv
<1>7. v[1] = "str"
  OBVIOUS
<1> HIDE DEF v
<1>8. ValueOK(v, Len(cells), heap)
  BY <1>7, PlainOK
<1>9. StackOK(stk', Len(cells), heap)
  BY <1>2, <1>6, <1>8, StackSet
<1>10. HasConcat(P)
  BY <1>1, <1>3 DEF HasConcat, I
<1>11. ~Waits(I) /\ I.i \notin {"RET", "TCALL", "JMP"}
  BY <1>1 DEF Waits
<1>12. F.pc + 1 \in Nat /\ Leads(P, F.pc + 1 + 1)
  BY <1>1, <1>11, LeadsOn
<1>13. TopOK([F EXCEPT !.pc = F.pc + 1], top')
  <2>1. F.top \in Nat /\ F.base <= F.top /\ F.top <= StackSize
    <3>1. F.top \in Nat /\ F.top = F.base + P.nstack /\ F.top <= StackSize
      BY <1>1, Scripted
    <3>2. QED
      BY <1>4, <3>1
  <2>2. top' \in Nat /\ F.base <= top' /\ top' <= StackSize
    BY <1>2, <1>5, <2>1
  <2>3. QED
    BY <1>1, <1>10, <1>12, <2>2, TopLow
<1>14. F.pc + 1 + 0 = F.pc + 1 /\ 0 \in Int
  BY <1>4
<1>15. HeapOK(heap', Len(cells)) /\ Grows(heap, heap')
  BY <1>2, <1>6, SameHeapGrows
<1>16. QED
  BY <1>1, <1>2, <1>9, <1>12, <1>13, <1>14, <1>15, Goes

LEMMA NewIteratorKeeps ==
  ASSUME SoundFunctions(Prototypes), IInv, NewIterator
  PROVE  IInv'
<1> DEFINE v == stk[R(I.B)]
           o == [kind |-> "iter", in |-> v, off |-> -1]
<1>1. status = "run" /\ F.falo /\ I.i = "ITR"
  BY RunningFacts DEF NewIterator
<1>2. OperandsSound(P, I) /\ Len(cells) \in Nat
  BY <1>1, Scripted, Here
<1>3. Place(P, I.A) /\ Register(P, I.B)
  BY <1>1, <1>2 DEF OperandsSound, Objects
<1>4. StackOK(stk, Len(cells), heap) /\ HeapOK(heap, Len(cells))
  BY <1>1 DEF IInv
<1>5. ValueOK(v, Len(cells), heap)
  <2>1. R(I.B) \in 0 .. StackSize
    BY <1>1, <1>3, RegisterIn
  <2>2. QED
    BY <1>4, <2>1 DEF StackOK
<1>6. ~Waits(I) /\ ~Takes(I) /\ I.i \notin {"RET", "TCALL", "JMP"}
  BY <1>1 DEF Waits, Takes
<1>7. CASE Callable(v)
  <2>1. Put(I.A, v) /\ Advance(0) /\ top' = top /\ heap' = heap
    BY <1>7 DEF NewIterator
  <2>2. HeapOK(heap', Len(cells)) /\ Grows(heap, heap') /\ ValueOK(v, Len(cells), heap')
    BY <1>4, <1>5, <2>1, SameHeapGrows
  <2> HIDE DEF v
  <2>3. QED
    BY <1>1, <1>3, <1>6, <2>1, <2>2, PutStep
<1>8. CASE ~Callable(v) /\ IsCol(v)
  <2>1. heap' = Append(heap, o) /\ Put(I.A, <<"iter", Len(heap) + 1>>) /\ Advance(0) /\ top' = top
    BY <1>8 DEF NewIterator
  <2>2. o.kind = "iter" /\ o.in = v /\ o.off = -1 /\ o = [kind |-> "iter", in |-> o.in, off |-> o.off]
    OBVIOUS
  <2> HIDE DEF o, v
  <2>3. ObjectOK(o, Len(cells), heap)
    BY <1>5, <1>8, <2>2 DEF ObjectOK
  <2>4. /\ HeapOK(heap', Len(cells)) /\ Grows(heap, heap')
        /\ ValueOK(<<"iter", Len(heap) + 1>>, Len(cells), heap')
    BY <1>2, <1>4, <2>1, <2>2, <2>3, OfKind
  <2>5. QED
    BY <1>1, <1>3, <1>6, <2>1, <2>4, PutStep
<1>9. CASE ~Callable(v) /\ ~IsCol(v)
  BY <1>9, RaiseKeeps DEF NewIterator
<1>10. QED
  BY <1>7, <1>8, <1>9

------------------------------------------------------------------------------
(* Jumps, and the captures they close.                                     *)

LEMMA Closed ==
  ASSUME IInv, status = "run", NEW from \in Nat
  PROVE  LET cs == CloseFrom(cells, from)
         IN /\ CellsOK(cs, heap) /\ Len(cs) = Len(cells) /\ DOMAIN cs = DOMAIN cells
            /\ CapturesOK(frames, cs)
            /\ \A c \in DOMAIN cs : cs[c].at >= 0 => ~(cells[c].at >= from) /\ cs[c].at = cells[c].at
<1> DEFINE cs == CloseFrom(cells, from)
           n == Len(cells)
<1>1. CellsOK(cells, heap) /\ StackOK(stk, n, heap) /\ CapturesOK(frames, cells)
  BY DEF IInv
<1>2. n \in Nat /\ DOMAIN cells = 1 .. n
  BY Here
<1>3. cs = [c \in 1 .. n |-> cs[c]] /\ DOMAIN cs = 1 .. n
  BY <1>2 DEF CloseFrom
<1>4. \A c \in 1 .. n : cs[c] = IF cells[c].at >= from THEN [at |-> -1, v |-> stk[cells[c].at]] ELSE cells[c]
  BY <1>2 DEF CloseFrom
<1> HIDE DEF cs
<1>5. IsSeq(cs) /\ Len(cs) = n
  BY <1>2, <1>3, FunctionFacts
<1>6. \A c \in 1 .. n : CellOK(cells[c], n, heap)
  BY <1>1, <1>2 DEF CellsOK
<1>7. \A c \in 1 .. n : CellOK(cs[c], n, heap) /\ (cs[c].at >= 0 => ~(cells[c].at >= from) /\ cs[c].at = cells[c].at)
  <2> SUFFICES ASSUME NEW c \in 1 .. n
               PROVE  CellOK(cs[c], n, heap) /\ (cs[c].at >= 0 => ~(cells[c].at >= from) /\ cs[c].at = cells[c].at)
    OBVIOUS
  <2>1. CASE ~(cells[c].at >= from)
    <3>1. cs[c] = cells[c]
      BY <1>4, <2>1
    <3>2. QED
      BY <1>6, <2>1, <3>1
  <2>2. CASE cells[c].at >= from
    <3> DEFINE d == cs[c]
               v == stk[cells[c].at]
    <3>1. d = [at |-> -1, v |-> v]
      BY <1>4, <2>2
    <3>2. cells[c].at \in 0 .. StackSize
      <4>1. cells[c].at \in -1 .. StackSize /\ StackSize \in Nat
        BY <1>6, StackAssumption DEF CellOK
      <4> DEFINE at == cells[c].at
      <4>2. at >= from /\ at \in -1 .. StackSize
        BY <2>2, <4>1
      <4> HIDE DEF at
      <4>3. at \in 0 .. StackSize
        BY <4>1, <4>2
      <4>4. QED
        BY <4>3 DEF at
    <3>3. ValueOK(v, n, heap)
      BY <1>1, <3>2 DEF StackOK
    <3> HIDE DEF d, v
    <3>4. d.at = -1 /\ d.v = v /\ -1 \in -1 .. StackSize
      BY <3>1, StackAssumption
    <3>5. QED
      BY <3>1, <3>3, <3>4 DEF CellOK, d
  <2>3. QED
    BY <2>1, <2>2
<1>8. CellsOK(cs, heap)
  BY <1>3, <1>5, <1>7 DEF CellsOK
<1>9. CapturesOK(frames, cs)
  BY <1>1, <1>2, <1>3, <1>7 DEF CapturesOK
<1>10. QED
  BY <1>2, <1>3, <1>5, <1>7, <1>8, <1>9 DEF cs

LEMMA CellsShut ==
  ASSUME IInv, status = "run", NEW from \in Nat, cells' = CloseFrom(cells, from)
  PROVE  /\ CellsOK(cells', heap) /\ Len(cells') = Len(cells) /\ DOMAIN cells' = DOMAIN cells
         /\ CapturesOK(frames, cells')
         /\ \A c \in DOMAIN cells' : cells'[c].at >= 0 => ~(cells[c].at >= from) /\ cells'[c].at = cells[c].at
BY Closed

(* A step that moves the frame on and at most closes captures.             *)
LEMMA Jumps ==
  ASSUME SoundFunctions(Prototypes), IInv, status = "run", F.falo, ~Takes(I),
         NEW k \in Int, Advance(k), Leads(P, F.pc + 1 + k + 1),
         CellsOK(cells', heap), Len(cells') = Len(cells), CapturesOK(frames, cells'),
         stk' = stk, heap' = heap, top' = top
  PROVE  IInv'
<1>1. F.pc + 1 + k \in Nat
  <2>1. FunctionSound(P, Prototypes) /\ F.pc \in Nat
    BY Scripted, Here
  <2>2. F.pc + 1 + k + 1 \in 1 .. Len(P.code) /\ Len(P.code) \in Nat
    BY <2>1 DEF FunctionSound, Leads
  <2>3. QED
    BY <2>1, <2>2
<1>2. frames' = Moved(frames, F.pc + 1 + k)
  BY Advances
<1>3. TopOK([F EXCEPT !.pc = F.pc + 1 + k], top')
  BY <1>1, TopMoved
<1>4. Len(cells) <= Len(cells')
  BY Here
<1>5. HeapOK(heap', Len(cells')) /\ StackOK(stk', Len(cells'), heap') /\ CellsOK(cells', heap')
  BY DEF IInv
<1>6. QED
  BY <1>1, <1>2, <1>3, <1>4, <1>5, Continues

LEMMA JumpKeeps ==
  ASSUME SoundFunctions(Prototypes), IInv, Jump
  PROVE  IInv'
<1>1. status = "run" /\ F.falo /\ I.i = "JMP"
  BY RunningFacts DEF Jump
<1>2. /\ cells' = IF I.xA = 1 THEN CloseFrom(cells, R(I.A)) ELSE cells
      /\ Advance(I.B) /\ stk' = stk /\ heap' = heap /\ top' = top
  BY DEF Jump
<1>3. I.A \in Nat /\ I.B \in Int /\ F.base \in Nat /\ F.pc \in Nat /\ WaysSound(P, F.pc + 1)
  BY <1>1, Scripted, Here
<1>4. R(I.A) \in Nat
  BY <1>3 DEF R
<1>5. CellsOK(cells, heap) /\ CapturesOK(frames, cells)
  BY <1>1 DEF IInv
<1>6. CellsOK(cells', heap) /\ Len(cells') = Len(cells) /\ CapturesOK(frames, cells')
  <2>1. CASE I.xA = 1
    BY <1>1, <1>2, <1>4, <2>1, CellsShut
  <2>2. CASE I.xA # 1
    BY <1>2, <1>5, <2>2
  <2>3. QED
    BY <2>1, <2>2
<1>7. Leads(P, F.pc + 1 + 1 + I.B)
  BY <1>1, <1>3 DEF WaysSound, I
<1>8. F.pc + 1 + I.B + 1 = F.pc + 1 + 1 + I.B
  BY <1>3
<1>9. ~Takes(I)
  BY <1>1 DEF Takes
<1>10. QED
  BY <1>1, <1>2, <1>3, <1>6, <1>7, <1>8, <1>9, Jumps

LEMMA JumpIfKeeps ==
  ASSUME SoundFunctions(Prototypes), IInv, JumpIf
  PROVE  IInv'
<1> DEFINE k == IF Bit(ToBool(X(I.xA, I.A))) = I.xC THEN I.B ELSE 0
<1>1. status = "run" /\ F.falo /\ I.i = "JCZ"
  BY RunningFacts DEF JumpIf
<1>2. Advance(k) /\ stk' = stk /\ heap' = heap /\ top' = top /\ cells' = cells
  BY DEF JumpIf
<1>3. k \in {I.B, 0}
  OBVIOUS
<1> HIDE DEF k
<1>4. I.B \in Int /\ F.pc \in Nat /\ WaysSound(P, F.pc + 1)
  BY <1>1, Scripted, Here
<1>5. ~Takes(I) /\ ~Waits(I) /\ I.i \notin {"RET", "TCALL", "JMP"}
  BY <1>1 DEF Takes, Waits
<1>6. Leads(P, F.pc + 1 + k + 1)
  <2>1. Leads(P, F.pc + 1 + 1)
    BY <1>1, <1>5, LeadsOn
  <2>2. Leads(P, F.pc + 1 + 1 + I.B)
    BY <1>1, <1>4 DEF WaysSound, I
  <2>3. F.pc + 1 + I.B + 1 = F.pc + 1 + 1 + I.B /\ F.pc + 1 + 0 + 1 = F.pc + 1 + 1
    BY <1>4
  <2>4. QED
    BY <1>3, <2>1, <2>2, <2>3
<1>7. CellsOK(cells', heap) /\ Len(cells') = Len(cells) /\ CapturesOK(frames, cells')
  BY <1>1, <1>2 DEF IInv
<1>8. k \in Int
  BY <1>3, <1>4
<1>9. QED
  BY <1>1, <1>2, <1>5, <1>6, <1>7, <1>8, Jumps

LEMMA CompareJumpsKeeps ==
  ASSUME SoundFunctions(Prototypes), IInv, CompareJumps
  PROVE  IInv'
<1> DEFINE fails == I.i # "EQ" /\ ~Ordered(X(I.xA, I.A), X(I.xB, I.B))
<1>1. status = "run" /\ F.falo /\ I.i \in {"EQ", "LT", "LE"}
  BY RunningFacts DEF CompareJumps
<1>2. CASE fails
  BY <1>2, RaiseKeeps DEF CompareJumps
<1>3. CASE ~fails
  <2>1. PICK k \in {0, 1} : Advance(k) /\ stk' = stk /\ heap' = heap /\ top' = top /\ cells' = cells
    BY <1>3 DEF CompareJumps, Bit
  <2>2. F.pc \in Nat /\ WaysSound(P, F.pc + 1)
    BY <1>1, Scripted, Here
  <2>3. ~Takes(I) /\ ~Waits(I) /\ I.i \notin {"RET", "TCALL", "JMP"}
    BY <1>1 DEF Takes, Waits
  <2>4. Leads(P, F.pc + 1 + k + 1)
    <3>1. Leads(P, F.pc + 1 + 1)
      BY <1>1, <2>3, LeadsOn
    <3>2. Leads(P, F.pc + 1 + 2)
      BY <1>1, <2>2 DEF WaysSound, I, Compares
    <3>3. F.pc + 1 + 1 + 1 = F.pc + 1 + 2 /\ F.pc + 1 + 0 + 1 = F.pc + 1 + 1
      BY <2>2
    <3>4. QED
      BY <3>1, <3>2, <3>3
  <2>5. CellsOK(cells', heap) /\ Len(cells') = Len(cells) /\ CapturesOK(frames, cells')
    BY <1>1, <2>1 DEF IInv
  <2>6. k \in Int
    OBVIOUS
  <2>7. QED
    BY <1>1, <2>1, <2>3, <2>4, <2>5, <2>6, Jumps
<1>4. QED
  BY <1>2, <1>3

------------------------------------------------------------------------------
(* Closures: their captures are found, or opened in cells of their own.    *)

LEMMA WantedFacts ==
  ASSUME SoundFunctions(Prototypes), IInv, status = "run", F.falo,
         NEW p \in Prototypes, CapturesSound(P, p), p \in {P.children[k] : k \in DOMAIN P.children}
  PROVE  /\ IsFiniteSet(Wanted(p))
         /\ \A i \in Wanted(p) : i \in 0 .. StackSize /\ i - F.base \in Captured(P)
<1> DEFINE J == {k \in DOMAIN p.caps \ {1} : p.caps[k].instack}
<1>3. Wanted(p) = {R(p.caps[j].index) : j \in J}
  BY DEF Wanted
<1>4. \A j \in J : Register(P, p.caps[j].index)
  BY DEF CapturesSound
<1>5. \A j \in J : p.caps[j].index \in Captured(P)
  BY DEF Captured
<1> HIDE DEF J
<1>7. ASSUME NEW i \in Wanted(p) PROVE i \in 0 .. StackSize /\ i - F.base \in Captured(P)
  <2>1. PICK j \in J : i = R(p.caps[j].index)
    BY <1>3
  <2>2. i \in 0 .. StackSize
    BY <1>4, <2>1, RegisterIn
  <2> DEFINE r == p.caps[j].index
  <2>3. r \in Nat /\ F.base \in Nat
    BY <1>4, Scripted, Here DEF Register
  <2>4. i = F.base + r
    BY <2>1 DEF R
  <2> HIDE DEF r
  <2>5. i - F.base = r
    BY <2>3, <2>4
  <2>6. QED
    BY <1>5, <2>2, <2>5 DEF r
<1>8. IsFiniteSet(Wanted(p))
  <2>1. StackSize \in Int /\ 0 \in Int
    BY StackAssumption
  <2>2. IsFiniteSet(0 .. StackSize)
    BY <2>1, FS_Interval
  <2>3. Wanted(p) \subseteq 0 .. StackSize
    BY <1>7
  <2>4. QED
    BY <2>2, <2>3, FS_Subset
<1>9. QED
  BY <1>7, <1>8

LEMMA CellsWithFacts ==
  ASSUME SoundFunctions(Prototypes), IInv, status = "run", F.falo,
         NEW p \in Prototypes, CapturesSound(P, p), p \in {P.children[k] : k \in DOMAIN P.children}
  PROVE  LET cs == CellsWith(p)
         IN /\ CellsOK(cs, heap) /\ Len(cs) \in Nat /\ Len(cells) + 1 <= Len(cs)
            /\ DOMAIN cs = 1 .. Len(cs)
            /\ CapturesOK(frames, cs)
            /\ \A i \in Wanted(p) : OpenAt(cs, i) # {}
<1> DEFINE n == Len(cells)
           U == {i \in Wanted(p) : OpenAt(cells, i) = {}}
           u == Unopened(p)
           new == NewCells(p)
           e == [at |-> -1, v |-> S(Registry)]
           some == Append(cells, e)
           cs == CellsWith(p)
<1>1. /\ IsSeq(cells) /\ n \in Nat /\ DOMAIN cells = 1 .. n /\ CellsOK(cells, heap) /\ CapturesOK(frames, cells)
      /\ StackSize \in Nat
  BY Here DEF IInv, CellsOK
<1>2. IsFiniteSet(U) /\ \A i \in U : i \in 0 .. StackSize /\ i - F.base \in Captured(P)
  <2>1. IsFiniteSet(Wanted(p)) /\ U \subseteq Wanted(p)
    BY WantedFacts
  <2>2. QED
    BY <2>1, WantedFacts, FS_Subset
<1>3. /\ IsSeq(u) /\ \A i \in DOMAIN u : u[i] \in U
      /\ \A x \in U : \E i \in DOMAIN u : u[i] = x
      /\ \A i, j \in DOMAIN u : u[i] = u[j] => i = j
  <2>1. u = SetToSeq(U)
    BY DEF Unopened
  <2> HIDE DEF U, u
  <2>2. QED
    BY <1>2, <2>1, Enumeration
<1>4. new = [i \in DOMAIN u |-> [at |-> u[i], v |-> Nil]]
  BY DEF NewCells
<1>5. cs = some \o new
  BY DEF CellsWith
<1>6. \A i \in U : ~\E c \in DOMAIN cells : cells[c].at = i
  BY DEF OpenAt
<1>7. \A i \in Wanted(p) : i \in U \/ \E c \in DOMAIN cells : cells[c].at = i
  BY DEF OpenAt
<1> HIDE DEF U, u
<1>8. Len(u) \in Nat /\ DOMAIN u = 1 .. Len(u)
  BY <1>3, SeqFacts
<1> DEFINE m == Len(u)
<1>9. new = [i \in 1 .. m |-> new[i]] /\ \A i \in 1 .. m : new[i] = [at |-> u[i], v |-> Nil]
  BY <1>4, <1>8
<1> HIDE DEF new
<1>10. IsSeq(new) /\ Len(new) = m
  <2> HIDE DEF m
  <2>1. m \in Nat
    BY <1>8 DEF m
  <2>2. QED
    BY <1>9, <2>1, FunctionFacts
<1> HIDE DEF m
<1>11. ValueOK(S(Registry), n, heap)
  <2>1. Registry \in Nat /\ Registry - MaxStack = 0 /\ Len(P.caps) \in Nat \ {0}
    BY Scripted DEF Registry
  <2>2. 0 \in 0 .. Len(P.caps) - 1
    BY <2>1
  <2>3. Place(P, Registry)
    BY <2>1, <2>2 DEF Place
  <2>4. QED
    BY <2>1, <2>3, PlaceOK
<1>12. CellOK(e, n, heap) /\ e.at = -1
  <2>1. e.at = -1 /\ e.v = S(Registry) /\ -1 \in -1 .. StackSize
    BY <1>1
  <2>2. e = [at |-> e.at, v |-> e.v]
    BY <2>1
  <2> HIDE DEF e
  <2>3. QED
    BY <1>11, <2>1, <2>2 DEF CellOK
<1> HIDE DEF e
<1>13. /\ IsSeq(some) /\ Len(some) = n + 1
       /\ \A i \in 1 .. n : some[i] = cells[i]
       /\ some[n + 1] = e
  BY <1>1, AppendFacts
<1> HIDE DEF some, cs
<1> DEFINE l == Len(cs)
<1>14. /\ IsSeq(cs) /\ l = n + 1 + m
       /\ \A i \in 1 .. n + 1 : cs[i] = some[i]
       /\ \A i \in 1 .. m : cs[n + 1 + i] = new[i]
  <2>1. /\ IsSeq(some \o new) /\ Len(some \o new) = Len(some) + Len(new)
        /\ \A i \in 1 .. Len(some) : (some \o new)[i] = some[i]
        /\ \A i \in 1 .. Len(new) : (some \o new)[Len(some) + i] = new[i]
    BY <1>10, <1>13, ConcatFacts
  <2>2. Len(some) = n + 1 /\ Len(new) = m
    BY <1>10, <1>13
  <2> HIDE DEF n
  <2>3. QED
    BY <1>5, <2>1, <2>2
<1>15. l \in Nat /\ DOMAIN cs = 1 .. l
  BY <1>14, SeqFacts
<1> HIDE DEF n, l
<1>16. m \in Nat /\ n \in Nat
  BY <1>1, <1>8 DEF n, m
<1>17. \A i \in 1 .. l : i \in 1 .. n \/ i = n + 1 \/ \E j \in 1 .. m : i = n + 1 + j
  <2> SUFFICES ASSUME NEW i \in 1 .. l, ~(i \in 1 .. n), i # n + 1
               PROVE  \E j \in 1 .. m : i = n + 1 + j
    OBVIOUS
  <2>1. i - (n + 1) \in 1 .. m /\ i = n + 1 + (i - (n + 1))
    BY <1>14, <1>15, <1>16
  <2>2. QED
    BY <2>1
<1>18. /\ \A i \in 1 .. n : cs[i] = cells[i]
       /\ cs[n + 1] = e
       /\ \A j \in 1 .. m : cs[n + 1 + j] = [at |-> u[j], v |-> Nil] /\ cs[n + 1 + j].at = u[j]
  <2>1. \A i \in 1 .. n : i \in 1 .. n + 1
    BY <1>16
  <2>2. n + 1 \in 1 .. n + 1
    BY <1>16
  <2>3. QED
    BY <1>9, <1>13, <1>14, <2>1, <2>2 DEF n
<1>19. n <= l /\ n + 1 <= l
  BY <1>14, <1>16
<1>20. \A i \in 1 .. l : CellOK(cs[i], l, heap)
  <2>1. \A c : CellOK(c, n, heap) => CellOK(c, l, heap)
    BY <1>15, <1>16, <1>19, SameHeapGrows, CellKept
  <2>2. \A i \in 1 .. n : CellOK(cells[i], n, heap)
    BY <1>1 DEF CellsOK, n
  <2>3. \A j \in 1 .. m : CellOK([at |-> u[j], v |-> Nil], l, heap)
    <3> TAKE j \in 1 .. m
    <3>1. u[j] \in 0 .. StackSize
      BY <1>2, <1>3, <1>8 DEF m
    <3>2. u[j] \in -1 .. StackSize
      BY <1>1, <3>1
    <3>3. QED
      BY <3>2, NilOK DEF CellOK
  <2>4. SUFFICES ASSUME NEW i \in 1 .. l PROVE CellOK(cs[i], l, heap)
    OBVIOUS
  <2>5. CASE i \in 1 .. n
    <3>1. cs[i] = cells[i] /\ CellOK(cells[i], n, heap)
      BY <1>18, <2>2, <2>5
    <3>2. QED
      BY <2>1, <3>1
  <2>6. CASE i = n + 1
    <3>1. cs[i] = e /\ CellOK(e, n, heap)
      BY <1>12, <1>18, <2>6 DEF n
    <3>2. QED
      BY <2>1, <3>1
  <2>7. ASSUME NEW j \in 1 .. m, i = n + 1 + j PROVE CellOK(cs[i], l, heap)
    BY <1>18, <2>3, <2>7
  <2>8. QED
    BY <1>17, <2>5, <2>6, <2>7
<1>21. CellsOK(cs, heap)
  BY <1>14, <1>15, <1>20 DEF CellsOK, l
<1>22. \A c \in 1 .. l : cs[c].at >= 0 => Owned(frames, cs[c].at)
  <2> SUFFICES ASSUME NEW c \in 1 .. l, cs[c].at >= 0 PROVE Owned(frames, cs[c].at)
    OBVIOUS
  <2>1. CASE c \in 1 .. n
    BY <1>1, <1>18, <2>1 DEF CapturesOK, n
  <2>2. CASE c = n + 1
    BY <1>12, <1>18, <2>2
  <2>3. ASSUME NEW j \in 1 .. m, c = n + 1 + j PROVE Owned(frames, cs[c].at)
    <3>1. cs[c].at - F.base \in Captured(P)
      BY <1>2, <1>3, <1>8, <1>18, <2>3 DEF m
    <3>2. Len(frames) \in DOMAIN frames /\ F = frames[Len(frames)]
      BY Here
    <3>3. QED
      BY <3>1, <3>2 DEF Owned, P
  <2>4. QED
    BY <1>17, <2>1, <2>2, <2>3
<1>23. \A c, d \in 1 .. l : cs[c].at >= 0 /\ cs[c].at = cs[d].at => c = d
  <2> SUFFICES ASSUME NEW c \in 1 .. l, NEW d \in 1 .. l, cs[c].at >= 0, cs[c].at = cs[d].at PROVE c = d
    OBVIOUS
  <2>1. c # n + 1 /\ d # n + 1
    BY <1>12, <1>18
  <2>2. CASE c \in 1 .. n /\ d \in 1 .. n
    BY <1>1, <1>18, <2>2 DEF CapturesOK, n
  <2>3. ASSUME NEW a \in 1 .. n, NEW j \in 1 .. m, cs[a].at = cs[n + 1 + j].at PROVE FALSE
    <3>1. a \in DOMAIN cells /\ cs[a] = cells[a]
      BY <1>1, <1>18 DEF n
    <3>2. u[j] \in U /\ cs[n + 1 + j].at = u[j]
      BY <1>3, <1>8, <1>18 DEF m
    <3>3. QED
      BY <1>6, <2>3, <3>1, <3>2
  <2>4. ASSUME NEW i \in 1 .. m, NEW j \in 1 .. m, c = n + 1 + i, d = n + 1 + j PROVE c = d
    <3>1. cs[c].at = u[i] /\ cs[d].at = u[j]
      BY <1>18, <2>4
    <3>2. u[i] = u[j] /\ i \in DOMAIN u /\ j \in DOMAIN u
      BY <1>8, <3>1 DEF m
    <3>3. i = j
      BY <1>3, <3>2
    <3>4. QED
      BY <2>4, <3>3
  <2>5. c \in 1 .. n \/ \E j \in 1 .. m : c = n + 1 + j
    BY <1>17, <2>1
  <2>6. d \in 1 .. n \/ \E j \in 1 .. m : d = n + 1 + j
    BY <1>17, <2>1
  <2>7. CASE c \in 1 .. n
    <3>1. d \in 1 .. n
      BY <2>3, <2>6, <2>7
    <3>2. QED
      BY <2>2, <2>7, <3>1
  <2>8. CASE \E j \in 1 .. m : c = n + 1 + j
    <3>1. PICK i \in 1 .. m : c = n + 1 + i
      BY <2>8
    <3>2. ~(d \in 1 .. n)
      BY <2>3, <3>1
    <3>3. PICK j \in 1 .. m : d = n + 1 + j
      BY <2>6, <3>2
    <3>4. QED
      BY <2>4, <3>1, <3>3
  <2>9. QED
    BY <2>5, <2>7, <2>8
<1>24. CapturesOK(frames, cs)
  BY <1>15, <1>22, <1>23 DEF CapturesOK
<1>25. \A i \in Wanted(p) : OpenAt(cs, i) # {}
  <2> SUFFICES ASSUME NEW i \in Wanted(p) PROVE \E c \in 1 .. l : cs[c].at = i
    BY <1>15 DEF OpenAt
  <2>1. CASE i \in U
    <3>1. PICK j \in 1 .. m : u[j] = i
      BY <1>3, <1>8, <2>1 DEF m
    <3>2. n + 1 + j \in 1 .. l
      BY <1>14, <1>16
    <3>3. QED
      BY <1>18, <3>1, <3>2
  <2>2. CASE i \notin U
    <3>1. PICK c \in 1 .. n : cells[c].at = i
      BY <1>1, <1>7, <2>2 DEF n
    <3>2. c \in 1 .. l
      BY <1>15, <1>16, <1>19
    <3>3. QED
      BY <1>18, <3>1, <3>2
  <2>3. QED
    BY <2>1, <2>2
<1>26. QED
  BY <1>15, <1>19, <1>21, <1>24, <1>25 DEF l, n, cs

LEMMA LoadFunctionKeeps ==
  ASSUME SoundFunctions(Prototypes), IInv, LoadFunction
  PROVE  IInv'
<1> DEFINE p == P.children[I.B + 1]
           v == <<"fun", p, LoadCaps(p)>>
           cs == CellsWith(p)
           l == Len(cs)
           s == [stk EXCEPT ![top] = v]
<1>1. status = "run" /\ F.falo /\ I.i = "LDP"
  BY RunningFacts DEF LoadFunction
<1>2. PutIn(s, cs, I.A, v) /\ top' = F.top /\ Advance(0) /\ heap' = heap
  BY DEF LoadFunction
<1>3. I.A \in Nat /\ OperandsSound(P, I) /\ FunctionSound(P, Prototypes)
  BY <1>1, Scripted
<1>4. Place(P, I.A) /\ I.B + 1 \in DOMAIN P.children
  BY <1>1, <1>3 DEF OperandsSound, Objects
<1>5. p \in Prototypes /\ CapturesSound(P, p) /\ p \in {P.children[k] : k \in DOMAIN P.children}
  BY <1>3, <1>4 DEF FunctionSound
<1> HIDE DEF p
<1>6. /\ CellsOK(cs, heap) /\ l \in Nat /\ Len(cells) + 1 <= l /\ DOMAIN cs = 1 .. l
      /\ CapturesOK(frames, cs) /\ \A i \in Wanted(p) : OpenAt(cs, i) # {}
  BY <1>1, <1>5, CellsWithFacts
<1>7. Len(cells) \in Nat
  BY <1>1, Here
<1> HIDE DEF cs, l
<1>8. Len(p.caps) \in Nat \ {0} /\ DOMAIN p.caps = 1 .. Len(p.caps)
  BY <1>5 DEF SoundFunctions, FunctionSound
<1>9. \A j \in 1 .. Len(p.caps) : LoadCaps(p)[j] \in 1 .. l
  <2> SUFFICES ASSUME NEW j \in 1 .. Len(p.caps) PROVE LoadCaps(p)[j] \in 1 .. l
    OBVIOUS
  <2>1. LoadCaps(p)[j] = IF j = 1 THEN Len(cells) + 1 ELSE CapOf(p, p.caps[j])
    BY DEF LoadCaps
  <2>2. CASE j = 1
    BY <1>6, <1>7, <2>1, <2>2
  <2>3. CASE j # 1 /\ p.caps[j].instack
    <3>1. R(p.caps[j].index) \in Wanted(p)
      BY <1>8, <2>3 DEF Wanted
    <3> DEFINE i == R(p.caps[j].index)
    <3>2. LoadCaps(p)[j] = CHOOSE c \in OpenAt(cs, i) : TRUE
      BY <2>1, <2>3 DEF CapOf, cs
    <3>3. OpenAt(cs, i) # {}
      BY <1>6, <3>1
    <3> HIDE DEF i
    <3>4. LoadCaps(p)[j] \in OpenAt(cs, i)
      BY <3>2, <3>3
    <3>5. QED
      BY <1>6, <3>4 DEF OpenAt
  <2>4. CASE j # 1 /\ ~p.caps[j].instack
    <3>1. p.caps[j].index \in 0 .. Len(P.caps) - 1
      BY <1>5, <1>8, <2>4 DEF CapturesSound
    <3>2. LoadCaps(p)[j] = F.caps[p.caps[j].index + 1]
      BY <2>1, <2>4 DEF CapOf
    <3>3. /\ Len(P.caps) \in Nat /\ DOMAIN F.caps = 1 .. Len(P.caps)
          /\ \A c \in DOMAIN F.caps : F.caps[c] \in 1 .. Len(cells)
      BY <1>1, Scripted
    <3>4. p.caps[j].index + 1 \in DOMAIN F.caps
      BY <3>1, <3>3
    <3>5. LoadCaps(p)[j] \in 1 .. Len(cells)
      BY <3>2, <3>3, <3>4
    <3>6. QED
      BY <1>6, <1>7, <3>5
  <2>5. QED
    BY <2>2, <2>3, <2>4
<1>10. DOMAIN LoadCaps(p) = 1 .. Len(p.caps) /\ Len(LoadCaps(p)) = Len(p.caps)
  <2> DEFINE m == Len(p.caps)
             f == LoadCaps(p)
  <2>1. f = [j \in 1 .. m |-> f[j]] /\ m \in Nat
    BY <1>8 DEF LoadCaps
  <2> HIDE DEF f, m
  <2>2. DOMAIN f = 1 .. m /\ Len(f) = m
    BY <2>1, FunctionFacts
  <2>3. QED
    BY <2>2 DEF f, m
<1>11. ValueOK(v, l, heap)
  <2>1. v[1] = "fun" /\ v[2] = p /\ v[3] = LoadCaps(p)
    OBVIOUS
  <2> HIDE DEF v
  <2>2. QED
    BY <1>5, <1>9, <1>10, <2>1 DEF ValueOK
<1>12. Len(cells) <= l
  BY <1>6, <1>7
<1>13. StackOK(s, l, heap)
  <2>1. StackOK(stk, Len(cells), heap)
    BY <1>1 DEF IInv
  <2>2. StackOK(stk, l, heap)
    BY <1>6, <1>7, <1>12, <2>1, SameHeapGrows, StackKept
  <2> HIDE DEF v
  <2>3. QED
    BY <1>11, <2>2, StackSet
<1> HIDE DEF s, v
<1>14. Len(cs) = l
  BY DEF l
<1>15. /\ StackOK(stk', l, heap) /\ CellsOK(cells', heap) /\ Len(cells') = l
       /\ DOMAIN cells' = DOMAIN cs /\ \A c \in DOMAIN cs : cells'[c].at = cs[c].at
  BY <1>1, <1>2, <1>3, <1>4, <1>6, <1>11, <1>12, <1>13, <1>14, Written
<1>16. CapturesOK(frames, cells')
  BY <1>6, <1>15 DEF CapturesOK
<1>17. ~Waits(I) /\ I.i \notin {"RET", "TCALL", "JMP"}
  BY <1>1 DEF Waits
<1>18. F.pc + 1 \in Nat /\ Leads(P, F.pc + 1 + 1)
  BY <1>1, <1>17, LeadsOn
<1>19. frames' = Moved(frames, F.pc + 1)
  <2>1. F.pc + 1 + 0 = F.pc + 1 /\ 0 \in Int
    BY <1>18
  <2>2. QED
    BY <1>1, <1>2, <2>1, Advances
<1>20. TopOK([F EXCEPT !.pc = F.pc + 1], top')
  BY <1>1, <1>2, <1>18, TopMoved
<1>21. HeapOK(heap, l)
  BY <1>1, <1>6, <1>7, <1>12, SameHeapGrows, ObjectKept DEF IInv, HeapOK
<1>22. CellsOK(cells', heap') /\ HeapOK(heap', Len(cells')) /\ StackOK(stk', Len(cells'), heap') /\ Len(cells) <= Len(cells')
  BY <1>2, <1>12, <1>15, <1>21
<1>23. QED
  BY <1>1, <1>16, <1>18, <1>19, <1>20, <1>22, Continues

------------------------------------------------------------------------------
(* Calls.                                                                  *)

LEMMA OwnedMore ==
  ASSUME NEW fs, IsSeq(fs), NEW g, NEW at, Owned(fs, at)
  PROVE  Owned(Append(fs, g), at)
<1>1. PICK k \in DOMAIN fs : fs[k].falo /\ at - fs[k].base \in Captured(fs[k].proto)
  BY DEF Owned
<1>2. DOMAIN fs = 1 .. Len(fs) /\ Len(fs) \in Nat
  BY SeqFacts
<1>3. k \in DOMAIN Append(fs, g) /\ Append(fs, g)[k] = fs[k]
  BY <1>2, AppendFacts
<1>4. QED
  BY <1>1, <1>3 DEF Owned

LEMMA FramesPushed ==
  ASSUME NEW n, NEW fs, FramesOK(fs, n), NEW g, FrameOK(g, n),
         Len(fs) > 0 => Called(Last(fs), g)
  PROVE  LET gs == Append(fs, g)
         IN FramesOK(gs, n) /\ Len(gs) > 0 /\ Last(gs) = g
<1> DEFINE l == Len(fs)
           gs == Append(fs, g)
<1>1. IsSeq(fs) /\ l \in Nat /\ DOMAIN fs = 1 .. l
  BY SeqFacts DEF FramesOK
<1>2. /\ IsSeq(gs) /\ Len(gs) = l + 1 /\ DOMAIN gs = 1 .. l + 1
      /\ \A i \in 1 .. l : gs[i] = fs[i]
      /\ gs[l + 1] = g
  BY <1>1, AppendFacts
<1>3. l > 0 => Called(fs[l], g)
  BY DEF Last
<1> HIDE DEF gs
<1>4. Last(gs) = g /\ Len(gs) > 0
  BY <1>1, <1>2 DEF Last
<1> HIDE DEF l
<1>5. \A i \in 1 .. l + 1 : i \in 1 .. l \/ i = l + 1
  BY <1>1
<1>6. \A k \in DOMAIN gs : FrameOK(gs[k], n)
  BY <1>1, <1>2, <1>5 DEF FramesOK
<1>7. \A k \in DOMAIN gs : k + 1 \in DOMAIN gs => Called(gs[k], gs[k + 1])
  <2> SUFFICES ASSUME NEW k \in 1 .. l + 1, k + 1 \in 1 .. l + 1 PROVE Called(gs[k], gs[k + 1])
    BY <1>2
  <2>1. k \in 1 .. l
    BY <1>1
  <2>2. CASE k = l
    BY <1>1, <1>2, <1>3, <2>1, <2>2
  <2>3. CASE k # l
    <3>1. k + 1 \in 1 .. l
      BY <1>1, <2>1, <2>3
    <3>2. Called(fs[k], fs[k + 1])
      BY <1>1, <2>1, <3>1 DEF FramesOK
    <3>3. QED
      BY <1>2, <2>1, <3>1, <3>2
  <2>4. QED
    BY <2>2, <2>3
<1>8. QED
  BY <1>2, <1>4, <1>6, <1>7 DEF FramesOK, gs

(* A function is entered with the values up to t.                          *)
LEMMA Entered ==
  ASSUME SoundFunctions(Prototypes), IInv, status = "run",
         NEW fs, NEW s, NEW t \in Nat, NEW fun \in Nat, NEW nres \in Int, NEW tail \in BOOLEAN,
         Enter(fs, s, t, fun, nres, tail),
         fun < t, t <= StackSize, -1 <= nres,
         CellsOK(cells', heap), HeapOK(heap, Len(cells')), StackOK(s, Len(cells'), heap),
         FramesOK(fs, Len(cells')), CapturesOK(fs, cells'),
         \A g : g.fun = fun /\ g.nres = nres /\ Len(fs) > 0 => Called(Last(fs), g)
  PROVE  IInv'
<1> DEFINE n == Len(cells')
           v == s[fun]
           p == v[2]
           script == v[1] = "fun"
           base == IF p.vararg THEN t ELSE fun + 1
           vs == [i \in 1 .. t - (fun + 1) |-> s[fun + i]]
           args == Adjust(vs, p.nargs)
           fails == ~Callable(v) \/ t + (IF script THEN p.nstack ELSE MinStack) > StackSize
           g == IF script THEN ScriptFrame(p, v[3], base, fun, nres) ELSE NativeFrame(t, fun, nres, tail)
<1>1. CASE fails
  <2>1. status' = "error"
    BY <1>1 DEF Enter
  <2>2. QED
    BY <2>1 DEF IInv
<1>2. CASE ~fails
  <2>1. /\ frames' = Append(fs, g)
        /\ stk' = IF script THEN Fill(s, base, args) ELSE s
        /\ top' = IF script THEN base + p.nstack ELSE t
        /\ heap' = heap
    BY <1>2 DEF Enter
  <2>2. StackSize \in Nat /\ MinStack \in Nat \ {0} /\ MULTIRET = -1
    BY StackAssumption DEF MULTIRET
  <2>3. ValueOK(v, n, heap)
    <3>1. fun \in 0 .. StackSize
      BY <2>2
    <3>2. QED
      BY <3>1 DEF StackOK
  <2>4. /\ FrameOK(g, n) /\ TopOK(g, top') /\ StackOK(stk', n, heap)
        /\ g.fun = fun /\ g.nres = nres
    <3>1. CASE script
      <4>1. /\ p \in Prototypes /\ Len(v[3]) = Len(p.caps) /\ DOMAIN v[3] = 1 .. Len(p.caps)
            /\ \A c \in DOMAIN v[3] : v[3][c] \in 1 .. n
        BY <2>3, <3>1 DEF ValueOK
      <4>2. p.nstack \in Nat /\ p.nargs \in Nat /\ Leads(p, 1)
        BY SMTT(30), <4>1, MaxStackAssumption DEF SoundFunctions, FunctionSound
      <4>3. base \in Nat /\ fun < base /\ base <= t
        OBVIOUS
      <4>4. t + p.nstack <= StackSize
        BY SMTT(30), <1>2, <2>2, <3>1, <4>2
      <4>5. vs = [i \in 1 .. t - (fun + 1) |-> vs[i]] /\ t - (fun + 1) \in Nat
        OBVIOUS
      <4>6. \A i \in 1 .. t - (fun + 1) : vs[i] = s[fun + i] /\ fun + i \in 0 .. StackSize
        BY <2>2
      <4> HIDE DEF vs
      <4>7. IsSeq(vs) /\ DOMAIN vs = 1 .. t - (fun + 1)
        <5> DEFINE k == t - (fun + 1)
        <5>1. k \in Nat /\ vs = [i \in 1 .. k |-> vs[i]]
          BY <4>5
        <5> HIDE DEF k
        <5>2. IsSeq(vs) /\ DOMAIN vs = 1 .. k
          BY <5>1, FunctionFacts
        <5>3. QED
          BY <5>2 DEF k
      <4>8. ValuesOK(vs, n, heap)
        BY <4>6, <4>7 DEF ValuesOK, StackOK
      <4>9. IsSeq(args) /\ ValuesOK(args, n, heap)
        BY <4>2, <4>7, <4>8, Adjusted
      <4>10. stk' = Fill(s, base, args) /\ top' = base + p.nstack
        BY <2>1, <3>1
      <4> HIDE DEF args, base
      <4>11. StackOK(stk', n, heap)
        BY <4>3, <4>9, <4>10, Filled
      <4>12. g = [falo |-> TRUE, proto |-> p, caps |-> v[3], fun |-> fun, base |-> base,
                  top |-> base + p.nstack, pc |-> 0, nres |-> nres, tail |-> FALSE]
        BY <3>1 DEF ScriptFrame
      <4> HIDE DEF g, p, v, script
      <4>13. /\ g.falo = TRUE /\ g.proto = p /\ g.caps = v[3] /\ g.fun = fun /\ g.base = base
             /\ g.top = base + p.nstack /\ g.pc = 0 /\ g.nres = nres /\ g.tail = FALSE
        BY <4>12
      <4>14. g = [falo |-> g.falo, proto |-> g.proto, caps |-> g.caps, fun |-> g.fun, base |-> g.base,
                  top |-> g.top, pc |-> g.pc, nres |-> g.nres, tail |-> g.tail]
        BY <4>12, <4>13
      <4>15. base + p.nstack \in Nat /\ base + p.nstack <= StackSize /\ base <= base + p.nstack
        BY SMTT(30), <2>2, <4>2, <4>3, <4>4
      <4>16. FrameOK(g, n)
        <5>1. g.falo \in BOOLEAN /\ g.tail \in BOOLEAN /\ g.falo /\ ~g.tail
          BY <4>13
        <5>2. g.fun \in Nat /\ g.base \in Nat /\ g.fun < g.base /\ g.pc \in Nat /\ g.nres \in Int /\ MULTIRET <= g.nres
          BY <2>2, <4>3, <4>13
        <5>3. /\ g.proto \in Prototypes /\ g.top = g.base + g.proto.nstack /\ g.top <= StackSize
              /\ Len(g.caps) = Len(g.proto.caps) /\ DOMAIN g.caps = 1 .. Len(g.proto.caps)
              /\ \A c \in DOMAIN g.caps : g.caps[c] \in 1 .. n
          BY <4>1, <4>13, <4>15
        <5>4. QED
          BY <4>14, <5>1, <5>2, <5>3 DEF FrameOK
      <4>17. g.pc + 1 = 1
        BY <4>13
      <4>18. TopOK(g, top')
        BY <4>2, <4>10, <4>13, <4>15, <4>17 DEF TopOK, Leads
      <4>19. QED
        BY <4>11, <4>13, <4>16, <4>18
    <3>2. CASE ~script
      <4>1. stk' = s /\ top' = t
        BY <2>1, <3>2
      <4>2. t + MinStack <= StackSize
        BY <1>2, <2>2, <3>2
      <4>3. g = [falo |-> FALSE, proto |-> main, caps |-> <<>>, fun |-> fun, base |-> fun + 1,
                 top |-> t + MinStack, pc |-> 0, nres |-> nres, tail |-> tail]
        BY <3>2 DEF NativeFrame
      <4> HIDE DEF g, p, v, script
      <4>4. /\ g.falo = FALSE /\ g.proto = main /\ g.caps = <<>> /\ g.fun = fun /\ g.base = fun + 1
            /\ g.top = t + MinStack /\ g.pc = 0 /\ g.nres = nres /\ g.tail = tail
        BY <4>3
      <4>5. g = [falo |-> g.falo, proto |-> g.proto, caps |-> g.caps, fun |-> g.fun, base |-> g.base,
                 top |-> g.top, pc |-> g.pc, nres |-> g.nres, tail |-> g.tail]
        BY <4>3, <4>4
      <4>6. fun + 1 \in Nat /\ fun < fun + 1 /\ fun + 2 <= StackSize /\ fun + 1 <= t
        BY <2>2, <4>2
      <4>7. FrameOK(g, n)
        <5>1. g.falo \in BOOLEAN /\ g.tail \in BOOLEAN /\ ~g.falo
          BY <4>4
        <5>2. g.fun \in Nat /\ g.base \in Nat /\ g.fun < g.base /\ g.pc \in Nat /\ g.nres \in Int /\ MULTIRET <= g.nres
          BY <2>2, <4>4, <4>6
        <5>3. g.base = g.fun + 1 /\ g.fun + 2 <= StackSize
          BY <4>4, <4>6
        <5>4. QED
          BY <4>5, <5>1, <5>2, <5>3 DEF FrameOK
      <4>8. TopOK(g, top')
        BY <4>1, <4>4, <4>6 DEF TopOK
      <4>9. QED
        BY <4>1, <4>4, <4>7, <4>8
    <3>3. QED
      BY <3>1, <3>2
  <2> HIDE DEF g
  <2>5. Len(fs) > 0 => Called(Last(fs), g)
    BY <2>4
  <2>6. FramesOK(frames', n) /\ Len(frames') > 0 /\ Last(frames') = g
    BY <2>1, <2>4, <2>5, FramesPushed
  <2>7. CapturesOK(frames', cells')
    <3>1. IsSeq(fs)
      BY DEF FramesOK
    <3>2. QED
      BY <2>1, <3>1, OwnedMore DEF CapturesOK
  <2>8. TopOK(F', top')
    BY <2>4, <2>6 DEF F
  <2>9. CellsOK(cells', heap') /\ HeapOK(heap', n) /\ StackOK(stk', n, heap')
    BY <2>1, <2>4
  <2>10. QED
    BY <2>6, <2>7, <2>8, <2>9 DEF IInv
<1>3. QED
  BY <1>1, <1>2

(* The caller moves on before the function runs.                           *)
LEMMA CallerWaits ==
  ASSUME IInv, status = "run"
  PROVE  /\ FramesOK(Advanced, Len(cells)) /\ CapturesOK(Advanced, cells)
         /\ CellsOK(cells, heap) /\ HeapOK(heap, Len(cells)) /\ StackOK(stk, Len(cells), heap)
         /\ Len(Advanced) > 0 /\ Last(Advanced).base = F.base /\ Last(Advanced).falo = F.falo
         /\ Last(Advanced).pc = F.pc + 1 /\ Last(Advanced).proto = F.proto
<1> DEFINE q == F.pc + 1
<1>1. q \in Nat /\ FrameOK(F, Len(cells)) /\ F = frames[Len(frames)]
  BY Here
<1>2. Advanced = Moved(frames, q)
  BY <1>1 DEF Advanced, Moved
<1> HIDE DEF q
<1>3. FramesOK(frames, Len(cells)) /\ Len(frames) > 0 /\ CapturesOK(frames, cells)
  BY DEF IInv
<1>4. /\ FramesOK(Advanced, Len(cells)) /\ Len(Advanced) = Len(frames)
      /\ Last(Advanced) = [Last(frames) EXCEPT !.pc = q]
      /\ \A at : Owned(frames, at) <=> Owned(Advanced, at)
  BY <1>1, <1>2, <1>3, FramesMoved
<1>5. Last(Advanced) = [F EXCEPT !.pc = q]
  BY <1>4 DEF F
<1> DEFINE g == [F EXCEPT !.pc = q]
<1>6. g.pc = q /\ g.falo = F.falo /\ g.proto = F.proto /\ g.base = F.base
  BY <1>1, FrameMoved
<1> HIDE DEF g
<1>7. CapturesOK(Advanced, cells)
  BY <1>3, <1>4 DEF CapturesOK
<1>8. QED
  BY <1>3, <1>4, <1>5, <1>6, <1>7 DEF q, g, IInv

LEMMA CallKeeps ==
  ASSUME SoundFunctions(Prototypes), IInv, Call
  PROVE  IInv'
<1> DEFINE t == IF I.B # 0 THEN R(I.A) + I.B ELSE top
           fun == R(I.A)
           nres == I.C - 1
<1>1. status = "run" /\ F.falo /\ I.i = "CALL"
  BY RunningFacts DEF Call
<1>2. Enter(Advanced, stk, t, fun, nres, FALSE) /\ cells' = cells
  BY DEF Call
<1>3. /\ I.A \in Nat /\ I.B \in Nat /\ I.C \in Nat /\ I.A < P.nstack /\ I.A + I.B <= P.nstack
      /\ P.nstack \in Nat /\ F.pc + 1 \in DOMAIN P.code
  <2>1. /\ I.A \in Nat /\ I.B \in Nat /\ I.C \in Nat /\ RangesSound(P, I)
        /\ P.nstack \in Nat /\ F.pc + 1 \in DOMAIN P.code
    BY <1>1, Scripted
  <2>2. QED
    BY <1>1, <2>1 DEF RangesSound
<1>4. /\ F.base \in Nat /\ top \in Nat /\ top <= StackSize /\ StackSize \in Nat /\ F.base + P.nstack <= StackSize
  <2>1. F.base \in Nat /\ top \in Nat /\ top <= StackSize /\ StackSize \in Nat
    BY <1>1, Here
  <2>2. F.top = F.base + P.nstack /\ F.top <= StackSize
    BY <1>1, Scripted
  <2>3. QED
    BY <2>1, <2>2
<1>5. R(I.A) = F.base + I.A
  BY DEF R
<1>6. t \in Nat /\ fun \in Nat /\ fun < t /\ t <= StackSize /\ F.base <= fun
  <2>1. CASE I.B # 0
    <3>1. t = F.base + I.A + I.B /\ fun = F.base + I.A
      BY <1>5, <2>1
    <3> HIDE DEF t, fun
    <3>2. F.base + I.A + I.B <= StackSize /\ F.base + I.A \in Nat
      BY <1>3, <1>4, InFrame
    <3>3. QED
      BY <1>3, <1>4, <2>1, <3>1, <3>2
  <2>2. CASE I.B = 0
    <3>1. Takes(I) /\ Least(I) = I.A + 1
      BY <1>1, <2>2 DEF Takes, Least
    <3>2. F.base + (I.A + 1) <= top
      BY <1>1, <3>1 DEF IInv, TopOK, P, I
    <3>3. t = top /\ fun = F.base + I.A
      BY <1>5, <2>2
    <3> HIDE DEF t, fun
    <3>4. QED
      BY <1>3, <1>4, <3>2, <3>3
  <2>3. QED
    BY <2>1, <2>2
<1>7. nres \in Int /\ -1 <= nres
  BY <1>3
<1>8. ASSUME NEW g, g.fun = fun, g.nres = nres PROVE Called(Last(Advanced), g)
  <2> DEFINE c == Last(Advanced)
  <2>1. c.base = F.base /\ c.falo = F.falo /\ c.pc = F.pc + 1 /\ c.proto = F.proto
    BY <1>1, CallerWaits
  <2> HIDE DEF c
  <2>2. c.proto.code[c.pc] = I /\ c.pc \in DOMAIN c.proto.code
    BY <1>3, <2>1 DEF I, P
  <2>3. g.fun = c.base + I.A + Bit(I.i = "ICALL")
    <3>1. Bit(I.i = "ICALL") = 0
      BY <1>1 DEF Bit
    <3>2. F.base + I.A + 0 = F.base + I.A
      BY <1>3, <1>4
    <3>3. QED
      BY <1>5, <1>8, <2>1, <3>1, <3>2
  <2>4. QED
    BY <1>1, <1>6, <1>8, <2>1, <2>2, <2>3 DEF Called, c
<1> HIDE DEF t, fun, nres
<1>9. /\ FramesOK(Advanced, Len(cells')) /\ CapturesOK(Advanced, cells')
      /\ CellsOK(cells', heap) /\ HeapOK(heap, Len(cells')) /\ StackOK(stk, Len(cells'), heap)
  BY <1>1, <1>2, CallerWaits
<1>10. FALSE \in BOOLEAN
  OBVIOUS
<1>11. QED
  BY <1>1, <1>2, <1>6, <1>7, <1>8, <1>9, <1>10, Entered

LEMMA CallIteratorKeeps ==
  ASSUME SoundFunctions(Prototypes), IInv, CallIterator
  PROVE  IInv'
<1> DEFINE s == [stk EXCEPT ![R(I.A) + 1] = stk[R(I.A)]]
           fun == R(I.A) + 1
           t == R(I.A) + 2
           nres == I.C - 1
<1>1. status = "run" /\ F.falo /\ I.i = "ICALL"
  BY RunningFacts DEF CallIterator
<1>2. Enter(Advanced, s, t, fun, nres, FALSE) /\ cells' = cells
  BY DEF CallIterator
<1>3. /\ I.A \in Nat /\ I.C \in Nat /\ I.A + 2 <= P.nstack
      /\ P.nstack \in Nat /\ F.pc + 1 \in DOMAIN P.code
  <2>1. /\ I.A \in Nat /\ I.C \in Nat /\ RangesSound(P, I)
        /\ P.nstack \in Nat /\ F.pc + 1 \in DOMAIN P.code
    BY <1>1, Scripted
  <2>2. QED
    BY <1>1, <2>1 DEF RangesSound
<1>4. F.base \in Nat /\ StackSize \in Nat /\ F.base + P.nstack <= StackSize
  <2>1. F.base \in Nat /\ StackSize \in Nat
    BY <1>1, Here
  <2>2. F.top = F.base + P.nstack /\ F.top <= StackSize
    BY <1>1, Scripted
  <2>3. QED
    BY <2>1, <2>2
<1>5. R(I.A) = F.base + I.A
  BY DEF R
<1>6. t \in Nat /\ fun \in Nat /\ fun < t /\ t <= StackSize /\ F.base <= fun /\ R(I.A) \in 0 .. StackSize
  <2>1. F.base + I.A + 2 <= StackSize /\ F.base + I.A \in Nat
    BY <1>3, <1>4, InFrame
  <2> DEFINE r == F.base + I.A
  <2>2. r + 2 <= StackSize /\ r \in Nat /\ F.base <= r
    BY <1>3, <1>4, <2>1
  <2>3. t = r + 2 /\ fun = r + 1 /\ R(I.A) = r
    BY <1>5
  <2> HIDE DEF r, t, fun
  <2>4. QED
    BY <1>4, <2>2, <2>3
<1>7. nres \in Int /\ -1 <= nres
  BY <1>3
<1>8. ASSUME NEW g, g.fun = fun, g.nres = nres PROVE Called(Last(Advanced), g)
  <2> DEFINE c == Last(Advanced)
  <2>1. c.base = F.base /\ c.falo = F.falo /\ c.pc = F.pc + 1 /\ c.proto = F.proto
    BY <1>1, CallerWaits
  <2> HIDE DEF c
  <2>2. c.proto.code[c.pc] = I /\ c.pc \in DOMAIN c.proto.code
    BY <1>3, <2>1 DEF I, P
  <2>3. g.fun = c.base + I.A + Bit(I.i = "ICALL")
    BY <1>1, <1>5, <1>8, <2>1 DEF Bit
  <2>4. QED
    BY <1>1, <1>6, <1>8, <2>1, <2>2, <2>3 DEF Called, c
<1>9. /\ FramesOK(Advanced, Len(cells')) /\ CapturesOK(Advanced, cells')
      /\ CellsOK(cells', heap) /\ HeapOK(heap, Len(cells')) /\ StackOK(stk, Len(cells'), heap)
  BY <1>1, <1>2, CallerWaits
<1>10. StackOK(s, Len(cells'), heap)
  <2> DEFINE v == stk[R(I.A)]
  <2>1. ValueOK(v, Len(cells'), heap)
    BY <1>6, <1>9 DEF StackOK
  <2> HIDE DEF v
  <2>2. StackOK([stk EXCEPT ![R(I.A) + 1] = v], Len(cells'), heap)
    BY <1>9, <2>1, StackSet
  <2>3. QED
    BY <2>2 DEF v
<1> HIDE DEF t, fun, nres, s
<1>11. FALSE \in BOOLEAN
  OBVIOUS
<1>12. QED
  BY <1>1, <1>2, <1>6, <1>7, <1>8, <1>9, <1>10, <1>11, Entered

LEMMA ApplyCallsKeeps ==
  ASSUME SoundFunctions(Prototypes), IInv, ApplyCalls
  PROVE  IInv'
<1>1. status = "run" /\ ~F.falo
  BY DEF ApplyCalls, Native
<1>2. CASE top = F.base
  BY <1>2, RaiseKeeps DEF ApplyCalls
<1>3. CASE top # F.base
  <2>1. Enter(Advanced, stk, top, F.base, MULTIRET, FALSE) /\ cells' = cells
    BY <1>3 DEF ApplyCalls
  <2>2. top \in Nat /\ F.base \in Nat /\ F.base < top /\ top <= StackSize
    <3>1. top \in Nat /\ F.base \in Nat /\ F.base <= top /\ top <= StackSize
      BY <1>1, Here
    <3>2. QED
      BY <1>3, <3>1
  <2>3. MULTIRET \in Int /\ -1 <= MULTIRET /\ FALSE \in BOOLEAN
    BY DEF MULTIRET
  <2>4. \A g : g.fun = F.base /\ g.nres = MULTIRET => Called(Last(Advanced), g)
    <3> DEFINE c == Last(Advanced)
    <3>1. c.base = F.base /\ c.falo = F.falo
      BY <1>1, CallerWaits
    <3> HIDE DEF c
    <3>2. \A g : g.fun = F.base /\ g.nres = MULTIRET => Called(c, g)
      BY <1>1, <2>2, <3>1 DEF Called
    <3>3. QED
      BY <3>2 DEF c
  <2>5. /\ FramesOK(Advanced, Len(cells')) /\ CapturesOK(Advanced, cells')
        /\ CellsOK(cells', heap) /\ HeapOK(heap, Len(cells')) /\ StackOK(stk, Len(cells'), heap)
    BY <1>1, <2>1, CallerWaits
  <2>6. QED
    BY <1>1, <2>1, <2>2, <2>3, <2>4, <2>5, Entered
<1>4. QED
  BY <1>2, <1>3

------------------------------------------------------------------------------
(* Returns.                                                                *)

(* Registers captured are registers, so below its frame nothing is its.    *)
LEMMA CapturedAbove ==
  ASSUME SoundFunctions(Prototypes), NEW p \in Prototypes, NEW r \in Captured(p)
  PROVE  r \in Nat
<1>1. PICK i \in DOMAIN p.children :
          r \in {p.children[i].caps[j].index : j \in {k \in DOMAIN p.children[i].caps \ {1} : p.children[i].caps[k].instack}}
  BY DEF Captured
<1>2. PICK j \in DOMAIN p.children[i].caps \ {1} : p.children[i].caps[j].instack /\ r = p.children[i].caps[j].index
  BY <1>1
<1>3. CapturesSound(p, p.children[i]) /\ p.nstack \in Nat
  BY <1>1, MaxStackAssumption DEF SoundFunctions, FunctionSound
<1>4. Register(p, r)
  BY <1>2, <1>3 DEF CapturesSound
<1>5. QED
  BY <1>3, <1>4 DEF Register

LEMMA FrameLeft ==
  ASSUME SoundFunctions(Prototypes), IInv, status = "run",
         NEW cs, CapturesOK(frames, cs), \A c \in DOMAIN cs : cs[c].at \in Int,
         F.falo => \A c \in DOMAIN cs : cs[c].at >= 0 => ~(cs[c].at >= F.base)
  PROVE  /\ FramesOK(Front(frames), Len(cells)) /\ CapturesOK(Front(frames), cs)
         /\ Len(Front(frames)) \in Nat
         /\ Len(Front(frames)) > 0 => /\ Called(Last(Front(frames)), F)
                                     /\ FrameOK(Last(Front(frames)), Len(cells))
<1> DEFINE fs == Front(frames)
           l == Len(frames)
<1>1. FramesOK(frames, Len(cells)) /\ IsSeq(frames)
  BY DEF IInv, FramesOK
<1>2. l \in Nat \ {0} /\ DOMAIN frames = 1 .. l /\ F = frames[l] /\ FrameOK(F, Len(cells)) /\ F.base \in Nat
  BY Here
<1>3. IsSeq(fs) /\ Len(fs) = l - 1 /\ DOMAIN fs = 1 .. l - 1 /\ \A i \in 1 .. l - 1 : fs[i] = frames[i]
  <2>1. Len(frames) > 0
    BY <1>2
  <2>2. QED
    BY <1>1, <2>1, FrontFacts
<1> HIDE DEF fs, l
<1>4. \A i \in 1 .. l - 1 : i \in 1 .. l
  BY <1>2
<1>5. FramesOK(fs, Len(cells))
  <2>1. \A k \in DOMAIN fs : FrameOK(fs[k], Len(cells))
    BY <1>1, <1>2, <1>3, <1>4 DEF FramesOK
  <2>2. \A k \in DOMAIN fs : k + 1 \in DOMAIN fs => Called(fs[k], fs[k + 1])
    BY <1>1, <1>2, <1>3, <1>4 DEF FramesOK
  <2>3. QED
    BY <1>3, <2>1, <2>2 DEF FramesOK
<1>6. CapturesOK(fs, cs)
  <2>1. ASSUME NEW c \in DOMAIN cs, cs[c].at >= 0 PROVE Owned(fs, cs[c].at)
    <3>1. PICK k \in 1 .. l : frames[k].falo /\ cs[c].at - frames[k].base \in Captured(frames[k].proto)
      BY <1>2, <2>1 DEF CapturesOK, Owned
    <3>2. CASE k = l
      <4>1. F.falo /\ cs[c].at - F.base \in Captured(F.proto)
        BY <1>2, <3>1, <3>2
      <4>2. F.proto \in Prototypes
        BY <1>2, <4>1 DEF FrameOK
      <4>3. cs[c].at - F.base \in Nat
        BY <4>1, <4>2, CapturedAbove
      <4>4. ~(cs[c].at >= F.base) /\ cs[c].at \in Int
        BY <2>1, <4>1
      <4>5. QED
        BY <1>2, <4>3, <4>4
    <3>3. CASE k # l
      <4>1. k \in 1 .. l - 1
        BY <1>2, <3>3
      <4>2. QED
        BY <1>3, <3>1, <4>1 DEF Owned
    <3>4. QED
      BY <3>2, <3>3
  <2>2. QED
    BY <2>1 DEF CapturesOK
<1>7. Len(fs) \in Nat
  BY <1>2, <1>3
<1>8. Len(fs) > 0 => Called(Last(fs), F) /\ FrameOK(Last(fs), Len(cells))
  <2> SUFFICES ASSUME Len(fs) > 0 PROVE Called(Last(fs), F) /\ FrameOK(Last(fs), Len(cells))
    OBVIOUS
  <2>1. l - 1 \in 1 .. l - 1 /\ l - 1 \in 1 .. l /\ (l - 1) + 1 = l /\ l \in 1 .. l
    BY <1>2, <1>3
  <2>2. Last(fs) = frames[l - 1]
    BY <1>3, <2>1 DEF Last
  <2>3. Called(frames[l - 1], frames[l])
    BY <1>1, <1>2, <2>1 DEF FramesOK
  <2>4. FrameOK(frames[l - 1], Len(cells))
    BY <1>1, <1>2, <2>1 DEF FramesOK
  <2>5. QED
    BY <1>2, <2>2, <2>3, <2>4
<1>9. QED
  BY <1>5, <1>6, <1>7, <1>8 DEF fs

(* The captures closed when a function is left.                            *)
LEMMA FrameShut ==
  ASSUME SoundFunctions(Prototypes), IInv, status = "run", F.falo, cells' = CloseFrom(cells, F.base)
  PROVE  /\ CellsOK(cells', heap) /\ Len(cells') = Len(cells)
         /\ FramesOK(Front(frames), Len(cells)) /\ CapturesOK(Front(frames), cells')
         /\ Len(Front(frames)) \in Nat
         /\ Len(Front(frames)) > 0 => /\ Called(Last(Front(frames)), F)
                                     /\ FrameOK(Last(Front(frames)), Len(cells))
<1>1. F.base \in Nat
  BY Here
<1>2. /\ CellsOK(cells', heap) /\ Len(cells') = Len(cells) /\ DOMAIN cells' = DOMAIN cells
      /\ CapturesOK(frames, cells')
      /\ \A c \in DOMAIN cells' : cells'[c].at >= 0 => ~(cells[c].at >= F.base) /\ cells'[c].at = cells[c].at
  BY <1>1, CellsShut
<1>3. \A c \in DOMAIN cells' : cells'[c].at \in Int
  <2>1. \A c \in DOMAIN cells' : cells'[c].at \in -1 .. StackSize
    BY <1>2 DEF CellsOK, CellOK
  <2>2. \A a : a \in -1 .. StackSize => a \in Int
    BY StackAssumption
  <2>3. QED
    BY <2>1, <2>2
<1>4. \A c \in DOMAIN cells' : cells'[c].at >= 0 => ~(cells'[c].at >= F.base)
  BY <1>2
<1>5. QED
  BY <1>2, <1>3, <1>4, FrameLeft

LEMMA TailCallKeeps ==
  ASSUME SoundFunctions(Prototypes), IInv, TailCallFunction
  PROVE  IInv'
<1> DEFINE n == IF I.B = 0 THEN top - R(I.A) ELSE I.B
           s == Fill(stk, F.fun, Slots(R(I.A), n))
           t == F.fun + n
<1>1. status = "run" /\ F.falo /\ I.i = "TCALL"
  BY RunningFacts DEF TailCallFunction
<1>2. cells' = CloseFrom(cells, F.base) /\ Enter(Front(frames), s, t, F.fun, F.nres, TRUE)
  BY DEF TailCallFunction
<1>3. /\ I.A \in Nat /\ I.B \in Nat /\ I.A < P.nstack /\ I.A + I.B <= P.nstack /\ P.nstack \in Nat
  <2>1. /\ I.A \in Nat /\ I.B \in Nat /\ RangesSound(P, I) /\ P.nstack \in Nat
    BY <1>1, Scripted
  <2>2. QED
    BY <1>1, <2>1 DEF RangesSound
<1>4. /\ F.base \in Nat /\ F.fun \in Nat /\ F.fun < F.base /\ top \in Nat /\ top <= StackSize /\ StackSize \in Nat
      /\ F.base + P.nstack <= StackSize
  <2>1. F.base \in Nat /\ F.fun \in Nat /\ F.fun < F.base /\ top \in Nat /\ top <= StackSize /\ StackSize \in Nat
    BY <1>1, Here
  <2>2. F.top = F.base + P.nstack /\ F.top <= StackSize
    BY <1>1, Scripted
  <2>3. QED
    BY <2>1, <2>2
<1>5. R(I.A) = F.base + I.A /\ R(I.A) \in Nat /\ F.base <= R(I.A)
  <2>1. R(I.A) = F.base + I.A
    BY DEF R
  <2>2. QED
    BY <1>3, <1>4, <2>1
<1>6. n \in Nat /\ n > 0 /\ R(I.A) + n <= StackSize
  <2>1. CASE I.B # 0
    <3>1. F.base + I.A + I.B <= StackSize
      BY <1>3, <1>4, InFrame
    <3>2. n = I.B
      BY <2>1
    <3> HIDE DEF n
    <3>3. QED
      BY <1>3, <1>5, <2>1, <3>1, <3>2
  <2>2. CASE I.B = 0
    <3>1. Takes(I) /\ Least(I) = I.A + 1
      BY <1>1, <2>2 DEF Takes, Least
    <3>2. F.base + (I.A + 1) <= top
      BY <1>1, <3>1 DEF IInv, TopOK, P, I
    <3>3. R(I.A) + 1 <= top
      BY <1>3, <1>4, <1>5, <3>2
    <3>4. n = top - R(I.A)
      BY <2>2
    <3> HIDE DEF n
    <3>5. QED
      BY <1>4, <1>5, <3>3, <3>4
  <2>3. QED
    BY <2>1, <2>2
<1> HIDE DEF n
<1>7. t \in Nat /\ F.fun < t /\ t <= StackSize
  BY <1>4, <1>5, <1>6
<1>8. F.nres \in Int /\ -1 <= F.nres /\ TRUE \in BOOLEAN
  BY <1>1, Here DEF FrameOK, MULTIRET
<1>9. /\ CellsOK(cells', heap) /\ Len(cells') = Len(cells)
      /\ FramesOK(Front(frames), Len(cells)) /\ CapturesOK(Front(frames), cells')
      /\ Len(Front(frames)) > 0 => Called(Last(Front(frames)), F)
  BY <1>1, <1>2, FrameShut
<1>10. HeapOK(heap, Len(cells)) /\ StackOK(stk, Len(cells), heap)
  BY <1>1 DEF IInv
<1>11. StackOK(s, Len(cells'), heap)
  <2>1. R(I.A) + n <= StackSize + 1
    BY <1>4, <1>5, <1>6
  <2>2. IsSeq(Slots(R(I.A), n)) /\ ValuesOK(Slots(R(I.A), n), Len(cells), heap)
    BY <1>5, <1>6, <1>10, <2>1, Sliced
  <2>3. StackOK(s, Len(cells), heap)
    BY <1>4, <1>10, <2>2, Filled
  <2>4. QED
    BY <1>9, <2>3
<1> HIDE DEF s, t
<1>12. \A g : g.fun = F.fun /\ g.nres = F.nres /\ Len(Front(frames)) > 0 => Called(Last(Front(frames)), g)
  BY <1>9 DEF Called
<1>13. FramesOK(Front(frames), Len(cells')) /\ HeapOK(heap, Len(cells'))
  BY <1>9, <1>10
<1>14. QED
  BY <1>1, <1>2, <1>4, <1>7, <1>8, <1>9, <1>11, <1>12, <1>13, Entered

(* A function is left with the values vs.                                  *)
LEMMA Left ==
  ASSUME SoundFunctions(Prototypes), IInv, status = "run",
         NEW vs, Leave(vs), IsSeq(vs), ValuesOK(vs, Len(cells), heap), F.fun + Len(vs) <= StackSize,
         CellsOK(cells', heap'), Len(cells') = Len(cells), HeapOK(heap', Len(cells)), Grows(heap, heap'),
         FramesOK(Front(frames), Len(cells)), CapturesOK(Front(frames), cells'), Len(Front(frames)) \in Nat,
         Len(Front(frames)) > 0 => /\ Called(Last(Front(frames)), F)
                                   /\ FrameOK(Last(Front(frames)), Len(cells))
  PROVE  IInv'
<1> DEFINE want == IF F.nres = MULTIRET THEN Len(vs) ELSE F.nres
           fs == Front(frames)
           c == Last(fs)
           ins == c.proto.code[c.pc]
           scripted == Len(fs) > 0 /\ c.falo
           keeps == scripted /\ ~F.tail /\ ins.i = "CALL" /\ ins.C = 0
<1>1. /\ stk' = Fill(stk, F.fun, Adjust(vs, want))
      /\ frames' = IF scripted /\ ~F.tail /\ ins.i = "ICALL" /\ vs # <<>>
                   THEN [fs EXCEPT ![Len(fs)].pc = @ + 1] ELSE fs
      /\ top' = IF ~scripted \/ keeps \/ F.tail THEN F.fun + want ELSE c.top
      /\ status' = IF fs = <<>> THEN "done" ELSE IF scripted /\ F.tail THEN "abandoned" ELSE status
  BY DEF Leave
<1>2. /\ FrameOK(F, Len(cells)) /\ F.fun \in Nat /\ Len(vs) \in Nat /\ Len(cells) \in Nat
      /\ F.nres \in Int /\ -1 <= F.nres /\ MULTIRET = -1
  <2>1. FrameOK(F, Len(cells)) /\ F.fun \in Nat /\ Len(cells) \in Nat
    BY Here
  <2>2. Len(vs) \in Nat
    BY SeqFacts
  <2>3. QED
    BY <2>1, <2>2 DEF FrameOK, MULTIRET
<1>3. want \in Nat
  BY <1>2
<1>4. StackOK(stk', Len(cells'), heap')
  <2>1. StackOK(stk, Len(cells), heap)
    BY DEF IInv
  <2> HIDE DEF want
  <2>2. IsSeq(Adjust(vs, want)) /\ ValuesOK(Adjust(vs, want), Len(cells), heap)
    BY <1>3, Adjusted
  <2>3. StackOK(stk', Len(cells), heap)
    BY <1>1, <1>2, <2>1, <2>2, Filled
  <2>4. Len(cells) <= Len(cells)
    BY <1>2
  <2>5. StackOK(stk', Len(cells), heap')
    BY <1>2, <2>3, <2>4, StackKept
  <2>6. QED
    BY <2>5
<1>5. CASE fs = <<>> \/ (scripted /\ F.tail)
  <2>1. status' # "run"
    BY <1>1, <1>5
  <2>2. QED
    BY <2>1 DEF IInv
<1>6. CASE fs # <<>> /\ ~scripted
  <2>1. Len(fs) > 0
    <3>1. IsSeq(fs)
      BY DEF FramesOK
    <3> HIDE DEF fs
    <3>2. PICK E : fs \in Seq(E)
      BY <3>1 DEF IsSeq
    <3>3. QED
      BY <1>6, <3>2, EmptySeq DEF fs
  <2>2. Called(c, F) /\ FrameOK(c, Len(cells)) /\ ~c.falo
    BY <1>6, <2>1
  <2>3. frames' = fs /\ top' = F.fun + want
    BY <1>1, <1>6
  <2> HIDE DEF c
  <2>4. F.nres = MULTIRET /\ c.base <= F.fun /\ c.base \in Nat
    BY <2>2 DEF Called, FrameOK
  <2>5. top' \in Nat /\ top' <= StackSize /\ c.base <= top'
    <3>1. top' = F.fun + Len(vs)
      BY <2>3, <2>4
    <3>2. QED
      BY <1>2, <2>4, <3>1
  <2>6. F' = c
    BY <2>3 DEF F, c
  <2>7. TopOK(F', top')
    BY <2>2, <2>5, <2>6 DEF TopOK
  <2>8. FramesOK(frames', Len(cells')) /\ Len(frames') > 0 /\ CapturesOK(frames', cells')
    BY <2>1, <2>3
  <2>9. QED
    BY <1>4, <2>7, <2>8 DEF IInv
<1>7. CASE fs # <<>> /\ scripted /\ ~F.tail
  <2>1. Called(c, F) /\ FrameOK(c, Len(cells)) /\ c.falo /\ Len(fs) > 0
    BY <1>7
  <2>2. /\ frames' = IF ins.i = "ICALL" /\ vs # <<>> THEN [fs EXCEPT ![Len(fs)].pc = @ + 1] ELSE fs
        /\ top' = IF ins.i = "CALL" /\ ins.C = 0 THEN F.fun + want ELSE c.top
    BY <1>1, <1>7
  <2> DEFINE p == c.proto
             q == c.pc
  <2>3. FramesOK(fs, Len(cells)) /\ CapturesOK(fs, cells') /\ c = fs[Len(fs)]
    BY DEF Last
  <2>4. F' = Last(frames')
    BY DEF F
  <2> HIDE DEF want, c, fs
  <2>5. /\ p \in Prototypes /\ FunctionSound(p, Prototypes) /\ p.nstack \in Nat
        /\ c.base \in Nat /\ c.top = c.base + p.nstack /\ c.top <= StackSize /\ q \in Nat
    <3>1. /\ p \in Prototypes /\ c.base \in Nat /\ c.top = c.base + p.nstack /\ c.top <= StackSize /\ q \in Nat
      BY <2>1 DEF FrameOK
    <3>2. FunctionSound(p, Prototypes)
      BY <3>1 DEF SoundFunctions
    <3>3. p.nstack \in Nat
      BY <3>2, MaxStackAssumption DEF FunctionSound
    <3>4. QED
      BY <3>1, <3>2, <3>3
  <2>6. /\ q \in DOMAIN p.code /\ ins.i \in {"CALL", "ICALL"} /\ c.base <= F.fun
        /\ F.fun = c.base + ins.A + Bit(ins.i = "ICALL") /\ F.nres = ins.C - 1
    BY <2>1 DEF Called
  <2>7. InstructionSound(p, q)
    BY <2>5, <2>6 DEF FunctionSound
  <2>8. /\ ins.A \in Nat /\ ins.C \in Nat /\ WaysSound(p, q) /\ RangesSound(p, ins)
    BY <2>7 DEF InstructionSound
  <2>9. q + 1 \in DOMAIN p.code /\ Follows(ins, p.code[q + 1])
    BY <2>6, <2>8 DEF WaysSound
  <2>10. c.top \in Nat /\ c.base <= c.top
    BY <2>5
  <2>11. CASE ins.i = "CALL" /\ ins.C = 0
    <3>1. top' = F.fun + want /\ frames' = fs
      BY <2>2, <2>11
    <3>2. want = Len(vs)
      BY <1>2, <2>6, <2>11 DEF want
    <3>3. top' \in Nat /\ top' <= StackSize /\ F.fun <= top'
      BY <1>2, <3>1, <3>2
    <3>4. Waits(ins) /\ Takes(p.code[q + 1]) /\ Least(p.code[q + 1]) <= ins.A
      BY <2>9, <2>11 DEF Waits, Follows
    <3> DEFINE j == p.code[q + 1]
    <3>5. Least(j) \in Nat
      <4>1. InstructionSound(p, q + 1)
        BY <2>5, <2>9 DEF FunctionSound
      <4>2. j.A \in Nat /\ (j.i \notin {"JMP", "JCZ"} => j.B \in Nat)
        BY <4>1 DEF InstructionSound
      <4> HIDE DEF j
      <4>3. j.i \in {"CALL", "TCALL", "RET", "NEWA", "CAT"}
        BY <3>4 DEF Takes, j
      <4>4. QED
        BY <4>2, <4>3 DEF Least
    <3>6. F.fun = c.base + ins.A
      <4>1. Bit(ins.i = "ICALL") = 0
        BY <2>11 DEF Bit
      <4>2. QED
        BY <2>5, <2>6, <2>8, <4>1
    <3>7. c.base + Least(j) <= top' /\ c.base <= top'
      <4> HIDE DEF j
      <4>1. Least(j) <= ins.A
        BY <3>4 DEF j
      <4>2. \A b, a, m, t \in Nat : m <= a /\ b + a <= t => b + m <= t /\ b <= t
        OBVIOUS
      <4>3. c.base \in Nat /\ ins.A \in Nat /\ top' \in Nat /\ c.base + ins.A <= top'
        BY <2>5, <2>8, <3>3, <3>6
      <4> HIDE DEF ins
      <4>4. QED
        BY <3>5, <4>1, <4>2, <4>3
    <3>8. F' = c
      BY <2>4, <3>1 DEF c, fs
    <3>9. q > 0
      <4>1. DOMAIN p.code = 1 .. Len(p.code) /\ Len(p.code) \in Nat
        BY <2>5 DEF FunctionSound
      <4>2. QED
        BY <2>6, <4>1
    <3>10. TopOK(c, top')
      BY <2>9, <3>3, <3>4, <3>7, <3>9 DEF TopOK
    <3>11. FramesOK(frames', Len(cells')) /\ Len(frames') > 0 /\ CapturesOK(frames', cells')
      BY <2>1, <2>3, <3>1
    <3>12. QED
      BY <1>4, <3>8, <3>10, <3>11 DEF IInv
  <2>12. CASE ~(ins.i = "CALL" /\ ins.C = 0)
    <3>1. top' = c.top
      BY <2>2, <2>12
    <3>2. ~Waits(ins)
      BY <2>6, <2>12 DEF Waits
    <3>3. ~Takes(p.code[q + 1])
      BY <2>9, <3>2 DEF Follows
    <3>4. CASE ~(ins.i = "ICALL" /\ vs # <<>>)
      <4>1. frames' = fs
        BY <2>2, <3>4
      <4>2. F' = c
        BY <2>4, <4>1 DEF c, fs
      <4>3. TopOK(c, top')
        BY <2>5, <2>9, <2>10, <3>1, <3>3 DEF TopOK
      <4>4. FramesOK(frames', Len(cells')) /\ Len(frames') > 0 /\ CapturesOK(frames', cells')
        BY <2>1, <2>3, <4>1
      <4>5. QED
        BY <1>4, <4>2, <4>3, <4>4 DEF IInv
    <3>5. CASE ins.i = "ICALL" /\ vs # <<>>
      <4> DEFINE r == q + 1
                 g == [c EXCEPT !.pc = r]
      <4>1. r \in Nat
        BY <2>5
      <4>2. frames' = Moved(fs, r)
        BY <2>2, <2>3, <3>5 DEF Moved
      <4>3. Leads(p, q + 2)
        BY <2>8, <3>5 DEF WaysSound
      <4>4. r + 1 = q + 2
        BY <2>5
      <4> HIDE DEF r, p, q
      <4>5. /\ FramesOK(frames', Len(cells)) /\ Len(frames') = Len(fs)
            /\ Last(frames') = [Last(fs) EXCEPT !.pc = r]
            /\ \A at : Owned(fs, at) <=> Owned(frames', at)
        BY <2>1, <2>3, <4>1, <4>2, FramesMoved
      <4>6. F' = g
        BY <2>4, <4>5 DEF c
      <4>7. g.pc = r /\ g.falo = c.falo /\ g.proto = c.proto /\ g.base = c.base /\ g.top = c.top
        BY ZenonT(60), <2>1, <4>1, FrameMoved
      <4> HIDE DEF g
      <4>8. r + 1 \in DOMAIN p.code /\ ~Takes(p.code[r + 1])
        BY <4>3, <4>4 DEF Leads
      <4>9. TopOK(g, top')
        BY <2>5, <2>10, <3>1, <4>7, <4>8 DEF TopOK, p
      <4>10. CapturesOK(frames', cells')
        BY <2>3, <4>5 DEF CapturesOK
      <4>11. FramesOK(frames', Len(cells')) /\ Len(frames') > 0
        BY <2>1, <4>5
      <4>12. QED
        BY <1>4, <4>6, <4>9, <4>10, <4>11 DEF IInv
    <3>6. QED
      BY <3>4, <3>5
  <2>13. QED
    BY <2>11, <2>12
<1>8. QED
  BY <1>5, <1>6, <1>7

LEMMA ReturnKeeps ==
  ASSUME SoundFunctions(Prototypes), IInv, Return
  PROVE  IInv'
<1> DEFINE n == IF I.B = 0 THEN top - R(I.A) ELSE I.B - 1
           vs == Slots(R(I.A), n)
<1>1. status = "run" /\ F.falo /\ I.i = "RET"
  BY RunningFacts DEF Return
<1>2. cells' = CloseFrom(cells, F.base) /\ Leave(vs) /\ heap' = heap
  BY DEF Return
<1>3. /\ I.A \in Nat /\ I.B \in Nat /\ P.nstack \in Nat /\ (I.B > 0 => I.A + I.B - 1 <= P.nstack)
  <2>1. /\ I.A \in Nat /\ I.B \in Nat /\ RangesSound(P, I) /\ P.nstack \in Nat
    BY <1>1, Scripted
  <2>2. QED
    BY <1>1, <2>1 DEF RangesSound
<1>4. /\ F.base \in Nat /\ F.fun \in Nat /\ F.fun < F.base /\ top \in Nat /\ top <= StackSize /\ StackSize \in Nat
      /\ F.base + P.nstack <= StackSize
  <2>1. F.base \in Nat /\ F.fun \in Nat /\ F.fun < F.base /\ top \in Nat /\ top <= StackSize /\ StackSize \in Nat
    BY <1>1, Here
  <2>2. F.top = F.base + P.nstack /\ F.top <= StackSize
    BY <1>1, Scripted
  <2>3. QED
    BY <2>1, <2>2
<1>5. R(I.A) = F.base + I.A /\ R(I.A) \in Nat /\ F.base <= R(I.A)
  <2>1. R(I.A) = F.base + I.A
    BY DEF R
  <2>2. QED
    BY <1>3, <1>4, <2>1
<1>6. n \in Nat /\ R(I.A) + n <= StackSize
  <2>1. CASE I.B # 0
    <3> DEFINE m == I.B - 1
    <3>1. m \in Nat /\ I.A + m <= P.nstack
      BY <1>3, <2>1
    <3>2. n = m
      BY <2>1
    <3> HIDE DEF n, m
    <3>3. F.base + I.A + m <= StackSize
      BY <1>3, <1>4, <3>1, InFrame
    <3>4. QED
      BY <1>5, <3>1, <3>2, <3>3
  <2>2. CASE I.B = 0
    <3>1. Takes(I) /\ Least(I) = I.A
      BY <1>1, <2>2 DEF Takes, Least
    <3>2. F.base + I.A <= top
      BY <1>1, <3>1 DEF IInv, TopOK, P, I
    <3>3. n = top - R(I.A)
      BY <2>2
    <3> HIDE DEF n
    <3>4. QED
      BY <1>4, <1>5, <3>2, <3>3
  <2>3. QED
    BY <2>1, <2>2
<1> HIDE DEF n
<1>7. StackOK(stk, Len(cells), heap) /\ HeapOK(heap, Len(cells))
  BY <1>1 DEF IInv
<1>8. IsSeq(vs) /\ Len(vs) = n /\ ValuesOK(vs, Len(cells), heap)
  <2>1. R(I.A) + n <= StackSize + 1
    BY <1>4, <1>5, <1>6
  <2>2. QED
    BY <1>5, <1>6, <1>7, <2>1, Sliced
<1> HIDE DEF vs
<1>9. F.fun + Len(vs) <= StackSize
  BY <1>4, <1>5, <1>6, <1>8
<1>10. /\ CellsOK(cells', heap') /\ HeapOK(heap', Len(cells)) /\ Grows(heap, heap')
       /\ Len(cells') = Len(cells)
       /\ FramesOK(Front(frames), Len(cells)) /\ CapturesOK(Front(frames), cells')
       /\ Len(Front(frames)) \in Nat
       /\ Len(Front(frames)) > 0 => /\ Called(Last(Front(frames)), F)
                                    /\ FrameOK(Last(Front(frames)), Len(cells))
  BY <1>1, <1>2, <1>7, FrameShut, SameHeapGrows
<1>11. QED
  BY <1>1, <1>2, <1>8, <1>9, <1>10, Left

(* A native function returns: no capture is its.                           *)
LEMMA NativeLeft ==
  ASSUME SoundFunctions(Prototypes), IInv, status = "run", ~F.falo,
         NEW vs, Leave(vs), IsSeq(vs), ValuesOK(vs, Len(cells), heap), F.fun + Len(vs) <= StackSize,
         cells' = cells, HeapOK(heap', Len(cells)), Grows(heap, heap')
  PROVE  IInv'
<1>1. CellsOK(cells, heap) /\ CapturesOK(frames, cells) /\ Len(cells) \in Nat /\ DOMAIN cells = 1 .. Len(cells)
  BY Here DEF IInv
<1>2. \A c \in DOMAIN cells : cells[c].at \in Int
  <2>1. \A c \in DOMAIN cells : cells[c].at \in -1 .. StackSize
    BY <1>1 DEF CellsOK, CellOK
  <2>2. \A a : a \in -1 .. StackSize => a \in Int
    BY StackAssumption
  <2>3. QED
    BY <2>1, <2>2
<1>3. /\ FramesOK(Front(frames), Len(cells)) /\ CapturesOK(Front(frames), cells)
      /\ Len(Front(frames)) \in Nat
      /\ Len(Front(frames)) > 0 => /\ Called(Last(Front(frames)), F)
                                   /\ FrameOK(Last(Front(frames)), Len(cells))
  BY <1>1, <1>2, FrameLeft
<1>4. CellsOK(cells', heap') /\ Len(cells') = Len(cells) /\ CapturesOK(Front(frames), cells')
  <2>1. Len(cells) <= Len(cells)
    BY <1>1
  <2>2. CellsOK(cells, heap')
    BY <1>1, <2>1, CellKept DEF CellsOK
  <2>3. QED
    BY <1>3, <2>2
<1>5. QED
  BY <1>3, <1>4, Left

LEMMA ArgsOK ==
  ASSUME IInv, status = "run", ~F.falo
  PROVE  IsSeq(Args) /\ ValuesOK(Args, Len(cells), heap) /\ F.fun + Len(Args) <= StackSize
<1> DEFINE n == top - F.base
<1>1. /\ F.base \in Nat /\ F.fun \in Nat /\ F.fun < F.base /\ top \in Nat /\ F.base <= top
      /\ top <= StackSize /\ StackSize \in Nat
  BY Here
<1>2. n \in Nat /\ F.base + n <= StackSize + 1 /\ F.fun + n <= StackSize
  BY <1>1
<1>3. Args = Slots(F.base, n) /\ StackOK(stk, Len(cells), heap)
  BY DEF Args, IInv
<1> HIDE DEF n
<1>4. QED
  BY <1>1, <1>2, <1>3, Sliced

LEMMA EchoReturnsKeeps ==
  ASSUME SoundFunctions(Prototypes), IInv, EchoReturns
  PROVE  IInv'
<1>1. status = "run" /\ ~F.falo /\ Leave(Args) /\ cells' = cells /\ heap' = heap
  BY DEF EchoReturns, Native
<1>2. HeapOK(heap', Len(cells)) /\ Grows(heap, heap')
  BY <1>1, SameHeapGrows DEF IInv
<1>3. QED
  BY <1>1, <1>2, ArgsOK, NativeLeft

LEMMA ApplyReturnsKeeps ==
  ASSUME SoundFunctions(Prototypes), IInv, ApplyReturns
  PROVE  IInv'
<1>1. status = "run" /\ ~F.falo /\ Leave(Args) /\ cells' = cells /\ heap' = heap
  BY DEF ApplyReturns, Native
<1>2. HeapOK(heap', Len(cells)) /\ Grows(heap, heap')
  BY <1>1, SameHeapGrows DEF IInv
<1>3. QED
  BY <1>1, <1>2, ArgsOK, NativeLeft

LEMMA OneValue ==
  ASSUME NEW a, NEW n, NEW h, ValueOK(a, n, h)
  PROVE  IsSeq(<<a>>) /\ Len(<<a>>) = 1 /\ ValuesOK(<<a>>, n, h)
<1>1. <<a>> \in Seq({a}) /\ Len(<<a>>) = 1 /\ DOMAIN <<a>> = {1} /\ <<a>>[1] = a
  OBVIOUS
<1>2. QED
  BY <1>1 DEF IsSeq, ValuesOK

LEMMA TwoValues ==
  ASSUME NEW a, NEW b, NEW n, NEW h, ValueOK(a, n, h), ValueOK(b, n, h)
  PROVE  IsSeq(<<a, b>>) /\ Len(<<a, b>>) = 2 /\ ValuesOK(<<a, b>>, n, h)
<1>1. <<a, b>> \in Seq({a, b}) /\ Len(<<a, b>>) = 2 /\ DOMAIN <<a, b>> = {1, 2}
  OBVIOUS
<1>2. <<a, b>>[1] = a /\ <<a, b>>[2] = b
  OBVIOUS
<1>3. QED
  BY <1>1, <1>2 DEF IsSeq, ValuesOK

LEMMA NoValues ==
  ASSUME NEW n, NEW h
  PROVE  IsSeq(<<>>) /\ Len(<<>>) = 0 /\ ValuesOK(<<>>, n, h)
<1>1. <<>> \in Seq({}) /\ Len(<<>>) = 0 /\ DOMAIN <<>> = {}
  OBVIOUS
<1>2. QED
  BY <1>1 DEF IsSeq, ValuesOK

LEMMA IteratorReturnsKeeps ==
  ASSUME SoundFunctions(Prototypes), IInv, IteratorReturns
  PROVE  IInv'
<1> DEFINE n == Len(cells)
           id == stk[F.fun][2]
           v == heap[id].in
           keys == IF v[1] = "tab" THEN SetToSeq(DOMAIN heap[v[2]].map) ELSE <<>>
           items == IF v[1] = "tab" THEN [i \in DOMAIN keys |-> <<keys[i], Entry(v[2], keys[i])>>]
                    ELSE [i \in DOMAIN Elements(v) |-> <<Elements(v)[i]>>]
           off == heap[id].off + 1
           next == IF off >= Len(items) THEN Len(items) ELSE off
           vs == IF off >= Len(items) THEN <<>> ELSE items[off + 1]
<1>1. /\ status = "run" /\ ~F.falo /\ stk[F.fun][1] = "iter"
      /\ heap' = [heap EXCEPT ![id].off = next] /\ Leave(vs) /\ cells' = cells
  BY DEF IteratorReturns, Native
<1>2. /\ F.fun \in Nat /\ F.fun + 2 <= StackSize /\ StackSize \in Nat /\ n \in Nat
      /\ HeapOK(heap, n) /\ StackOK(stk, n, heap)
  BY ZenonT(40), <1>1, Here DEF FrameOK, IInv
<1>3. id \in DOMAIN heap /\ heap[id].kind = "iter"
  <2>1. F.fun \in 0 .. StackSize
    BY <1>2
  <2>2. ValueOK(stk[F.fun], n, heap)
    BY <1>2, <2>1 DEF StackOK
  <2>3. QED
    BY <1>1, <2>2 DEF ValueOK
<1>4. /\ heap[id] = [kind |-> "iter", in |-> v, off |-> heap[id].off]
      /\ heap[id].off \in Int /\ -1 <= heap[id].off /\ IsCol(v) /\ ValueOK(v, n, heap)
  BY SMTT(30), <1>2, <1>3 DEF HeapOK, ObjectOK
<1> HIDE DEF id, v
<1>5. /\ IsSeq(items)
      /\ \A i \in DOMAIN items : IsSeq(items[i]) /\ Len(items[i]) \in {1, 2} /\ ValuesOK(items[i], n, heap)
  <2>1. CASE v[1] = "tab"
    <3> DEFINE map == heap[v[2]].map
    <3>1. v[2] \in DOMAIN heap /\ heap[v[2]].kind = "tab"
      BY <1>4, <2>1 DEF ValueOK
    <3>2. IsFiniteSet(DOMAIN map) /\ \A k \in DOMAIN map : ValueOK(k, n, heap)
      BY <1>2, <3>1 DEF HeapOK, ObjectOK
    <3>3. keys = SetToSeq(DOMAIN map)
      BY <2>1
    <3> HIDE DEF map, keys
    <3>4. IsSeq(keys) /\ \A i \in DOMAIN keys : keys[i] \in DOMAIN map
      BY <3>2, <3>3, Enumeration
    <3>5. Len(keys) \in Nat /\ DOMAIN keys = 1 .. Len(keys)
      BY <3>4, SeqFacts
    <3>6. items = [i \in 1 .. Len(keys) |-> <<keys[i], Entry(v[2], keys[i])>>]
      BY <2>1, <3>5
    <3> HIDE DEF items
    <3>7. items = [i \in 1 .. Len(keys) |-> items[i]]
      BY <3>6
    <3>8. IsSeq(items) /\ DOMAIN items = 1 .. Len(keys)
      BY <3>5, <3>7, FunctionFacts
    <3>9. ASSUME NEW i \in 1 .. Len(keys)
          PROVE  IsSeq(items[i]) /\ Len(items[i]) = 2 /\ ValuesOK(items[i], n, heap)
      <4>1. ValueOK(keys[i], n, heap)
        BY <3>2, <3>4, <3>5
      <4>2. ValueOK(Entry(v[2], keys[i]), n, heap)
        BY <1>2, <1>4, <2>1, EntryOK
      <4>3. items[i] = <<keys[i], Entry(v[2], keys[i])>>
        BY <3>6
      <4> DEFINE a == keys[i]
                 b == Entry(v[2], keys[i])
      <4> HIDE DEF a, b
      <4>4. IsSeq(<<a, b>>) /\ Len(<<a, b>>) = 2 /\ ValuesOK(<<a, b>>, n, heap)
        BY <4>1, <4>2, TwoValues DEF a, b
      <4>5. QED
        BY <4>3, <4>4 DEF a, b
    <3>10. QED
      BY <3>8, <3>9
  <2>2. CASE v[1] # "tab"
    <3> DEFINE s == Elements(v)
    <3>1. IsSeq(s) /\ ValuesOK(s, n, heap)
      BY <1>2, <1>4, <2>2, ElementsOK DEF IsCol
    <3>2. items = [i \in DOMAIN s |-> <<s[i]>>]
      BY <2>2
    <3> HIDE DEF s, items
    <3>3. Len(s) \in Nat /\ DOMAIN s = 1 .. Len(s)
      BY <3>1, SeqFacts
    <3>4. items = [i \in 1 .. Len(s) |-> items[i]]
      BY <3>2, <3>3
    <3>5. IsSeq(items) /\ DOMAIN items = 1 .. Len(s)
      BY <3>3, <3>4, FunctionFacts
    <3>6. ASSUME NEW i \in 1 .. Len(s)
          PROVE  IsSeq(items[i]) /\ Len(items[i]) = 1 /\ ValuesOK(items[i], n, heap)
      <4> DEFINE a == s[i]
      <4>1. ValueOK(a, n, heap)
        BY <3>1, <3>3 DEF ValuesOK
      <4>2. items[i] = <<a>>
        BY <3>2, <3>3
      <4> HIDE DEF a
      <4>3. IsSeq(<<a>>) /\ Len(<<a>>) = 1 /\ ValuesOK(<<a>>, n, heap)
        BY <4>1, OneValue
      <4>4. QED
        BY <4>2, <4>3
    <3>7. QED
      BY <3>5, <3>6
  <2>3. QED
    BY <2>1, <2>2
<1> HIDE DEF items
<1>6. Len(items) \in Nat /\ DOMAIN items = 1 .. Len(items)
  BY <1>5, SeqFacts
<1>7. off \in Nat
  BY <1>4
<1> HIDE DEF off
<1>8. IsSeq(vs) /\ ValuesOK(vs, n, heap) /\ F.fun + Len(vs) <= StackSize
  <2>1. CASE off >= Len(items)
    <3>1. vs = <<>>
      BY <2>1
    <3> HIDE DEF vs
    <3>2. IsSeq(vs) /\ Len(vs) = 0 /\ ValuesOK(vs, n, heap)
      BY <3>1, NoValues
    <3>3. QED
      BY <1>2, <3>2
  <2>2. CASE ~(off >= Len(items))
    <3>1. vs = items[off + 1] /\ off + 1 \in DOMAIN items
      BY <1>6, <1>7, <2>2
    <3> HIDE DEF vs
    <3>2. IsSeq(vs) /\ Len(vs) \in {1, 2} /\ ValuesOK(vs, n, heap)
      BY <1>5, <3>1
    <3>3. \A a, s \in Nat, m \in {1, 2} : a + 2 <= s => a + m <= s
      OBVIOUS
    <3>4. F.fun + Len(vs) <= StackSize
      BY <1>2, <3>2, <3>3
    <3>5. QED
      BY <3>2, <3>4
  <2>3. QED
    BY <2>1, <2>2
<1>9. next \in Int /\ -1 <= next
  BY <1>6, <1>7
<1> HIDE DEF next, vs
<1>10. HeapOK(heap', n) /\ Grows(heap, heap')
  <2> DEFINE o == [heap[id] EXCEPT !.off = next]
  <2>1. o = [kind |-> "iter", in |-> v, off |-> next]
    BY <1>4
  <2>2. heap' = [heap EXCEPT ![id] = o]
    BY <1>1
  <2> HIDE DEF o
  <2>3. o.kind = "iter" /\ o.in = v /\ o.off = next /\ o = [kind |-> "iter", in |-> o.in, off |-> o.off]
    BY <2>1
  <2>4. ObjectOK(o, n, heap) /\ o.kind = heap[id].kind
    BY <1>3, <1>4, <1>9, <2>3 DEF ObjectOK
  <2>5. QED
    BY <1>2, <1>3, <2>2, <2>4, HeapChanged
<1>11. QED
  BY <1>1, <1>8, <1>10, NativeLeft

------------------------------------------------------------------------------
(* The interpreter on a program of functions in Prototypes.                *)

Plain(v) == v[1] \notin {"fun", "tab", "lis", "tup", "iter"}
PlainMap(map) == IsFiniteSet(DOMAIN map) /\ \A k \in DOMAIN map : Plain(k) /\ Plain(map[k])

MachineInit ==
    /\ main \in Prototypes /\ Len(main.caps) = 1
    /\ \E globals : PlainMap(globals) /\ Start(main, globals)
MachineSpec == MachineInit /\ [][Step]_vmvars

LEMMA InitHolds ==
  ASSUME SoundFunctions(Prototypes), MachineInit
  PROVE  IInv
<1> DEFINE p == main
           e == [at |-> -1, v |-> <<"tab", 1>>]
           f == ScriptFrame(p, <<1>>, 1, 0, MULTIRET)
           v == <<"fun", p, <<1>>>>
<1>1. PICK globals : PlainMap(globals) /\ Start(main, globals)
  BY DEF MachineInit
<1> DEFINE o == [kind |-> "tab", map |-> globals]
<1>2. /\ cells = <<e>> /\ heap = <<o>> /\ frames = <<f>> /\ top = 1 + p.nstack
      /\ stk = [i \in 0 .. StackSize |-> IF i = 0 THEN v ELSE Nil]
  BY <1>1 DEF Start
<1>3. p \in Prototypes /\ Len(p.caps) = 1 /\ FunctionSound(p, Prototypes)
  BY DEF MachineInit, SoundFunctions
<1>4. /\ p.nstack \in Nat /\ 1 + p.nstack <= StackSize /\ StackSize \in Nat /\ Leads(p, 1)
      /\ DOMAIN p.caps = 1 .. 1
  BY <1>3, StackAssumption, MaxStackAssumption DEF FunctionSound
<1>5. Len(<<1>>) = 1 /\ DOMAIN <<1>> = 1 .. 1 /\ <<1>>[1] = 1
  OBVIOUS
<1>6. IsSeq(cells) /\ Len(cells) = 1 /\ DOMAIN cells = 1 .. 1 /\ cells[1] = e
  <2> HIDE DEF e
  <2>1. <<e>> \in Seq({e}) /\ Len(<<e>>) = 1 /\ DOMAIN <<e>> = 1 .. 1 /\ <<e>>[1] = e
    OBVIOUS
  <2>2. QED
    BY <1>2, <2>1 DEF IsSeq
<1>7. IsSeq(heap) /\ Len(heap) = 1 /\ DOMAIN heap = 1 .. 1 /\ heap[1] = o
  <2> HIDE DEF o
  <2>1. <<o>> \in Seq({o}) /\ Len(<<o>>) = 1 /\ DOMAIN <<o>> = 1 .. 1 /\ <<o>>[1] = o
    OBVIOUS
  <2>2. QED
    BY <1>2, <2>1 DEF IsSeq
<1>8. IsSeq(frames) /\ Len(frames) = 1 /\ DOMAIN frames = 1 .. 1 /\ frames[1] = f
  <2> HIDE DEF f
  <2>1. <<f>> \in Seq({f}) /\ Len(<<f>>) = 1 /\ DOMAIN <<f>> = 1 .. 1 /\ <<f>>[1] = f
    OBVIOUS
  <2>2. QED
    BY <1>2, <2>1 DEF IsSeq
<1>9. F = f
  BY <1>8 DEF F, Last
<1>10. o.kind = "tab" /\ o.map = globals /\ o = [kind |-> "tab", map |-> o.map]
  OBVIOUS
<1>11. HeapOK(heap, 1)
  <2>1. \A k \in DOMAIN globals : ValueOK(k, 1, heap) /\ ValueOK(globals[k], 1, heap)
    BY <1>1, PlainOK DEF PlainMap, Plain
  <2> HIDE DEF o
  <2>2. ObjectOK(o, 1, heap)
    BY <1>1, <1>10, <2>1 DEF ObjectOK, PlainMap
  <2>3. QED
    BY <1>7, <2>2 DEF HeapOK
<1>12. CellsOK(cells, heap) /\ e.at = -1
  <2>1. e.at = -1 /\ e.v = <<"tab", 1>> /\ -1 \in -1 .. StackSize
    BY <1>4
  <2>2. e = [at |-> e.at, v |-> e.v] /\ e.v[1] = "tab" /\ e.v[2] = 1
    BY <2>1
  <2>3. heap[1].kind = "tab" /\ 1 \in DOMAIN heap
    BY <1>7, <1>10
  <2> HIDE DEF e, o
  <2>4. ValueOK(e.v, 1, heap)
    BY <2>2, <2>3 DEF ValueOK
  <2>5. CellOK(e, 1, heap)
    BY <2>1, <2>2, <2>4 DEF CellOK
  <2>6. QED
    BY <1>6, <2>1, <2>5 DEF CellsOK
<1>13. StackOK(stk, 1, heap)
  <2>1. v[1] = "fun" /\ v[2] = p /\ v[3] = <<1>>
    OBVIOUS
  <2> HIDE DEF v
  <2>2. ValueOK(v, 1, heap)
    BY <1>3, <1>4, <1>5, <2>1 DEF ValueOK
  <2>3. QED
    BY <1>2, <2>2, NilOK DEF StackOK
<1>14. /\ f.falo = TRUE /\ f.proto = p /\ f.caps = <<1>> /\ f.fun = 0 /\ f.base = 1
       /\ f.top = 1 + p.nstack /\ f.pc = 0 /\ f.nres = -1 /\ f.tail = FALSE
       /\ f = [falo |-> f.falo, proto |-> f.proto, caps |-> f.caps, fun |-> f.fun, base |-> f.base,
               top |-> f.top, pc |-> f.pc, nres |-> f.nres, tail |-> f.tail]
  BY DEF ScriptFrame, MULTIRET
<1> HIDE DEF f, e, o, v, p
<1>15. FrameOK(f, 1)
  <2>1. f.falo \in BOOLEAN /\ f.tail \in BOOLEAN /\ f.falo /\ ~f.tail
    BY <1>14
  <2>2. f.fun \in Nat /\ f.base \in Nat /\ f.fun < f.base /\ f.pc \in Nat /\ f.nres \in Int /\ MULTIRET <= f.nres
    BY <1>14 DEF MULTIRET
  <2>3. /\ f.proto \in Prototypes /\ f.top = f.base + f.proto.nstack /\ f.top <= StackSize
        /\ Len(f.caps) = Len(f.proto.caps) /\ DOMAIN f.caps = 1 .. Len(f.proto.caps)
        /\ \A c \in DOMAIN f.caps : f.caps[c] \in 1 .. 1
    BY <1>3, <1>4, <1>5, <1>14
  <2>4. QED
    BY <1>14, <2>1, <2>2, <2>3 DEF FrameOK
<1>16. FramesOK(frames, 1)
  <2>1. \A k \in 1 .. 1 : k + 1 \notin 1 .. 1
    OBVIOUS
  <2>2. QED
    BY <1>8, <1>15, <2>1 DEF FramesOK
<1>17. TopOK(f, top)
  <2>1. f.pc + 1 = 1 /\ top \in Nat /\ f.base <= top /\ top <= StackSize /\ top = f.top
    BY <1>2, <1>4, <1>14 DEF p
  <2>2. QED
    BY <1>4, <1>14, <2>1 DEF TopOK, Leads
<1>18. CapturesOK(frames, cells)
  <2>1. \A c \in 1 .. 1 : c = 1 /\ ~(cells[c].at >= 0)
    BY <1>6, <1>12
  <2>2. QED
    BY <1>6, <2>1 DEF CapturesOK
<1>19. QED
  BY <1>6, <1>8, <1>9, <1>11, <1>12, <1>13, <1>16, <1>17, <1>18 DEF IInv

LEMMA Keeps ==
  ASSUME SoundFunctions(Prototypes), IInv, [Step]_vmvars
  PROVE  IInv'
<1>1. CASE UNCHANGED vmvars
  BY <1>1 DEF vmvars, IInv, F
<1>2. CASE Step
  <2>1. CASE Evaluate \/ LoadNils \/ LoadExtra \/ LoadFunction
    BY <2>1, EvaluateKeeps, LoadNilsKeeps, LoadExtraKeeps, LoadFunctionKeeps
  <2>2. CASE NewTuple \/ NewObject \/ SetItem \/ RemoveItem \/ Spread \/ Concat
    BY <2>2, NewTupleKeeps, NewObjectKeeps, SetItemKeeps, RemoveItemKeeps, SpreadKeeps, ConcatKeeps
  <2>3. CASE Jump \/ JumpIf \/ CompareJumps
    BY <2>3, JumpKeeps, JumpIfKeeps, CompareJumpsKeeps
  <2>4. CASE Call \/ TailCallFunction \/ CallIterator \/ NewIterator \/ Return
    BY <2>4, CallKeeps, TailCallKeeps, CallIteratorKeeps, NewIteratorKeeps, ReturnKeeps
  <2>5. CASE EchoReturns \/ ApplyCalls \/ ApplyReturns \/ IteratorReturns
    BY <2>5, EchoReturnsKeeps, ApplyCallsKeeps, ApplyReturnsKeeps, IteratorReturnsKeeps
  <2>6. QED
    BY <1>2, <2>1, <2>2, <2>3, <2>4, <2>5 DEF Step
<1>3. QED
  BY <1>1, <1>2

(* Only a copy of extra arguments can go past the stack.                   *)
LEMMA NoOverrun ==
  ASSUME SoundFunctions(Prototypes), IInv, status # "overrun", [Step]_vmvars
  PROVE  status' # "overrun"
<1>1. CASE UNCHANGED vmvars
  BY <1>1 DEF vmvars
<1>2. Raise => status' # "overrun"
  BY DEF Raise
<1>3. CASE Evaluate \/ LoadNils \/ LoadFunction
  BY <1>2, <1>3 DEF Evaluate, LoadNils, LoadFunction
<1>4. CASE LoadExtra
  BY <1>4, LoadExtraKeeps
<1>5. CASE NewTuple \/ NewObject \/ SetItem \/ RemoveItem \/ Spread \/ Concat
  BY <1>2, <1>5 DEF NewTuple, NewObject, SetItem, RemoveItem, Spread, Concat
<1>6. CASE Jump \/ JumpIf \/ CompareJumps \/ NewIterator
  BY <1>2, <1>6 DEF Jump, JumpIf, CompareJumps, NewIterator
<1>7. CASE Call \/ TailCallFunction \/ CallIterator \/ ApplyCalls
  <2>1. \A fs, s, t, fun, nres, tail : Enter(fs, s, t, fun, nres, tail) => status' # "overrun"
    BY DEF Enter
  <2>2. QED
    BY <1>2, <1>7, <2>1 DEF Call, TailCallFunction, CallIterator, ApplyCalls
<1>8. CASE Return \/ EchoReturns \/ ApplyReturns \/ IteratorReturns
  <2>1. \A vs : Leave(vs) => status' # "overrun"
    BY DEF Leave
  <2>2. QED
    BY <1>8, <2>1 DEF Return, EchoReturns, ApplyReturns, IteratorReturns
<1>9. QED
  BY <1>1, <1>3, <1>4, <1>5, <1>6, <1>7, <1>8 DEF Step

LEMMA IInvStays ==
  ASSUME IInv, status # "overrun"
  PROVE  StaysInFrame
<1> SUFFICES ASSUME status = "run" PROVE StaysInFrame
  BY DEF StaysInFrame
<1>1. TopOK(F, top) /\ FrameOK(F, Len(cells))
  BY Here DEF IInv
<1>2. DOMAIN cells = 1 .. Len(cells)
  BY Here
<1>3. top <= StackSize /\ F.base <= top
  BY Here
<1>4. F.falo => /\ F.pc + 1 \in DOMAIN P.code
                /\ \/ top = F.top
                   \/ F.pc > 0 /\ Waits(P.code[F.pc])
                   \/ HasConcat(P)
  BY <1>1 DEF TopOK, P
<1>5. F.falo => /\ F.top = F.base + P.nstack /\ F.top <= StackSize
                /\ Len(F.caps) = Len(P.caps) /\ \A c \in DOMAIN F.caps : F.caps[c] \in DOMAIN cells
  BY <1>1, <1>2 DEF FrameOK, P
<1>6. QED
  BY <1>3, <1>4, <1>5 DEF StaysInFrame

LEMMA IInvCaptures ==
  ASSUME IInv
  PROVE  CapturesInFrames
BY DEF IInv, CapturesInFrames, CapturesOK, Owned, Open

(* The interpreter checks nothing of the code it runs (aeval.c).  When the *)
(* compiler has made the functions as SoundCode asks, the interpreter goes *)
(* from instruction to instruction of the function that runs, uses its     *)
(* registers, its captures and the stack only, never copies extra          *)
(* arguments past the stack it has made sure of, and finds T->top where    *)
(* the next instruction expects it, whatever functions call, return to,    *)
(* tail call and iterate over each other, and whenever the collector runs. *)
THEOREM InterpreterStays ==
  ASSUME SoundFunctions(Prototypes)
  PROVE  MachineSpec => []StaysInFrame
<1> DEFINE Inv == IInv /\ status # "overrun"
<1>1. MachineInit => Inv
  BY InitHolds DEF MachineInit, Start
<1>2. Inv /\ [Step]_vmvars => Inv'
  BY Keeps, NoOverrun
<1>3. Inv => StaysInFrame
  BY IInvStays
<1> HIDE DEF Inv
<1>4. QED
  BY <1>1, <1>2, <1>3, PTL DEF MachineSpec

(* An open capture (aloF_find) is a captured register of a script frame    *)
(* that is still on the stack, and no register has two, so that the        *)
(* closures that share a variable share its cell; when a function is left, *)
(* tail calls another or a block is left by a jump, aloF_close has closed  *)
(* every capture of the slots given up.                                    *)
THEOREM CapturesStay ==
  ASSUME SoundFunctions(Prototypes)
  PROVE  MachineSpec => []CapturesInFrames
<1>1. MachineInit => IInv
  BY InitHolds
<1>2. IInv /\ [Step]_vmvars => IInv'
  BY Keeps
<1>3. IInv => CapturesInFrames
  BY IInvCaptures
<1>4. QED
  BY <1>1, <1>2, <1>3, PTL DEF MachineSpec
==============================================================================
