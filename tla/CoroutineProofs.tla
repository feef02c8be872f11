--------------------------- MODULE CoroutineProofs ---------------------------
(***************************************************************************)
(* Proofs about Coroutine, for every set of threads and every limit.       *)
(*                                                                         *)
(* What an activation has saved is right for the stack under it (Placed),  *)
(* so it is still right after any number of activations above it have been *)
(* left, by returns or by a jump.  The rest of the invariant relates the   *)
(* threads that wait in the chain of callers, and the running one, to the  *)
(* activations they own.                                                   *)
(***************************************************************************)
EXTENDS Coroutine, StackProofs

-----------------------------------------------------------------------------
(* What holds of the C stack by itself.                                    *)

(* How many activations of t cannot be yielded across.                     *)
Count(s, t) == Cardinality({i \in DOMAIN s : s[i].thread = t /\ s[i].noyield})

(* InControl, for any stack.                                               *)
Chain(s) == {Main} \cup {s[i].thread : i \in {j \in DOMAIN s : s[j].fn = "resume"}}

(* t is the thread that runs above the stack s.                            *)
Runs(t, s) ==
  /\ t = IF s = <<>> THEN Main ELSE s[1].thread
  /\ t \in Chain(s)
  /\ \A i \in DOMAIN s : (\A j \in 1..(i - 1) : s[j].fn # "resume") => s[i].thread = t

(* The activation a is right for the stack s under it.                     *)
Placed(a, s) ==
  /\ Runs(a.from, s)
  /\ a.fn = "resume" => a.thread \notin Chain(s) /\ ~a.noyield /\ a.nccall = Len(s) + 1
  /\ a.fn # "resume" => a.thread = a.from /\ a.nccall = Len(s) /\ a.nxyield = Count(s, a.thread)
  /\ a.fn = "pcall" => a.noyield
  /\ \A i \in DOMAIN s : s[i].fn # "resume" /\ s[i].thread = a.from => s[i].depth < a.depth
  /\ s = <<>> => a.depth = 0
  /\ a.fn # "handler" /\ a.depth = 0 => a.from = Main

StackOK(s) == \A i \in DOMAIN s : Placed(s[i], Under(s, i))

LEMMA StackPushed ==
  ASSUME NEW s \in Seq(ActSet), NEW a \in ActSet, StackOK(s), Placed(a, s)
  PROVE  StackOK(<<a>> \o s)
<1> DEFINE p == <<a>> \o s
<1>1. Len(s) \in Nat /\ Len(p) = Len(s) + 1 /\ p[1] = a
      /\ DOMAIN s = 1..Len(s) /\ DOMAIN p = 1..Len(p)
      /\ \A i \in 1..Len(s) : p[i + 1] = s[i]
  BY Pushed
<1>2. Under(p, 1) = s
  BY <1>1, PushedUnder, UnderNothing
<1>3. ASSUME NEW i \in DOMAIN p, i # 1
      PROVE  Placed(p[i], Under(p, i))
  <2>1. i - 1 \in 1..Len(s) /\ (i - 1) + 1 = i
    BY <1>1, <1>3
  <2>2. p[i] = s[i - 1] /\ Under(p, i) = Under(s, i - 1)
    BY <1>1, <2>1, PushedUnder
  <2>3. QED
    BY <1>1, <2>1, <2>2 DEF StackOK
<1>4. QED
  BY <1>1, <1>2, <1>3 DEF StackOK

LEMMA StackCut ==
  ASSUME NEW s \in Seq(ActSet), StackOK(s), NEW k \in 0..Len(s)
  PROVE  StackOK(Under(s, k))
<1>1. Len(s) \in Nat /\ DOMAIN s = 1..Len(s)
  OBVIOUS
<1>2. /\ DOMAIN Under(s, k) = 1..(Len(s) - k)
      /\ \A i \in 1..(Len(s) - k) : Under(s, k)[i] = s[i + k] /\ i + k \in 1..Len(s)
      /\ \A i \in 1..(Len(s) - k) : Under(Under(s, k), i) = Under(s, i + k)
  BY <1>1, Cut
<1>3. QED
  BY <1>1, <1>2 DEF StackOK

LEMMA ChainPushed ==
  ASSUME NEW s \in Seq(ActSet), NEW a \in ActSet
  PROVE  Chain(<<a>> \o s) = IF a.fn = "resume" THEN Chain(s) \cup {a.thread} ELSE Chain(s)
<1> DEFINE p == <<a>> \o s
<1>1. Len(s) \in Nat /\ Len(p) = Len(s) + 1 /\ p[1] = a
      /\ DOMAIN s = 1..Len(s) /\ DOMAIN p = 1..Len(p)
      /\ \A i \in 1..Len(s) : p[i + 1] = s[i]
  BY Pushed
<1>2. \A i \in 1..Len(s) : i + 1 \in DOMAIN p /\ p[i + 1] = s[i]
  BY <1>1
<1>3. \A i \in DOMAIN p : i = 1 \/ (i - 1 \in DOMAIN s /\ p[i] = s[i - 1])
  BY <1>1
<1>4. 1 \in DOMAIN p
  BY <1>1
<1> HIDE DEF p
<1>5. ASSUME NEW x, x \in Chain(p) PROVE x \in Chain(s) \/ (a.fn = "resume" /\ x = a.thread)
  BY <1>1, <1>3, <1>5 DEF Chain
<1>6. Chain(s) \subseteq Chain(p)
  BY <1>2 DEF Chain
<1>7. a.fn = "resume" => a.thread \in Chain(p)
  BY <1>1, <1>4 DEF Chain
<1>8. Chain(p) = IF a.fn = "resume" THEN Chain(s) \cup {a.thread} ELSE Chain(s)
  BY <1>5, <1>6, <1>7
<1>9. QED
  BY <1>8 DEF p

LEMMA ChainCut ==
  ASSUME NEW s \in Seq(ActSet), NEW k \in 0..Len(s)
  PROVE  Chain(Under(s, k)) \subseteq Chain(s)
<1>1. Len(s) \in Nat /\ DOMAIN s = 1..Len(s)
  OBVIOUS
<1>2. /\ DOMAIN Under(s, k) = 1..(Len(s) - k)
      /\ \A i \in 1..(Len(s) - k) : Under(s, k)[i] = s[i + k] /\ i + k \in 1..Len(s)
  BY <1>1, Cut
<1>3. QED
  BY <1>1, <1>2 DEF Chain

LEMMA RunsPushed ==
  ASSUME NEW s \in Seq(ActSet), NEW a \in ActSet, Placed(a, s)
  PROVE  Runs(a.thread, <<a>> \o s)
<1> DEFINE p == <<a>> \o s
<1>1. Len(s) \in Nat /\ Len(p) = Len(s) + 1 /\ p[1] = a /\ p # <<>>
      /\ DOMAIN s = 1..Len(s) /\ DOMAIN p = 1..Len(p)
      /\ \A i \in 1..Len(s) : p[i + 1] = s[i]
  BY Pushed
<1>2. a.thread \in Chain(p)
  BY ChainPushed DEF Placed, Runs
<1>3. ASSUME NEW i \in DOMAIN p, \A j \in 1..(i - 1) : p[j].fn # "resume", i # 1
      PROVE  p[i].thread = a.thread
  <2>1. i - 1 \in DOMAIN s /\ p[i] = s[i - 1]
    BY <1>1, <1>3
  <2>2. a.fn # "resume"
    BY <1>1, <1>3
  <2>3. ASSUME NEW j \in 1..((i - 1) - 1) PROVE s[j].fn # "resume"
    <3>1. j + 1 \in 1..(i - 1) /\ j \in 1..Len(s)
      BY <1>1, <2>1
    <3>2. QED
      BY <1>1, <1>3, <3>1
  <2>4. QED
    BY <2>1, <2>2, <2>3 DEF Placed, Runs
<1>4. QED
  BY <1>1, <1>2, <1>3 DEF Runs

LEMMA CountPushed ==
  ASSUME NEW s \in Seq(ActSet), NEW a \in ActSet, NEW t
  PROVE  /\ Count(s, t) \in Nat
         /\ Count(s, t) = 0 <=> \A i \in DOMAIN s : s[i].thread = t => ~s[i].noyield
         /\ Count(<<a>> \o s, t) = IF a.thread = t /\ a.noyield THEN Count(s, t) + 1 ELSE Count(s, t)
<1> DEFINE p == <<a>> \o s
           N == {i \in DOMAIN s : s[i].thread = t /\ s[i].noyield}
           P == {i \in DOMAIN p : p[i].thread = t /\ p[i].noyield}
           Q == P \ {1}
<1>1. Len(s) \in Nat /\ Len(p) = Len(s) + 1 /\ p[1] = a
      /\ DOMAIN s = 1..Len(s) /\ DOMAIN p = 1..Len(p)
      /\ \A i \in 1..Len(s) : p[i + 1] = s[i]
  BY Pushed
<1>2. IsFiniteSet(N) /\ IsFiniteSet(P)
  <2>1. IsFiniteSet(1..Len(s)) /\ IsFiniteSet(1..Len(p))
    BY <1>1, FS_Interval
  <2>2. N \in SUBSET (1..Len(s)) /\ P \in SUBSET (1..Len(p))
    BY <1>1
  <2> HIDE DEF N, P
  <2>3. QED
    BY <2>1, <2>2, FS_Subset
<1>3. Cardinality(N) = Cardinality(Q)
  <2> DEFINE f == [i \in N |-> i + 1]
  <2>1. \A i \in N : i + 1 \in Q
    BY <1>1
  <2>2. \A j \in Q : j - 1 \in N /\ (j - 1) + 1 = j
    BY <1>1
  <2>3. \A i, j \in N : f[i] = f[j] => i = j
    BY <1>1
  <2>4. f \in Bijection(N, Q)
    <3>1. f \in [N -> Q]
      BY <2>1
    <3>2. \A j \in Q : \E i \in N : f[i] = j
      BY <2>2
    <3>3. QED
      BY <2>3, <3>1, <3>2 DEF Bijection, Injection, IsInjective, Surjection
  <2>5. ExistsBijection(N, Q)
    BY <2>4 DEF ExistsBijection
  <2>6. QED
    BY <1>2, <2>5, FS_Bijection
<1>4. Cardinality(Q) = IF 1 \in P THEN Cardinality(P) - 1 ELSE Cardinality(P)
  BY <1>2, FS_RemoveElement
<1>5. Cardinality(N) \in Nat /\ Cardinality(P) \in Nat /\ (Cardinality(N) = 0 <=> N = {})
  BY <1>2, FS_CardinalityType, FS_EmptySet
<1>6. 1 \in P <=> a.thread = t /\ a.noyield
  BY <1>1
<1>7. Count(s, t) = Cardinality(N) /\ Count(p, t) = Cardinality(P)
  BY DEF Count
<1>8. N = {} <=> \A i \in DOMAIN s : s[i].thread = t => ~s[i].noyield
  OBVIOUS
<1>9. ASSUME a.thread = t /\ a.noyield
      PROVE  Count(p, t) = Count(s, t) + 1
  <2> HIDE DEF p, N, P, Q
  <2>1. QED
    BY <1>3, <1>4, <1>5, <1>6, <1>7, <1>9
<1>10. ASSUME ~(a.thread = t /\ a.noyield)
       PROVE  Count(p, t) = Count(s, t)
  <2> HIDE DEF p, N, P, Q
  <2>1. QED
    BY <1>3, <1>4, <1>5, <1>6, <1>7, <1>10
<1>11. QED
  BY <1>5, <1>7, <1>8, <1>9, <1>10
-----------------------------------------------------------------------------
(* The frames of a thread, by their height above its base frame.           *)

At(fs, h) == fs[Len(fs) - h + 1]

LEMMA FramePushed ==
  ASSUME NEW fs \in Seq(FrameSet), NEW f \in FrameSet
  PROVE  /\ <<f>> \o fs \in Seq(FrameSet) /\ Len(<<f>> \o fs) = Len(fs) + 1
         /\ <<f>> \o fs # <<>>
         /\ \A h \in 1..Len(fs) : At(<<f>> \o fs, h) = At(fs, h)
         /\ At(<<f>> \o fs, Len(fs) + 1) = f
<1> DEFINE p == <<f>> \o fs
<1>1. Len(fs) \in Nat /\ p \in Seq(FrameSet) /\ Len(p) = Len(fs) + 1 /\ p[1] = f /\ p # <<>>
      /\ \A i \in 1..Len(fs) : p[i + 1] = fs[i]
  BY Pushed
<1>2. ASSUME NEW h \in 1..Len(fs) PROVE At(p, h) = At(fs, h)
  <2>1. Len(fs) - h + 1 \in 1..Len(fs) /\ (Len(fs) - h + 1) + 1 = Len(p) - h + 1
    BY <1>1
  <2>2. QED
    BY <1>1, <2>1 DEF At
<1>3. QED
  BY <1>1, <1>2 DEF At

LEMMA FrameReplaced ==
  ASSUME NEW fs \in Seq(FrameSet), fs # <<>>, NEW g \in FrameSet
  PROVE  /\ <<g>> \o Tail(fs) \in Seq(FrameSet) /\ Len(<<g>> \o Tail(fs)) = Len(fs)
         /\ \A h \in 1..(Len(fs) - 1) : At(<<g>> \o Tail(fs), h) = At(fs, h)
         /\ At(<<g>> \o Tail(fs), Len(fs)) = g
         /\ At(fs, Len(fs)) = fs[1] /\ fs[1] \in FrameSet
<1> DEFINE m == <<g>> \o Tail(fs)
<1>1. Len(fs) \in Nat \ {0} /\ fs[1] \in FrameSet /\ Tail(fs) \in Seq(FrameSet)
      /\ Len(Tail(fs)) = Len(fs) - 1
      /\ \A i \in 1..(Len(fs) - 1) : Tail(fs)[i] = fs[i + 1]
  BY UnderTop
<1>2. m \in Seq(FrameSet) /\ Len(m) = Len(fs) /\ m[1] = g
      /\ \A i \in 1..(Len(fs) - 1) : m[i + 1] = Tail(fs)[i]
  BY <1>1, Pushed
<1>3. ASSUME NEW h \in 1..(Len(fs) - 1) PROVE At(m, h) = At(fs, h)
  <2>1. Len(fs) - h \in 1..(Len(fs) - 1)
    BY <1>1
  <2>2. QED
    BY <1>1, <1>2, <2>1 DEF At
<1>4. At(m, Len(fs)) = g /\ At(fs, Len(fs)) = fs[1]
  BY <1>1, <1>2 DEF At
<1>5. QED
  BY <1>1, <1>2, <1>3, <1>4

LEMMA FrameMarkedTrue ==
  ASSUME NEW fs \in Seq(FrameSet), NEW field \in {"kfun", "ypc", "bare"}
  PROVE  /\ Mark(fs, field, TRUE) \in Seq(FrameSet) /\ Len(Mark(fs, field, TRUE)) = Len(fs)
         /\ \A h \in 1..(Len(fs) - 1) : At(Mark(fs, field, TRUE), h) = At(fs, h)
         /\ fs # <<>> =>
              LET f == At(fs, Len(fs))
                  g == At(Mark(fs, field, TRUE), Len(fs))
              IN  /\ g.kind = f.kind
                  /\ field = "kfun" \/ f.kfun => g.kfun
                  /\ field = "bare" \/ f.bare => g.bare
                  /\ field # "ypc" /\ g.ypc => f.ypc
<1>1. CASE fs = <<>>
  BY <1>1, EmptySeq DEF Mark
<1>2. CASE fs # <<>>
  <2>1. PICK g : g = [fs[1] EXCEPT ![field] = TRUE]
    OBVIOUS
  <2>2. fs[1] \in FrameSet
    BY <1>2, UnderTop
  <2>3. /\ g \in FrameSet /\ g.kind = fs[1].kind
        /\ field = "kfun" \/ fs[1].kfun => g.kfun
        /\ field = "bare" \/ fs[1].bare => g.bare
        /\ field # "ypc" /\ g.ypc => fs[1].ypc
    BY <2>1, <2>2 DEF FrameSet
  <2>4. PICK m : m = <<g>> \o Tail(fs)
    OBVIOUS
  <2>5. Mark(fs, field, TRUE) = m
    BY <1>2, <2>1, <2>4 DEF Mark
  <2>6. /\ m \in Seq(FrameSet) /\ Len(m) = Len(fs)
        /\ \A h \in 1..(Len(fs) - 1) : At(m, h) = At(fs, h)
        /\ At(m, Len(fs)) = g /\ At(fs, Len(fs)) = fs[1]
    BY <1>2, <2>3, <2>4, FrameReplaced
  <2>7. QED
    BY <2>3, <2>5, <2>6
<1>3. QED
  BY <1>1, <1>2

LEMMA FrameMarkedFalse ==
  ASSUME NEW fs \in Seq(FrameSet), NEW field \in {"kfun", "ypc", "bare"}
  PROVE  \E m \in Seq(FrameSet) :
           /\ Mark(fs, field, FALSE) = m /\ Len(m) = Len(fs)
           /\ \A h \in 1..(Len(fs) - 1) : At(m, h) = At(fs, h)
           /\ \A h \in 1..Len(fs) : At(m, h).ypc => At(fs, h).ypc
<1>1. CASE fs = <<>>
  BY <1>1, EmptySeq DEF Mark
<1>2. CASE fs # <<>>
  <2>1. PICK g : g = [fs[1] EXCEPT ![field] = FALSE]
    OBVIOUS
  <2>2. fs[1] \in FrameSet
    BY <1>2, UnderTop
  <2>3. g \in FrameSet /\ (g.ypc => fs[1].ypc)
    BY <2>1, <2>2 DEF FrameSet
  <2>4. PICK m : m = <<g>> \o Tail(fs)
    OBVIOUS
  <2>5. Mark(fs, field, FALSE) = m
    BY <1>2, <2>1, <2>4 DEF Mark
  <2>6. /\ m \in Seq(FrameSet) /\ Len(m) = Len(fs)
        /\ \A h \in 1..(Len(fs) - 1) : At(m, h) = At(fs, h)
        /\ At(m, Len(fs)) = g /\ At(fs, Len(fs)) = fs[1]
    BY <1>2, <2>3, <2>4, FrameReplaced
  <2>7. ASSUME NEW h \in 1..Len(fs), At(m, h).ypc PROVE At(fs, h).ypc
    <3>1. Len(fs) \in Nat
      OBVIOUS
    <3>2. h \in 1..(Len(fs) - 1) \/ h = Len(fs)
      BY <3>1
    <3>3. QED
      BY <2>3, <2>6, <2>7, <3>2
  <2>8. QED
    BY <2>5, <2>6, <2>7
<1>3. QED
  BY <1>1, <1>2

LEMMA FramesCut ==
  ASSUME NEW fs \in Seq(FrameSet), NEW n \in 0..Len(fs)
  PROVE  /\ Bottom(fs, n) \in Seq(FrameSet) /\ Len(Bottom(fs, n)) = n
         /\ \A h \in 1..n : At(Bottom(fs, n), h) = At(fs, h)
<1>1. Len(fs) \in Nat /\ Len(fs) - n \in 0..Len(fs)
  OBVIOUS
<1>2. PICK k \in 0..Len(fs) : k = Len(fs) - n
  BY <1>1, Zenon
<1>3. /\ Bottom(fs, n) \in Seq(FrameSet) /\ Len(Bottom(fs, n)) = n
      /\ \A i \in 1..n : Bottom(fs, n)[i] = fs[i + (Len(fs) - n)]
  <2>1. Bottom(fs, n) = Under(fs, k)
    BY <1>2 DEF Bottom, Under
  <2>2. /\ Under(fs, k) \in Seq(FrameSet) /\ Len(Under(fs, k)) = Len(fs) - k
        /\ \A i \in 1..(Len(fs) - k) : Under(fs, k)[i] = fs[i + k]
    BY Cut
  <2>3. Len(fs) - k = n
    BY <1>1, <1>2
  <2>4. QED
    BY <1>2, <2>1, <2>2, <2>3
<1>4. ASSUME NEW h \in 1..n PROVE At(Bottom(fs, n), h) = At(fs, h)
  <2>1. n - h + 1 \in 1..n /\ (n - h + 1) + (Len(fs) - n) = Len(fs) - h + 1
    BY <1>1
  <2>2. QED
    BY <1>3, <2>1 DEF At
<1>5. QED
  BY <1>3, <1>4

LEMMA FramePopped ==
  ASSUME NEW fs \in Seq(FrameSet), fs # <<>>
  PROVE  /\ Tail(fs) \in Seq(FrameSet) /\ Len(Tail(fs)) = Len(fs) - 1 /\ Len(fs) \in Nat \ {0}
         /\ \A h \in 1..(Len(fs) - 1) : At(Tail(fs), h) = At(fs, h)
<1>1. Len(fs) \in Nat \ {0} /\ Tail(fs) \in Seq(FrameSet) /\ Len(Tail(fs)) = Len(fs) - 1
        /\ \A i \in 1..(Len(fs) - 1) : Tail(fs)[i] = fs[i + 1]
  BY UnderTop
<1>2. ASSUME NEW h \in 1..(Len(fs) - 1) PROVE At(Tail(fs), h) = At(fs, h)
  <2>1. Len(fs) - h \in 1..(Len(fs) - 1)
    BY <1>1
  <2>2. QED
    BY <1>1, <2>1 DEF At
<1>3. QED
  BY <1>1, <1>2

-----------------------------------------------------------------------------
(* More about a stack that is right.                                       *)

(* Every activation is of a thread in the chain, and was made by one.      *)
LEMMA OwnersInChain ==
  ASSUME NEW s \in Seq(ActSet), StackOK(s), NEW i \in DOMAIN s
  PROVE  /\ i \in 1..Len(s) /\ s[i] \in ActSet /\ Placed(s[i], Under(s, i))
         /\ s[i].thread \in Chain(s)
         /\ s[i].from \in Chain(Under(s, i)) /\ s[i].from \in Chain(s)
         /\ Chain(Under(s, i)) \subseteq Chain(s)
<1>1. Len(s) \in Nat /\ i \in 1..Len(s) /\ i \in 0..Len(s)
  OBVIOUS
<1>2. Chain(Under(s, i)) \subseteq Chain(s)
  BY <1>1, ChainCut
<1>3. Placed(s[i], Under(s, i)) /\ s[i] \in ActSet
  BY <1>1 DEF StackOK
<1>4. s[i].from \in Chain(Under(s, i))
  BY <1>3 DEF Placed, Runs
<1>5. s[i].fn = "resume" => s[i].thread \in Chain(s)
  BY <1>1 DEF Chain
<1>6. s[i].fn # "resume" => s[i].thread = s[i].from
  BY <1>3 DEF Placed
<1>7. QED
  BY <1>1, <1>2, <1>3, <1>4, <1>5, <1>6

(* The topmost resume, if there is one, has made t run.                    *)
LEMMA TopResume ==
  ASSUME NEW s \in Seq(ActSet), NEW t, Runs(t, s),
         NEW i \in DOMAIN s, s[i].fn = "resume"
  PROVE  \E r \in 1..i : /\ s[r].fn = "resume" /\ s[r].thread = t
                         /\ \A j \in 1..(r - 1) : s[j].fn # "resume"
<1> DEFINE R == {j \in 1..i : s[j].fn = "resume"}
<1>1. Len(s) \in Nat /\ i \in 1..Len(s) /\ DOMAIN s = 1..Len(s)
  OBVIOUS
<1>2. R \in SUBSET Nat /\ R # {}
  BY <1>1
<1> HIDE DEF R
<1>3. PICK r \in R : \A j \in R : r <= j
  BY <1>2, LeastExists
<1>4. r \in 1..i /\ s[r].fn = "resume"
  BY DEF R
<1>5. \A j \in 1..(r - 1) : s[j].fn # "resume"
  <2>1. ASSUME NEW j \in 1..(r - 1), s[j].fn = "resume" PROVE FALSE
    <3>1. j \in 1..i /\ j < r
      BY <1>1, <1>4
    <3>2. j \in R
      BY <2>1, <3>1 DEF R
    <3>3. QED
      BY <1>3, <1>4, <3>1, <3>2
  <2>2. QED
    BY <2>1
<1>6. QED
  BY <1>1, <1>4, <1>5 DEF Runs

(* The running thread is not among those that wait.                        *)
LEMMA WaitersDoNotRun ==
  ASSUME NEW s \in Seq(ActSet), StackOK(s), NEW t, Runs(t, s),
         NEW i \in DOMAIN s, s[i].fn = "resume"
  PROVE  t \notin Chain(Under(s, i)) /\ s[i].from # t
<1>0. Len(s) \in Nat /\ i \in 1..Len(s) /\ DOMAIN s = 1..Len(s)
  OBVIOUS
<1>1. PICK r \in 1..i : s[r].fn = "resume" /\ s[r].thread = t
  BY TopResume
<1>2. t \notin Chain(Under(s, r))
  BY <1>0, <1>1, OwnersInChain DEF Placed
<1>3. Chain(Under(s, i)) \subseteq Chain(Under(s, r))
  <2>1. r \in 0..Len(s) /\ i - r \in 0..(Len(s) - r) /\ (i - r) + r = i
    BY <1>0
  <2>2. Under(s, r) \in Seq(ActSet) /\ Len(Under(s, r)) = Len(s) - r
        /\ Under(Under(s, r), i - r) = Under(s, (i - r) + r)
    BY <2>1, Cut
  <2>3. QED
    BY <2>1, <2>2, ChainCut
<1>4. QED
  BY <1>2, <1>3, OwnersInChain

(* Leaving activations that resumed nothing leaves the chain as it is.     *)
LEMMA ChainKeptByCut ==
  ASSUME NEW s \in Seq(ActSet), NEW k \in 0..Len(s), \A j \in 1..k : s[j].fn # "resume"
  PROVE  Chain(Under(s, k)) = Chain(s)
<1>1. Len(s) \in Nat /\ DOMAIN s = 1..Len(s)
  OBVIOUS
<1>2. /\ DOMAIN Under(s, k) = 1..(Len(s) - k)
      /\ \A i \in 1..(Len(s) - k) : Under(s, k)[i] = s[i + k]
  BY <1>1, Cut
<1>3. ASSUME NEW i \in DOMAIN s, s[i].fn = "resume"
      PROVE  s[i].thread \in Chain(Under(s, k))
  <2>1. i - k \in 1..(Len(s) - k) /\ (i - k) + k = i
    BY <1>1, <1>3
  <2>2. i - k \in DOMAIN Under(s, k) /\ Under(s, k)[i - k] = s[i]
    BY <1>2, <2>1
  <2>3. QED
    BY <1>3, <2>2 DEF Chain
<1>4. Chain(s) \subseteq Chain(Under(s, k))
  BY <1>3 DEF Chain
<1>5. QED
  BY <1>4, ChainCut

(* Leaving activations of other threads changes no count.                  *)
LEMMA CountKeptByCut ==
  ASSUME NEW s \in Seq(ActSet), NEW k \in 0..Len(s), NEW t, \A j \in 1..k : s[j].thread # t
  PROVE  Count(Under(s, k), t) = Count(s, t)
<1> DEFINE u == Under(s, k)
           N == {i \in DOMAIN u : u[i].thread = t /\ u[i].noyield}
           P == {i \in DOMAIN s : s[i].thread = t /\ s[i].noyield}
           f == [i \in N |-> i + k]
<1>1. Len(s) \in Nat /\ DOMAIN s = 1..Len(s) /\ k \in Nat /\ k <= Len(s)
  OBVIOUS
<1>2. /\ DOMAIN u = 1..(Len(s) - k)
      /\ \A i \in 1..(Len(s) - k) : u[i] = s[i + k]
  BY <1>1, Cut
<1> HIDE DEF u
<1>3. \A i \in N : i + k \in P
  BY <1>1, <1>2
<1>4. \A j \in P : j - k \in N /\ (j - k) + k = j
  <2>1. ASSUME NEW j \in P PROVE j - k \in N /\ (j - k) + k = j
    <3>1. j \in 1..Len(s) /\ ~(j <= k)
      BY <1>1
    <3>2. j - k \in 1..(Len(s) - k) /\ (j - k) + k = j
      BY <1>1, <3>1
    <3>3. QED
      BY <1>2, <3>2
  <2>2. QED
    BY <2>1
<1>5. \A i, j \in N : f[i] = f[j] => i = j
  BY <1>1, <1>2
<1>6. f \in Bijection(N, P)
  <2>1. f \in [N -> P]
    BY <1>3
  <2>2. \A j \in P : \E i \in N : f[i] = j
    BY <1>4
  <2>3. QED
    BY <1>5, <2>1, <2>2 DEF Bijection, Injection, IsInjective, Surjection
<1>7. IsFiniteSet(N)
  <2>1. IsFiniteSet(1..(Len(s) - k))
    BY <1>1, FS_Interval
  <2>2. N \in SUBSET (1..(Len(s) - k))
    BY <1>2
  <2> HIDE DEF N
  <2>3. QED
    BY <2>1, <2>2, FS_Subset
<1>8. ExistsBijection(N, P)
  BY <1>6 DEF ExistsBijection
<1>9. Count(u, t) = Cardinality(N) /\ Count(s, t) = Cardinality(P)
  BY DEF Count
<1>10. Cardinality(P) = Cardinality(N)
  <2> HIDE DEF N, P, f
  <2>1. QED
    BY <1>7, <1>8, FS_Bijection
<1>11. QED
  BY <1>9, <1>10 DEF u

(* A thread without activations has none that cannot be yielded across.    *)
LEMMA CountOfNone ==
  ASSUME NEW s \in Seq(ActSet), NEW t,
         \A i \in DOMAIN s : s[i].thread = t => ~s[i].noyield
  PROVE  Count(s, t) = 0
<1>1. {i \in DOMAIN s : s[i].thread = t /\ s[i].noyield} = {}
  OBVIOUS
<1>2. QED
  BY <1>1, FS_EmptySet DEF Count

(* Until the first resume every activation is of the running thread t, and *)
(* each has fewer frames under it than those above.                        *)
LEMMA OwnActivations ==
  ASSUME NEW s \in Seq(ActSet), StackOK(s), NEW t, Runs(t, s),
         NEW k \in DOMAIN s, \A j \in 1..(k - 1) : s[j].fn # "resume"
  PROVE  /\ k \in 1..Len(s)
         /\ \A j \in 1..k : j \in DOMAIN s /\ s[j].thread = t
         /\ s[k].fn # "resume" =>
              \A j \in 1..(k - 1) : s[j].fn # "resume" /\ s[k].depth < s[j].depth
<1>1. Len(s) \in Nat /\ DOMAIN s = 1..Len(s) /\ k \in 1..Len(s)
  OBVIOUS
<1>2. ASSUME NEW j \in 1..k PROVE j \in DOMAIN s /\ s[j].thread = t
  <2>1. j \in DOMAIN s /\ \A l \in 1..(j - 1) : l \in 1..(k - 1)
    BY <1>1
  <2>2. QED
    BY <2>1 DEF Runs
<1>3. ASSUME s[k].fn # "resume", NEW j \in 1..(k - 1) PROVE s[k].depth < s[j].depth
  <2>1. j \in DOMAIN s /\ j \in 0..Len(s) /\ k - j \in 1..(Len(s) - j) /\ (k - j) + j = k
    BY <1>1
  <2>2. s[j].fn # "resume" /\ s[j].thread = t /\ s[k].thread = t
    BY <1>1, <1>2
  <2>3. DOMAIN Under(s, j) = 1..(Len(s) - j) /\ Under(s, j)[k - j] = s[k]
    <3>1. Len(Under(s, j)) = Len(s) - j /\ Under(s, j) \in Seq(ActSet)
          /\ \A i \in 1..(Len(s) - j) : Under(s, j)[i] = s[i + j]
      BY <2>1, Cut
    <3>2. QED
      BY <2>1, <3>1
  <2>4. Placed(s[j], Under(s, j))
    BY <2>1, OwnersInChain
  <2>5. QED
    BY <1>3, <2>1, <2>2, <2>3, <2>4 DEF Placed
<1>4. QED
  BY <1>1, <1>2, <1>3

-----------------------------------------------------------------------------
(* The inductive invariant.                                                *)

(* The running thread is the one the stack says, and exactly the threads   *)
(* of the chain are in status Run.                                         *)
ChainOK ==
  /\ Runs(trun, cstack) /\ StackOK(cstack)
  /\ \A t \in Thread : status[t] = "Run" <=> t \in Chain(cstack)

(* A thread that waits for one it has resumed is as it was at that time.   *)
WaitOK == \A i \in DOMAIN cstack : cstack[i].fn = "resume" =>
  /\ caller[cstack[i].thread] = cstack[i].from
  /\ nccall[cstack[i].from] = Len(cstack) - i
  /\ Len(frames[cstack[i].from]) = cstack[i].depth

(* The counters and the frames of the running thread fit the C stack,      *)
(* unless a call has failed, in stackerror or in an error handler.         *)
Settled == ctl \in {"run", "enter"} \/ (ctl = "throw" /\ nccall[trun] # MaxCCall)

DepthOK ==
  /\ Settled => nccall[trun] = Len(cstack)
  /\ \A t \in Chain(cstack) : nccall[t] <= MaxCCall + ExtraErrCall
  /\ \A i \in DOMAIN cstack : cstack[i].nccall <= MaxCCall + ExtraErrCall

CountOK == \A t \in Chain(cstack) : nxyield[t] = Count(cstack, t)

(* The frames under an activation are still there, and above them is that  *)
(* of the function it called.                                              *)
FramesOK == \A i \in DOMAIN cstack : cstack[i].fn # "resume" =>
  /\ cstack[i].depth <= Len(frames[cstack[i].thread])
  /\ cstack[i].depth = Len(frames[cstack[i].thread]) => cstack[i].thread = trun /\ ~Settled

(* Only the host program runs without a frame.                             *)
BaseOK ==
  /\ cstack = <<>> => frames[Main] = <<>>
  /\ ctl = "run" /\ Fs = <<>> => trun = Main
  /\ ctl = "enter" => trun # Main

(* A frame under another one is continuable or bare, or its call cannot be *)
(* yielded across.                                                         *)
Blocked(t, h) ==
  \E j \in DOMAIN cstack : cstack[j].noyield /\ cstack[j].thread = t /\ cstack[j].depth = h
Resumable(f) == f.kind = "c" => f.kfun \/ f.bare
ContOK == \A t \in Thread : status[t] # "Err" =>
  \A h \in 1..(Len(frames[t]) - 1) : Resumable(At(frames[t], h)) \/ Blocked(t, h)

(* Under a protector that recover may find, nothing is in the way.         *)
ProtectorOK == \A t \in Thread : \A h \in 1..Len(frames[t]) : At(frames[t], h).ypc =>
  \A j \in DOMAIN cstack : cstack[j].noyield /\ cstack[j].thread = t => h <= cstack[j].depth

CInv ==
  /\ ChainOK /\ WaitOK /\ DepthOK /\ CountOK
  /\ FramesOK /\ BaseOK /\ ContOK /\ ProtectorOK

IInv == TypeOK /\ ContinuableUnlessBare /\ (Alive => CInv)

-----------------------------------------------------------------------------
(* What the actions do to the stacks.                                      *)

LEMMA Typed ==
  ASSUME TypeOK, CInv
  PROVE  /\ Fs \in Seq(FrameSet) /\ Len(Fs) \in Nat
         /\ cstack \in Seq(ActSet) /\ Len(cstack) \in Nat /\ DOMAIN cstack = 1..Len(cstack)
         /\ \A t \in Thread : frames[t] \in Seq(FrameSet) /\ Len(frames[t]) \in Nat
         /\ trun \in Chain(cstack) /\ Main \in Chain(cstack) /\ Chain(cstack) \subseteq Thread
         /\ nccall[trun] \in Nat /\ nxyield[trun] \in Nat
         /\ \A i \in DOMAIN cstack :
              /\ cstack[i] \in ActSet /\ cstack[i].thread \in Thread /\ cstack[i].from \in Thread
              /\ cstack[i].depth \in Nat /\ cstack[i].nccall \in Nat /\ cstack[i].nxyield \in Nat
         /\ MaxCCall \in Nat \ {0} /\ ExtraErrCall \in Nat
<1>1. \A t \in Thread : frames[t] \in Seq(FrameSet) /\ Len(frames[t]) \in Nat
  BY DEF TypeOK
<1>2. Chain(cstack) \subseteq Thread
  <2>1. \A i \in DOMAIN cstack : cstack[i] \in ActSet
    BY DEF TypeOK
  <2>2. \A i \in DOMAIN cstack : cstack[i].thread \in Thread
    BY <2>1 DEF ActSet
  <2>3. QED
    BY <2>2, ThreadAssumption DEF Chain
<1>3. trun \in Chain(cstack) /\ Main \in Chain(cstack)
  BY DEF CInv, ChainOK, Runs, Chain
<1>4. ASSUME NEW i \in DOMAIN cstack
      PROVE  /\ cstack[i] \in ActSet /\ cstack[i].thread \in Thread /\ cstack[i].from \in Thread
             /\ cstack[i].depth \in Nat /\ cstack[i].nccall \in Nat /\ cstack[i].nxyield \in Nat
  <2>1. cstack[i] \in ActSet
    BY DEF TypeOK
  <2>2. QED
    BY <2>1 DEF ActSet
<1>5. QED
  BY <1>1, <1>2, <1>3, <1>4, LimitAssumption DEF TypeOK, Fs

(* A new activation is right, when the counters fit the stack.             *)
LEMMA CallPlaced ==
  ASSUME TypeOK, CInv, Settled,
         NEW fn \in {"call", "meta", "pcall", "pcallk", "handler"}, NEW noyield \in BOOLEAN,
         fn = "pcall" => noyield, fn # "handler" => ctl = "run"
  PROVE  Act(fn, noyield) \in ActSet /\ Placed(Act(fn, noyield), cstack)
<1> DEFINE a == Act(fn, noyield)
<1>1. /\ a.fn = fn /\ a.thread = trun /\ a.from = trun /\ a.depth = Len(Fs)
      /\ a.noyield = noyield /\ a.nccall = nccall[trun] /\ a.nxyield = nxyield[trun]
  BY DEF Act
<1>2. a \in ActSet
  BY Typed DEF Act, ActSet, TypeOK
<1> HIDE DEF a
<1>3. Runs(a.from, cstack)
  BY <1>1 DEF CInv, ChainOK
<1>4. a.thread = a.from /\ a.nccall = Len(cstack) /\ a.nxyield = Count(cstack, a.thread)
  BY <1>1, Typed DEF CInv, DepthOK, CountOK
<1>5. \A i \in DOMAIN cstack : cstack[i].fn # "resume" /\ cstack[i].thread = a.from
                               => cstack[i].depth < a.depth
  <2>1. \A i \in DOMAIN cstack : cstack[i].depth \in Nat
    BY Typed
  <2>2. QED
    BY <1>1, <2>1, Typed DEF CInv, FramesOK, Fs
<1>6. cstack = <<>> => a.depth = 0
  BY <1>1, <1>3 DEF CInv, BaseOK, Runs, Fs
<1>7. a.fn # "handler" /\ a.depth = 0 => a.from = Main
  BY <1>1, Typed, EmptySeq DEF CInv, BaseOK
<1>8. Placed(a, cstack)
  BY <1>1, <1>3, <1>4, <1>5, <1>6, <1>7 DEF Placed
<1>9. QED
  BY <1>2, <1>8 DEF a

LEMMA CallInv ==
  ASSUME TypeOK, CInv, Settled, ctl \in {"run", "throw"},
         NEW fn \in {"call", "meta", "pcall", "pcallk", "handler"}, NEW noyield \in BOOLEAN,
         fn = "pcall" => noyield, fn # "handler" => ctl = "run",
         NEW fs \in Seq(FrameSet), NEW ef \in BOOLEAN, Len(fs) = Len(Fs),
         \A h \in 1..(Len(Fs) - 1) : At(fs, h) = At(Fs, h),
         fs # <<>> => Resumable(At(fs, Len(fs))) \/ noyield,
         fs # <<>> => (At(fs, Len(fs)).ypc => At(Fs, Len(fs)).ypc \/ nxyield[trun] = 0),
         Call(Act(fn, noyield), fs, ef)
  PROVE  TypeOK' /\ CInv'
<1> DEFINE a == Act(fn, noyield)
<1>1. /\ a.fn = fn /\ a.thread = trun /\ a.from = trun /\ a.depth = Len(Fs)
      /\ a.noyield = noyield /\ a.nccall = nccall[trun] /\ a.nxyield = nxyield[trun]
  BY DEF Act
<1>2. a \in ActSet /\ Placed(a, cstack)
  BY CallPlaced
<1>3. /\ cstack' = <<a>> \o cstack
      /\ nxyield' = [nxyield EXCEPT ![trun] = IF noyield THEN @ + 1 ELSE @]
      /\ errfun' = [errfun EXCEPT ![trun] = ef]
      /\ UNCHANGED <<trun, status, caller, body, args>>
  BY <1>1 DEF Call
<1>4. /\ nccall' = [nccall EXCEPT ![trun] = IF ctl' = "run" THEN @ + 1 ELSE @]
      /\ ctl' \in {"run", "throw", "jump"}
      /\ ctl' = "run" => ~Overflows(nccall[trun])
      /\ ctl' = "throw" => nccall[trun] = MaxCCall
  <2>1. nccall = [nccall EXCEPT ![trun] = @]
    BY DEF TypeOK
  <2>2. QED
    BY <2>1 DEF Call, StackError
<1>5. \E gs \in Seq(FrameSet) :
        /\ frames' = [frames EXCEPT ![trun] = gs]
        /\ \A h \in 1..Len(fs) : At(gs, h) = At(fs, h)
        /\ IF ctl' = "run" THEN Len(gs) = Len(fs) + 1 /\ ~At(gs, Len(gs)).ypc ELSE gs = fs
  <2>1. CASE Overflows(nccall[trun])
    <3>1. frames' = [frames EXCEPT ![trun] = fs] /\ ctl' # "run"
      BY <2>1 DEF Call, StackError
    <3>2. QED
      BY <3>1
  <2>2. CASE ~Overflows(nccall[trun])
    <3>1. PICK kind \in Kind : frames' = [frames EXCEPT ![trun] = <<Frame(kind)>> \o fs]
      BY <2>2 DEF Call
    <3>2. Frame(kind) \in FrameSet /\ ~Frame(kind).ypc
      BY DEF Frame, FrameSet
    <3>3. ctl' = "run"
      BY <2>2 DEF Call
    <3>4. PICK gs : gs = <<Frame(kind)>> \o fs
      OBVIOUS
    <3>5. gs \in Seq(FrameSet) /\ Len(gs) = Len(fs) + 1 /\ At(gs, Len(gs)) = Frame(kind)
          /\ \A h \in 1..Len(fs) : At(gs, h) = At(fs, h)
      BY <3>2, <3>4, FramePushed
    <3>6. QED
      BY <3>1, <3>2, <3>3, <3>4, <3>5
  <2>3. QED
    BY <2>1, <2>2
<1>6. PICK gs \in Seq(FrameSet) :
        /\ frames' = [frames EXCEPT ![trun] = gs]
        /\ \A h \in 1..Len(fs) : At(gs, h) = At(fs, h)
        /\ IF ctl' = "run" THEN Len(gs) = Len(fs) + 1 /\ ~At(gs, Len(gs)).ypc ELSE gs = fs
  BY <1>5
<1>7. /\ trun \in Thread /\ Len(Fs) \in Nat /\ Len(gs) \in Nat /\ Len(cstack) \in Nat
      /\ frames'[trun] = gs /\ \A t \in Thread \ {trun} : frames'[t] = frames[t]
      /\ nccall'[trun] = (IF ctl' = "run" THEN nccall[trun] + 1 ELSE nccall[trun])
      /\ \A t \in Thread \ {trun} : nccall'[t] = nccall[t]
      /\ nxyield'[trun] = (IF noyield THEN nxyield[trun] + 1 ELSE nxyield[trun])
      /\ \A t \in Thread \ {trun} : nxyield'[t] = nxyield[t]
  BY <1>3, <1>4, <1>6, Typed DEF TypeOK
<1>8. /\ cstack' \in Seq(ActSet) /\ Len(cstack') = Len(cstack) + 1 /\ cstack' # <<>>
      /\ DOMAIN cstack' = 1..(Len(cstack) + 1) /\ 1 \in DOMAIN cstack' /\ cstack'[1] = a
      /\ \A i \in DOMAIN cstack : i + 1 \in DOMAIN cstack' /\ cstack'[i + 1] = cstack[i]
      /\ \A i \in DOMAIN cstack' : i # 1 => i - 1 \in DOMAIN cstack /\ cstack'[i] = cstack[i - 1]
  <2> HIDE DEF a
  <2>1. cstack \in Seq(ActSet) /\ Len(cstack) \in Nat
    BY Typed
  <2>2. PICK p : p = <<a>> \o cstack
    OBVIOUS
  <2>3. p \in Seq(ActSet) /\ Len(p) = Len(cstack) + 1 /\ p # <<>> /\ p[1] = a
    BY <1>2, <2>1, <2>2, Pushed
  <2>4. /\ DOMAIN p = 1..(Len(cstack) + 1) /\ 1 \in DOMAIN p
        /\ \A i \in DOMAIN cstack : i + 1 \in DOMAIN p /\ p[i + 1] = cstack[i]
        /\ \A i \in DOMAIN p : i # 1 => i - 1 \in DOMAIN cstack /\ p[i] = cstack[i - 1]
    BY <1>2, <2>1, <2>2, PushedDomain
  <2>5. cstack' = p
    BY <1>3, <2>2
  <2>6. QED
    BY <2>3, <2>4, <2>5
<1> HIDE DEF a
<1>9. TypeOK'
  <2>1. nccall[trun] <= MaxCCall + ExtraErrCall /\ nccall \in [Thread -> 0..(MaxCCall + ExtraErrCall + 1)]
    BY Typed DEF CInv, DepthOK, TypeOK
  <2>2. nccall'[trun] \in 0..(MaxCCall + ExtraErrCall + 1)
    BY <1>7, <2>1, Typed
  <2>3. nccall' \in [Thread -> 0..(MaxCCall + ExtraErrCall + 1)]
    BY <1>4, <1>7, <2>1, <2>2
  <2>4. nxyield' \in [Thread -> Nat] /\ errfun' \in [Thread -> BOOLEAN]
        /\ frames' \in [Thread -> Seq(FrameSet)]
    BY <1>3, <1>6 DEF TypeOK
  <2>5. QED
    BY <1>3, <1>4, <1>8, <2>3, <2>4 DEF TypeOK, Control
<1>10. Chain(cstack') = Chain(cstack)
  BY <1>1, <1>2, <1>3, Typed, ChainPushed
<1>11. ChainOK'
  <2>1. Runs(trun, cstack') /\ StackOK(cstack')
    BY <1>1, <1>2, <1>3, Typed, RunsPushed, StackPushed DEF CInv, ChainOK
  <2>2. QED
    BY <1>3, <1>10, <2>1 DEF CInv, ChainOK
<1>12. WaitOK'
  <2> SUFFICES ASSUME NEW i \in DOMAIN cstack', cstack'[i].fn = "resume"
               PROVE  /\ caller[cstack'[i].thread] = cstack'[i].from
                      /\ nccall'[cstack'[i].from] = Len(cstack') - i
                      /\ Len(frames'[cstack'[i].from]) = cstack'[i].depth
    BY <1>3 DEF WaitOK
  <2>1. i - 1 \in DOMAIN cstack /\ cstack'[i] = cstack[i - 1]
    BY <1>1, <1>8
  <2>2. cstack[i - 1].from # trun /\ cstack[i - 1].from \in Thread
    BY <2>1, Typed, WaitersDoNotRun DEF CInv, ChainOK
  <2>3. Len(cstack') - i = Len(cstack) - (i - 1)
    BY <1>7, <1>8
  <2>4. QED
    BY SMTT(30), <1>7, <2>1, <2>2, <2>3 DEF CInv, WaitOK
<1>13. DepthOK'
  <2>1. Settled' => nccall'[trun] = Len(cstack')
    BY <1>3, <1>4, <1>7, <1>8, Typed DEF CInv, DepthOK, Settled
  <2>2. \A t \in Chain(cstack') : nccall'[t] <= MaxCCall + ExtraErrCall
    BY <1>4, <1>7, <1>10, Typed DEF CInv, DepthOK, Overflows
  <2>3. a.nccall <= MaxCCall + ExtraErrCall
    BY <1>1, Typed DEF CInv, DepthOK
  <2>4. \A i \in DOMAIN cstack' : cstack'[i].nccall <= MaxCCall + ExtraErrCall
    BY <1>8, <2>3 DEF CInv, DepthOK
  <2>5. QED
    BY <1>3, <2>1, <2>2, <2>4 DEF DepthOK
<1>14. CountOK'
  <2>1. ASSUME NEW t \in Chain(cstack) PROVE nxyield'[t] = Count(cstack', t)
    <3>1. Count(cstack, t) = nxyield[t]
      BY DEF CInv, CountOK
    <3>2. Count(cstack', t) = IF a.thread = t /\ a.noyield THEN Count(cstack, t) + 1 ELSE Count(cstack, t)
      BY <1>2, <1>3, Typed, CountPushed
    <3>3. CASE t = trun /\ noyield
      BY <1>1, <1>7, <3>1, <3>2, <3>3
    <3>4. CASE t = trun /\ ~noyield
      BY <1>1, <1>7, <3>1, <3>2, <3>4
    <3>5. CASE t # trun
      BY <1>1, <1>7, <3>1, <3>2, <3>5, Typed
    <3>6. QED
      BY <3>3, <3>4, <3>5
  <2>2. QED
    BY <1>10, <2>1 DEF CountOK
<1>15. FramesOK'
  <2> SUFFICES ASSUME NEW i \in DOMAIN cstack', cstack'[i].fn # "resume"
               PROVE  /\ cstack'[i].depth <= Len(frames'[cstack'[i].thread])
                      /\ cstack'[i].depth = Len(frames'[cstack'[i].thread])
                         => cstack'[i].thread = trun' /\ ~Settled'
    BY DEF FramesOK
  <2>1. Settled' => Len(gs) = Len(Fs) + 1
    BY <1>3, <1>4, <1>6, <1>7 DEF Settled
  <2>2. Len(Fs) <= Len(gs)
    BY <1>6, <1>7
  <2>3. CASE i = 1
    <3>1. cstack'[i].thread = trun' /\ cstack'[i].depth = Len(Fs) /\ frames'[cstack'[i].thread] = gs
      BY <1>1, <1>3, <1>7, <1>8, <2>3
    <3>2. QED
      BY <1>7, <2>1, <2>2, <3>1
  <2>4. CASE i # 1
    <3>1. i - 1 \in DOMAIN cstack /\ cstack'[i] = cstack[i - 1]
      BY <1>8, <2>4
    <3>2. cstack[i - 1].depth < Len(frames[cstack[i - 1].thread])
      BY <3>1, Typed DEF CInv, FramesOK
    <3>3. cstack[i - 1].depth \in Nat /\ cstack[i - 1].thread \in Thread
          /\ Len(frames[cstack[i - 1].thread]) \in Nat
      BY <3>1, Typed
    <3>4. Len(frames[cstack[i - 1].thread]) <= Len(frames'[cstack[i - 1].thread])
      BY <1>7, <2>2, <3>3 DEF Fs
    <3>5. cstack[i - 1].depth < Len(frames'[cstack[i - 1].thread])
      <4>1. Len(frames'[cstack[i - 1].thread]) \in Nat
        BY <1>7, <3>3
      <4>2. QED
        BY <3>2, <3>3, <3>4, <4>1
    <3>6. QED
      BY <3>1, <3>3, <3>5
  <2>5. QED
    BY <2>3, <2>4
<1>16. BaseOK'
  <2>1. ctl' = "run" => frames'[trun] # <<>>
    BY <1>6, <1>7, EmptySeq
  <2>2. QED
    BY <1>3, <1>4, <1>8, <2>1 DEF BaseOK, Fs
<1>17. ContOK'
  <2> SUFFICES ASSUME NEW t \in Thread, status[t] # "Err", NEW h \in 1..(Len(frames'[t]) - 1)
               PROVE  Resumable(At(frames'[t], h)) \/ Blocked(t, h)'
    BY <1>3 DEF ContOK
  <2>1. Blocked(t, h) => Blocked(t, h)'
    BY <1>8 DEF Blocked
  <2>2. CASE t # trun
    BY <1>7, <2>1, <2>2 DEF CInv, ContOK
  <2>3. CASE t = trun /\ h \in 1..(Len(Fs) - 1)
    <3>1. At(frames'[t], h) = At(Fs, h)
      BY <1>6, <1>7, <2>3
    <3>2. QED
      BY <2>1, <2>3, <3>1 DEF CInv, ContOK, Fs
  <2>4. CASE t = trun /\ h \notin 1..(Len(Fs) - 1)
    <3>1. h = Len(Fs) /\ h \in 1..Len(fs)
      BY <1>6, <1>7, <2>4
    <3>2. fs # <<>> /\ At(frames'[t], h) = At(fs, h)
      BY <1>6, <1>7, <2>4, <3>1, EmptySeq
    <3>3. noyield => Blocked(t, h)'
      <4>1. cstack'[1].noyield = noyield /\ cstack'[1].thread = t /\ cstack'[1].depth = h
        BY <1>1, <1>8, <2>4, <3>1
      <4>2. QED
        BY <1>8, <4>1 DEF Blocked
    <3>4. QED
      BY <3>1, <3>2, <3>3
  <2>5. QED
    BY <2>2, <2>3, <2>4
<1>18. ProtectorOK'
  <2> SUFFICES ASSUME NEW t \in Thread, NEW h \in 1..Len(frames'[t]), At(frames'[t], h).ypc,
                      NEW j \in DOMAIN cstack', cstack'[j].noyield, cstack'[j].thread = t
               PROVE  h <= cstack'[j].depth
    BY DEF ProtectorOK
  <2>1. t = trun => h \in 1..Len(Fs)
    BY <1>6, <1>7
  <2>2. CASE j = 1
    BY <1>1, <1>7, <1>8, <2>1, <2>2
  <2>3. CASE j # 1
    <3>1. j - 1 \in DOMAIN cstack /\ cstack'[j] = cstack[j - 1]
      BY <1>8, <2>3
    <3>2. CASE t # trun
      BY SMTT(30), <1>7, <3>1, <3>2 DEF CInv, ProtectorOK
    <3>3. CASE t = trun /\ At(Fs, h).ypc
      BY <2>1, <3>1, <3>3 DEF CInv, ProtectorOK, Fs
    <3>4. CASE t = trun /\ ~At(Fs, h).ypc
      <4>1. At(frames'[t], h) = At(fs, h)
        BY <1>6, <1>7, <2>1, <3>4
      <4>2. h = Len(fs) /\ fs # <<>>
        BY <1>7, <2>1, <3>4, <4>1, EmptySeq
      <4>3. nxyield[trun] = 0
        BY <3>4, <4>1, <4>2
      <4>4. Count(cstack, trun) = 0
        BY <4>3, Typed DEF CInv, CountOK
      <4>5. \A i \in DOMAIN cstack : cstack[i].thread = trun => ~cstack[i].noyield
        BY <1>2, <4>4, Typed, CountPushed
      <4>6. QED
        BY <3>1, <3>4, <4>5
    <3>5. QED
      BY <3>2, <3>3, <3>4
  <2>4. QED
    BY <2>2, <2>3
<1>19. QED
  BY <1>9, <1>11, <1>12, <1>13, <1>14, <1>15, <1>16, <1>17, <1>18 DEF CInv

(* A function returns to the C function that has called it.                *)
LEMMA LeaveInv ==
  ASSUME TypeOK, CInv, ctl \in {"run", "enter"}, Fs # <<>>, cstack # <<>>,
         Head(cstack).fn # "resume", Head(cstack).depth = Len(Tail(Fs)),
         Leave(Head(cstack), Tail(Fs))
  PROVE  TypeOK' /\ CInv'
<1> DEFINE a == Head(cstack)
           fs == Tail(Fs)
<1>0. cstack \in Seq(ActSet) /\ StackOK(cstack) /\ Runs(trun, cstack) /\ trun \in Thread
  BY Typed DEF CInv, ChainOK
<1>1. /\ fs \in Seq(FrameSet) /\ Len(Fs) \in Nat \ {0} /\ Len(fs) = Len(Fs) - 1
      /\ \A h \in 1..(Len(Fs) - 1) : At(fs, h) = At(Fs, h)
  BY Typed, FramePopped
<1>2. /\ 1 \in DOMAIN cstack /\ a = cstack[1] /\ a \in ActSet
      /\ Tail(cstack) = Under(cstack, 1) /\ Len(cstack) \in Nat \ {0}
      /\ cstack = <<a>> \o Under(cstack, 1)
  BY <1>0, Popped
<1>3. /\ cstack' = Under(cstack, 1) /\ a.depth = Len(fs) /\ a.fn # "resume"
      /\ frames' = [frames EXCEPT ![trun] = IF a.fn = "pcallk" THEN Mark(fs, "ypc", FALSE)
                                             ELSE IF a.fn = "meta" THEN Mark(fs, "bare", FALSE)
                                             ELSE fs]
      /\ nccall' = [nccall EXCEPT ![trun] = @ - 1]
      /\ nxyield' = [nxyield EXCEPT ![trun] = IF a.noyield THEN @ - 1 ELSE @]
      /\ errfun' = [errfun EXCEPT ![trun] = IF a.fn \in {"pcall", "pcallk"} THEN a.errfun ELSE @]
      /\ ctl' = (IF a.fn = "handler" THEN "jump" ELSE "run")
      /\ UNCHANGED <<trun, status, caller, body, args>>
  BY <1>2 DEF Leave
<1> HIDE DEF a, fs
<1>4. /\ cstack' \in Seq(ActSet) /\ Len(cstack') = Len(cstack) - 1
      /\ \A i \in DOMAIN cstack' : i + 1 \in DOMAIN cstack /\ cstack'[i] = cstack[i + 1]
      /\ \A i \in DOMAIN cstack : i # 1 => i - 1 \in DOMAIN cstack' /\ cstack'[i - 1] = cstack[i]
  <2>1. cstack # <<>>
    OBVIOUS
  <2>2. PICK u : u = Under(cstack, 1)
    OBVIOUS
  <2>3. /\ u \in Seq(ActSet) /\ Len(u) = Len(cstack) - 1
        /\ \A i \in DOMAIN u : i + 1 \in DOMAIN cstack /\ u[i] = cstack[i + 1]
        /\ \A i \in DOMAIN cstack : i # 1 => i - 1 \in DOMAIN u /\ u[i - 1] = cstack[i]
    BY ZenonT(60), <1>0, <2>1, <2>2, Popped
  <2>4. cstack' = u
    BY <1>3, <2>2
  <2>5. QED
    BY <2>3, <2>4
<1>5. Placed(a, cstack') /\ a.thread = a.from /\ a.from = trun
  <2>1. Placed(a, cstack')
    BY <1>2, <1>3, Typed, OwnersInChain DEF CInv, ChainOK
  <2>2. a.thread = trun
    BY <1>2, Typed DEF CInv, ChainOK, Runs
  <2>3. QED
    BY <1>3, <2>1, <2>2 DEF Placed
<1>6. cstack = <<a>> \o cstack'
  BY <1>2, <1>3
<1>7. PICK gs \in Seq(FrameSet) :
        /\ frames' = [frames EXCEPT ![trun] = gs] /\ Len(gs) = Len(fs)
        /\ \A h \in 1..(Len(fs) - 1) : At(gs, h) = At(fs, h)
        /\ \A h \in 1..Len(fs) : At(gs, h).ypc => At(fs, h).ypc
  <2>2. CASE a.fn = "pcallk"
    <3>1. PICK m \in Seq(FrameSet) :
           /\ Mark(fs, "ypc", FALSE) = m /\ Len(m) = Len(fs)
           /\ \A h \in 1..(Len(fs) - 1) : At(m, h) = At(fs, h)
           /\ \A h \in 1..Len(fs) : At(m, h).ypc => At(fs, h).ypc
      BY <1>1, FrameMarkedFalse
    <3>2. frames' = [frames EXCEPT ![trun] = m]
      BY <1>3, <2>2, <3>1
    <3>3. QED
      BY <3>1, <3>2
  <2>3. CASE a.fn = "meta"
    <3>1. PICK m \in Seq(FrameSet) :
           /\ Mark(fs, "bare", FALSE) = m /\ Len(m) = Len(fs)
           /\ \A h \in 1..(Len(fs) - 1) : At(m, h) = At(fs, h)
           /\ \A h \in 1..Len(fs) : At(m, h).ypc => At(fs, h).ypc
      BY <1>1, FrameMarkedFalse
    <3>2. frames' = [frames EXCEPT ![trun] = m]
      BY <1>3, <2>3, <3>1
    <3>3. QED
      BY <3>1, <3>2
  <2>4. CASE a.fn \notin {"pcallk", "meta"}
    <3>1. frames' = [frames EXCEPT ![trun] = fs]
      BY <1>3, <2>4
    <3>2. QED
      BY <1>1, <3>1
  <2>5. QED
    BY <2>2, <2>3, <2>4
<1>8. /\ trun \in Thread /\ Len(gs) \in Nat
      /\ frames'[trun] = gs /\ \A t \in Thread \ {trun} : frames'[t] = frames[t]
      /\ nccall'[trun] = nccall[trun] - 1 /\ \A t \in Thread \ {trun} : nccall'[t] = nccall[t]
      /\ nxyield'[trun] = (IF a.noyield THEN nxyield[trun] - 1 ELSE nxyield[trun])
      /\ \A t \in Thread \ {trun} : nxyield'[t] = nxyield[t]
  BY <1>7, <1>3, Typed DEF TypeOK
<1>9. \A t \in Chain(cstack) : /\ nxyield'[t] = Count(cstack', t) /\ nxyield'[t] \in Nat
  <2> SUFFICES ASSUME NEW t \in Chain(cstack)
               PROVE  nxyield'[t] = Count(cstack', t) /\ nxyield'[t] \in Nat
    OBVIOUS
  <2>1. nxyield[t] = Count(cstack, t)
    BY DEF CInv, CountOK
  <2>2. /\ Count(cstack', t) \in Nat
        /\ Count(cstack, t) = IF a.thread = t /\ a.noyield THEN Count(cstack', t) + 1 ELSE Count(cstack', t)
    <3>1. Count(<<a>> \o cstack', t) =
            IF a.thread = t /\ a.noyield THEN Count(cstack', t) + 1 ELSE Count(cstack', t)
      BY <1>2, <1>4, CountPushed
    <3>2. Count(cstack', t) \in Nat
      BY <1>2, <1>4, CountPushed
    <3>3. QED
      BY <1>6, <3>1, <3>2
  <2>3. CASE t = trun /\ a.noyield
    BY <1>5, <1>8, <2>1, <2>2, <2>3
  <2>4. CASE t = trun /\ ~a.noyield
    BY <1>5, <1>8, <2>1, <2>2, <2>4
  <2>5. CASE t # trun
    BY <1>5, <1>8, <2>1, <2>2, <2>5, Typed
  <2>6. QED
    BY <2>3, <2>4, <2>5
<1>10. nccall[trun] = Len(cstack) /\ nccall'[trun] = Len(cstack')
  BY <1>2, <1>4, <1>8 DEF CInv, DepthOK, Settled
<1> HIDE DEF a, fs
<1>11. TypeOK'
  <2>1. nccall' \in [Thread -> 0..(MaxCCall + ExtraErrCall + 1)]
    <3>1. nccall \in [Thread -> 0..(MaxCCall + ExtraErrCall + 1)]
      BY DEF TypeOK
    <3>2. nccall'[trun] \in 0..(MaxCCall + ExtraErrCall + 1)
      BY SMTT(30), <1>2, <1>4, <1>8, <1>10, <3>1, Typed
    <3>3. QED
      BY <1>3, <1>8, <3>1, <3>2
  <2>2. nxyield' \in [Thread -> Nat]
    BY <1>3, <1>8, <1>9, Typed DEF TypeOK
  <2>3. frames' \in [Thread -> Seq(FrameSet)]
    BY <1>7 DEF TypeOK
  <2>4. errfun' \in [Thread -> BOOLEAN]
    <3>1. a.errfun \in BOOLEAN
      BY <1>2 DEF ActSet
    <3>2. QED
      BY <1>3, <3>1 DEF TypeOK
  <2>5. ctl' \in Control
    BY <1>3 DEF Control
  <2>6. QED
    BY <1>4, <1>3, <2>1, <2>2, <2>3, <2>4, <2>5 DEF TypeOK
<1>12. Chain(cstack') = Chain(cstack)
  BY <1>2, <1>3, <1>4, <1>5, <1>6, ChainPushed
<1>13. ChainOK'
  <2>1. Runs(trun, cstack')
    BY <1>5 DEF Placed
  <2>2. StackOK(cstack')
    BY <1>2, <1>3, Typed, StackCut DEF CInv, ChainOK
  <2>3. QED
    BY <1>3, <1>12, <2>1, <2>2 DEF CInv, ChainOK
<1>14. WaitOK'
  <2> SUFFICES ASSUME NEW i \in DOMAIN cstack', cstack'[i].fn = "resume"
               PROVE  /\ caller[cstack'[i].thread] = cstack'[i].from
                      /\ nccall'[cstack'[i].from] = Len(cstack') - i
                      /\ Len(frames'[cstack'[i].from]) = cstack'[i].depth
    BY <1>3 DEF WaitOK
  <2>1. i + 1 \in DOMAIN cstack /\ cstack'[i] = cstack[i + 1] /\ i \in Nat
    BY <1>4
  <2>2. cstack[i + 1].from # trun /\ cstack[i + 1].from \in Thread
    BY <2>1, Typed, WaitersDoNotRun DEF CInv, ChainOK
  <2>3. Len(cstack') - i = Len(cstack) - (i + 1)
    BY <1>2, <1>4, <2>1
  <2>4. /\ caller[cstack[i + 1].thread] = cstack[i + 1].from
        /\ nccall[cstack[i + 1].from] = Len(cstack) - (i + 1)
        /\ Len(frames[cstack[i + 1].from]) = cstack[i + 1].depth
    BY <2>1 DEF CInv, WaitOK
  <2>5. QED
    BY SMTT(30), <1>8, <2>1, <2>2, <2>3, <2>4
<1>15. DepthOK'
  <2>1. ASSUME NEW t \in Chain(cstack) PROVE nccall'[t] <= MaxCCall + ExtraErrCall
    <3>1. t \in Thread /\ nccall[t] <= MaxCCall + ExtraErrCall
      BY Typed DEF CInv, DepthOK
    <3>2. CASE t = trun
      BY <1>8, <3>1, <3>2, Typed
    <3>3. CASE t # trun
      BY <1>8, <3>1, <3>3
    <3>4. QED
      BY <3>2, <3>3
  <2>2. \A i \in DOMAIN cstack' : cstack'[i].nccall <= MaxCCall + ExtraErrCall
    BY <1>4 DEF CInv, DepthOK
  <2>3. QED
    BY <1>3, <1>10, <1>12, <2>1, <2>2 DEF DepthOK
<1>16. CountOK'
  BY <1>9, <1>12 DEF CountOK
<1>17. FramesOK'
  <2> SUFFICES ASSUME NEW i \in DOMAIN cstack', cstack'[i].fn # "resume"
               PROVE  cstack'[i].depth < Len(frames'[cstack'[i].thread])
    <3>1. \A i \in DOMAIN cstack' : cstack'[i].depth \in Nat /\ Len(frames'[cstack'[i].thread]) \in Nat
      BY <1>4, <1>8, Typed
    <3>2. QED
      BY <3>1 DEF FramesOK
  <2>1. i + 1 \in DOMAIN cstack /\ cstack'[i] = cstack[i + 1]
    BY <1>4
  <2>2. CASE cstack'[i].thread = trun
    BY ZenonT(90), <1>3, <1>5, <1>7, <1>8, <2>2 DEF Placed
  <2>3. CASE cstack'[i].thread # trun
    <3>1. cstack[i + 1].depth \in Nat /\ cstack[i + 1].thread \in Thread
          /\ Len(frames[cstack[i + 1].thread]) \in Nat
      BY <2>1, Typed
    <3>2. QED
      BY <1>8, <2>1, <2>3, <3>1 DEF CInv, FramesOK
  <2>4. QED
    BY <2>2, <2>3
<1>18. BaseOK'
  <2>1. cstack' = <<>> => frames'[Main] = <<>>
    <3>1. cstack' = <<>> => a.depth = 0 /\ trun = Main
      BY <1>5 DEF Placed, Runs
    <3>2. Len(gs) = 0 => gs = <<>>
      BY EmptySeq
    <3>3. QED
      BY <1>3, <1>7, <1>8, <3>1, <3>2
  <2>2. ctl' = "run" /\ frames'[trun] = <<>> => trun = Main
    BY <1>5, <1>7, <1>3, <1>8, EmptySeq DEF Placed
  <2>3. QED
    BY <1>3, <2>1, <2>2 DEF BaseOK, Fs
<1>19. ContOK'
  <2> SUFFICES ASSUME NEW t \in Thread, status[t] # "Err", NEW h \in 1..(Len(frames'[t]) - 1)
               PROVE  Resumable(At(frames'[t], h)) \/ Blocked(t, h)'
    BY <1>3 DEF ContOK
  <2>1. CASE t # trun
    <3>1. Blocked(t, h) => Blocked(t, h)'
      <4>1. ASSUME NEW j \in DOMAIN cstack, cstack[j].noyield, cstack[j].thread = t, cstack[j].depth = h
            PROVE  Blocked(t, h)'
        <5>1. j # 1
          BY <1>2, <1>5, <2>1, <4>1, Typed
        <5>2. j - 1 \in DOMAIN cstack' /\ cstack'[j - 1] = cstack[j]
          BY <1>4, <5>1
        <5>3. QED
          BY <4>1, <5>2 DEF Blocked
      <4>2. QED
        BY <4>1 DEF Blocked
    <3>2. QED
      BY <1>8, <2>1, <3>1 DEF CInv, ContOK
  <2>2. CASE t = trun
    <3>1. h \in 1..(Len(Fs) - 1) /\ h < a.depth /\ At(frames'[t], h) = At(Fs, h)
      <4>1. frames'[t] = gs /\ a.depth = Len(fs) /\ Len(gs) = Len(fs) /\ Len(fs) = Len(Fs) - 1
            /\ Len(Fs) \in Nat
        BY <1>1, <1>3, <1>7, <1>8, <2>2
      <4>2. h \in 1..(Len(fs) - 1) /\ h \in 1..(Len(Fs) - 1) /\ h < a.depth
        BY <4>1
      <4>3. QED
        BY <1>1, <1>7, <4>1, <4>2
    <3>2. Blocked(t, h) => Blocked(t, h)'
      <4>1. ASSUME NEW j \in DOMAIN cstack, cstack[j].noyield, cstack[j].thread = t, cstack[j].depth = h
            PROVE  Blocked(t, h)'
        <5>1. j # 1
          BY <1>2, <1>5, <3>1, <4>1, Typed
        <5>2. j - 1 \in DOMAIN cstack' /\ cstack'[j - 1] = cstack[j]
          BY <1>4, <5>1
        <5>3. QED
          BY <4>1, <5>2 DEF Blocked
      <4>2. QED
        BY <4>1 DEF Blocked
    <3>3. QED
      BY <2>2, <3>1, <3>2 DEF CInv, ContOK, Fs
  <2>3. QED
    BY <2>1, <2>2
<1>20. ProtectorOK'
  <2> SUFFICES ASSUME NEW t \in Thread, NEW h \in 1..Len(frames'[t]), At(frames'[t], h).ypc,
                      NEW j \in DOMAIN cstack', cstack'[j].noyield, cstack'[j].thread = t
               PROVE  h <= cstack'[j].depth
    BY DEF ProtectorOK
  <2>1. j + 1 \in DOMAIN cstack /\ cstack'[j] = cstack[j + 1]
    BY <1>4
  <2>2. h \in 1..Len(frames[t]) /\ At(frames[t], h).ypc
    BY <1>1, <1>7, <1>8 DEF Fs
  <2>3. QED
    BY <2>1, <2>2 DEF CInv, ProtectorOK
<1>21. QED
  BY <1>11, <1>13, <1>14, <1>15, <1>16, <1>17, <1>18, <1>19, <1>20 DEF CInv

(* A jump leaves k activations.                                            *)
LEMMA ActsCut ==
  ASSUME cstack \in Seq(ActSet), NEW k \in 0..Len(cstack), cstack' = Under(cstack, k)
  PROVE  /\ cstack' \in Seq(ActSet) /\ Len(cstack') = Len(cstack) - k
         /\ \A i \in DOMAIN cstack' : i \in Nat /\ i + k \in DOMAIN cstack /\ cstack'[i] = cstack[i + k]
         /\ \A i \in DOMAIN cstack : i > k => i - k \in DOMAIN cstack' /\ cstack'[i - k] = cstack[i]
<1>1. /\ Under(cstack, k) \in Seq(ActSet) /\ Len(Under(cstack, k)) = Len(cstack) - k
      /\ \A i \in DOMAIN Under(cstack, k) :
           i \in Nat /\ i + k \in DOMAIN cstack /\ Under(cstack, k)[i] = cstack[i + k]
      /\ \A i \in DOMAIN cstack : i > k =>
           i - k \in DOMAIN Under(cstack, k) /\ Under(cstack, k)[i - k] = cstack[i]
  BY CutDomain
<1>2. QED
  BY <1>1

(* A coroutine yields, ends or fails: control goes to its resumer.         *)
LEMMA ResumeEndsInv ==
  ASSUME TypeOK, CInv,
         NEW k \in 1..Len(cstack), cstack[k].fn = "resume", cstack[k].thread = trun,
         \A j \in 1..(k - 1) : cstack[j].fn # "resume",
         NEW st \in {"Yield", "Err"}, NEW fs \in Seq(FrameSet),
         st = "Yield" => \A h \in 1..(Len(fs) - 1) : Resumable(At(fs, h)),
         ResumeEnds(cstack[k], Under(cstack, k), st),
         frames' = [frames EXCEPT ![trun] = fs],
         caller' = caller \/ caller' = [caller EXCEPT ![trun] = NoThread],
         args' = args \/ args' = [args EXCEPT ![trun] = 0],
         UNCHANGED <<body, errfun>>, ctl' \in {"run", "throw"}
  PROVE  TypeOK' /\ CInv'
<1> DEFINE a == cstack[k]
<1>1. cstack \in Seq(ActSet) /\ StackOK(cstack) /\ Runs(trun, cstack) /\ trun \in Thread
      /\ Len(cstack) \in Nat /\ k \in DOMAIN cstack /\ k \in 0..Len(cstack)
  BY Typed DEF CInv, ChainOK
<1>2. /\ a \in ActSet /\ a.fn = "resume" /\ a.thread = trun /\ Placed(a, Under(cstack, k))
      /\ a.from \in Thread /\ a.nccall \in Nat /\ a.nxyield \in Nat /\ a.depth \in Nat
  BY <1>1, Typed, OwnersInChain
<1>3. /\ cstack' = Under(cstack, k) /\ trun' = a.from
      /\ status' = [status EXCEPT ![trun] = st]
      /\ nccall' = [nccall EXCEPT ![trun] = a.nccall - 1]
      /\ nxyield' = [nxyield EXCEPT ![trun] = a.nxyield]
  BY <1>2 DEF ResumeEnds
<1>4. /\ cstack' \in Seq(ActSet) /\ Len(cstack') = Len(cstack) - k
      /\ \A i \in DOMAIN cstack' : i \in Nat /\ i + k \in DOMAIN cstack /\ cstack'[i] = cstack[i + k]
      /\ \A i \in DOMAIN cstack : i > k => i - k \in DOMAIN cstack' /\ cstack'[i - k] = cstack[i]
  BY <1>1, <1>3, ActsCut
<1>5. /\ frames'[trun] = fs /\ status'[trun] = st
      /\ \A t \in Thread \ {trun} : /\ frames'[t] = frames[t] /\ status'[t] = status[t]
                                    /\ caller'[t] = caller[t]
                                    /\ nccall'[t] = nccall[t] /\ nxyield'[t] = nxyield[t]
  BY <1>1, <1>3 DEF TypeOK
<1>6. trun \notin Chain(cstack') /\ Chain(cstack') \subseteq Chain(cstack) /\ Chain(cstack') \subseteq Thread
  BY <1>1, <1>2, <1>3, Typed, ChainCut DEF Placed
<1>7. Chain(cstack) \subseteq Chain(cstack') \cup {trun}
  <2>1. ASSUME NEW i \in DOMAIN cstack, cstack[i].fn = "resume"
        PROVE  cstack[i].thread \in Chain(cstack') \cup {trun}
    <3>1. i < k => FALSE
      BY <1>1, <2>1
    <3>2. i > k => cstack[i].thread \in Chain(cstack')
      BY <1>4, <2>1 DEF Chain
    <3>3. i = k \/ i < k \/ i > k
      BY <1>1
    <3>4. QED
      BY <1>2, <3>1, <3>2, <3>3
  <2>2. Main \in Chain(cstack')
    BY DEF Chain
  <2>3. QED
    BY <2>1, <2>2 DEF Chain
<1>8. \A i \in DOMAIN cstack' : /\ cstack'[i] \in ActSet /\ cstack'[i].thread \in Chain(cstack')
                               /\ cstack'[i].from \in Chain(cstack')
  BY <1>1, <1>3, <1>4, StackCut, OwnersInChain
<1>9. \A j \in 1..k : cstack[j].thread = trun
  BY <1>1, OwnActivations
<1>10. /\ caller[trun] = a.from /\ nccall[a.from] = Len(cstack) - k /\ Len(frames[a.from]) = a.depth
       /\ a.from # trun /\ a.from \in Chain(cstack')
  BY <1>1, <1>2, <1>3, OwnersInChain, WaitersDoNotRun DEF CInv, WaitOK
<1> HIDE DEF a
<1>11. TypeOK'
  <2>1. a.nccall \in 1..(MaxCCall + ExtraErrCall)
    BY SMTT(30), <1>1, <1>2, <1>3, <1>4, Typed DEF Placed, CInv, DepthOK, a
  <2>2. nccall' \in [Thread -> 0..(MaxCCall + ExtraErrCall + 1)]
    <3>1. a.nccall - 1 \in 0..(MaxCCall + ExtraErrCall + 1)
      BY <2>1, Typed
    <3>2. QED
      BY <1>3, <3>1 DEF TypeOK
  <2>3. nxyield' \in [Thread -> Nat] /\ status' \in [Thread -> {"Run", "Yield", "Err"}]
    BY <1>2, <1>3 DEF TypeOK
  <2>4. frames' \in [Thread -> Seq(FrameSet)] /\ caller' \in [Thread -> Thread \cup {NoThread}]
    BY DEF TypeOK
  <2>5. args' \in [Thread -> 0..MaxArgs]
    <3>1. 0 \in 0..MaxArgs /\ args \in [Thread -> 0..MaxArgs]
      BY LimitAssumption DEF TypeOK
    <3>2. QED
      BY <3>1
  <2>6. ctl' \in Control
    BY DEF Control
  <2>7. QED
    BY <1>2, <1>3, <1>4, <2>2, <2>3, <2>4, <2>5, <2>6 DEF TypeOK
<1>12. ChainOK'
  <2>1. Runs(trun', cstack')
    BY <1>2, <1>3 DEF Placed
  <2>2. StackOK(cstack')
    BY <1>1, <1>3, StackCut
  <2>3. ASSUME NEW t \in Thread PROVE status'[t] = "Run" <=> t \in Chain(cstack')
    <3>1. CASE t = trun
      BY <1>5, <1>6, <3>1
    <3>2. CASE t # trun
      BY <1>5, <1>6, <1>7, <3>2 DEF CInv, ChainOK
    <3>3. QED
      BY <3>1, <3>2
  <2>4. QED
    BY <2>1, <2>2, <2>3 DEF ChainOK
<1>13. WaitOK'
  <2> SUFFICES ASSUME NEW i \in DOMAIN cstack', cstack'[i].fn = "resume"
               PROVE  /\ caller'[cstack'[i].thread] = cstack'[i].from
                      /\ nccall'[cstack'[i].from] = Len(cstack') - i
                      /\ Len(frames'[cstack'[i].from]) = cstack'[i].depth
    BY DEF WaitOK
  <2>1. i + k \in DOMAIN cstack /\ cstack'[i] = cstack[i + k] /\ i \in Nat
    BY <1>4
  <2>2. /\ cstack'[i].from # trun /\ cstack'[i].from \in Thread
        /\ cstack'[i].thread # trun /\ cstack'[i].thread \in Thread
    BY <1>6, <1>8
  <2>3. Len(cstack') - i = Len(cstack) - (i + k)
    BY <1>1, <1>4, <2>1
  <2>4. /\ caller[cstack[i + k].thread] = cstack[i + k].from
        /\ nccall[cstack[i + k].from] = Len(cstack) - (i + k)
        /\ Len(frames[cstack[i + k].from]) = cstack[i + k].depth
    BY <2>1 DEF CInv, WaitOK
  <2>5. QED
    BY SMTT(30), <1>5, <2>1, <2>2, <2>3, <2>4
<1>14. DepthOK'
  <2>1. nccall'[trun'] = Len(cstack')
    BY <1>2, <1>3, <1>4, <1>5, <1>10
  <2>2. \A t \in Chain(cstack') : nccall'[t] <= MaxCCall + ExtraErrCall
    BY <1>5, <1>6 DEF CInv, DepthOK
  <2>3. \A i \in DOMAIN cstack' : cstack'[i].nccall <= MaxCCall + ExtraErrCall
    BY <1>4 DEF CInv, DepthOK
  <2>4. QED
    BY <2>1, <2>2, <2>3 DEF DepthOK
<1>15. CountOK'
  <2>1. ASSUME NEW t \in Chain(cstack') PROVE nxyield'[t] = Count(cstack', t)
    <3>1. t # trun /\ t \in Thread /\ t \in Chain(cstack)
      BY <1>6
    <3>2. Count(cstack', t) = Count(cstack, t)
      BY <1>1, <1>3, <1>9, <3>1, CountKeptByCut
    <3>3. QED
      BY <1>5, <3>1, <3>2 DEF CInv, CountOK
  <2>2. QED
    BY <2>1 DEF CountOK
<1>16. FramesOK'
  <2> SUFFICES ASSUME NEW i \in DOMAIN cstack', cstack'[i].fn # "resume"
               PROVE  cstack'[i].depth < Len(frames'[cstack'[i].thread])
    <3>1. \A i \in DOMAIN cstack' : cstack'[i].depth \in Nat /\ Len(frames'[cstack'[i].thread]) \in Nat
      BY SMTT(30), <1>4, <1>5, <1>6, <1>8, Typed
    <3>2. QED
      BY <3>1 DEF FramesOK
  <2>1. i + k \in DOMAIN cstack /\ cstack'[i] = cstack[i + k]
    BY <1>4
  <2>2. cstack'[i].thread # trun /\ cstack'[i].thread \in Thread
    BY <1>6, <1>8
  <2>3. cstack[i + k].depth \in Nat /\ Len(frames[cstack[i + k].thread]) \in Nat
    BY <2>1, Typed
  <2>4. QED
    BY <1>5, <2>1, <2>2, <2>3 DEF CInv, FramesOK
<1>17. BaseOK'
  <2>1. cstack' = <<>> => a.from = Main /\ a.depth = 0
    BY <1>2, <1>3 DEF Placed, Runs
  <2>2. a.depth = 0 => a.from = Main
    BY <1>2 DEF Placed
  <2>3. frames'[a.from] = frames[a.from] /\ frames[a.from] \in Seq(FrameSet)
    BY <1>2, <1>5, <1>10, Typed
  <2>4. frames'[a.from] = <<>> <=> a.depth = 0
    BY <1>10, <2>3, EmptySeq
  <2>5. QED
    BY <1>3, <2>1, <2>2, <2>4 DEF BaseOK, Fs
<1>18. ContOK'
  <2> SUFFICES ASSUME NEW t \in Thread, status'[t] # "Err", NEW h \in 1..(Len(frames'[t]) - 1)
               PROVE  Resumable(At(frames'[t], h)) \/ Blocked(t, h)'
    BY DEF ContOK
  <2>1. CASE t = trun
    BY <1>5, <2>1
  <2>2. CASE t # trun
    <3>1. Blocked(t, h) => Blocked(t, h)'
      <4>1. ASSUME NEW j \in DOMAIN cstack, cstack[j].noyield, cstack[j].thread = t, cstack[j].depth = h
            PROVE  Blocked(t, h)'
        <5>1. j > k
          BY <1>1, <1>9, <2>2, <4>1
        <5>2. j - k \in DOMAIN cstack' /\ cstack'[j - k] = cstack[j]
          BY <1>4, <5>1
        <5>3. QED
          BY <4>1, <5>2 DEF Blocked
      <4>2. QED
        BY <4>1 DEF Blocked
    <3>2. QED
      BY <1>5, <2>2, <3>1 DEF CInv, ContOK
  <2>3. QED
    BY <2>1, <2>2
<1>19. ProtectorOK'
  <2> SUFFICES ASSUME NEW t \in Thread, NEW h \in 1..Len(frames'[t]), At(frames'[t], h).ypc,
                      NEW j \in DOMAIN cstack', cstack'[j].noyield, cstack'[j].thread = t
               PROVE  h <= cstack'[j].depth
    BY DEF ProtectorOK
  <2>1. j + k \in DOMAIN cstack /\ cstack'[j] = cstack[j + k] /\ t # trun
    BY <1>4, <1>6, <1>8
  <2>2. QED
    BY <1>5, <2>1 DEF CInv, ProtectorOK
<1>20. QED
  BY <1>11, <1>12, <1>13, <1>14, <1>15, <1>16, <1>17, <1>18, <1>19 DEF CInv

(* An error or a yield is caught by alo_pcallk.                            *)
LEMMA CaughtInv ==
  ASSUME TypeOK, CInv,
         NEW k \in 1..Len(cstack), cstack[k].fn = "pcall", cstack[k].thread = trun,
         \A j \in 1..(k - 1) : cstack[j].fn # "resume",
         Caught(cstack[k], Under(cstack, k), Fs)
  PROVE  TypeOK' /\ CInv'
<1> DEFINE a == cstack[k]
           fs == Bottom(Fs, a.depth)
<1>1. cstack \in Seq(ActSet) /\ StackOK(cstack) /\ Runs(trun, cstack) /\ trun \in Thread
      /\ Len(cstack) \in Nat /\ k \in DOMAIN cstack /\ k \in 0..Len(cstack)
  BY Typed DEF CInv, ChainOK
<1>2. /\ a \in ActSet /\ a.fn = "pcall" /\ a.thread = trun /\ a.from = trun /\ Placed(a, Under(cstack, k))
      /\ a.nccall \in Nat /\ a.nxyield \in Nat /\ a.depth \in Nat
  BY <1>1, Typed, OwnersInChain DEF Placed
<1>3. a.depth <= Len(Fs) /\ Len(Fs) \in Nat /\ Fs \in Seq(FrameSet)
  BY <1>1, <1>2, Typed DEF CInv, FramesOK, Fs
<1>4. fs \in Seq(FrameSet) /\ Len(fs) = a.depth /\ \A h \in 1..a.depth : At(fs, h) = At(Fs, h)
  <2>1. a.depth \in 0..Len(Fs)
    BY <1>2, <1>3
  <2>2. QED
    BY <1>3, <2>1, FramesCut
<1>5. /\ cstack' = Under(cstack, k)
      /\ frames' = [frames EXCEPT ![trun] = fs]
      /\ nccall' = [nccall EXCEPT ![trun] = a.nccall]
      /\ nxyield' = [nxyield EXCEPT ![trun] = a.nxyield]
      /\ errfun' = [errfun EXCEPT ![trun] = a.errfun]
      /\ ctl' = "run" /\ UNCHANGED <<trun, status, caller, body, args>>
  BY DEF Caught
<1> HIDE DEF a, fs
<1>6. /\ cstack' \in Seq(ActSet) /\ Len(cstack') = Len(cstack) - k
      /\ \A i \in DOMAIN cstack' : i \in Nat /\ i + k \in DOMAIN cstack /\ cstack'[i] = cstack[i + k]
      /\ \A i \in DOMAIN cstack : i > k => i - k \in DOMAIN cstack' /\ cstack'[i - k] = cstack[i]
  BY <1>1, <1>5, ActsCut
<1>7. /\ frames'[trun] = fs /\ nccall'[trun] = a.nccall /\ nxyield'[trun] = a.nxyield
      /\ \A t \in Thread \ {trun} : /\ frames'[t] = frames[t]
                                    /\ nccall'[t] = nccall[t] /\ nxyield'[t] = nxyield[t]
  BY <1>1, <1>5 DEF TypeOK
<1>8. \A j \in 1..k : cstack[j].thread = trun
  BY <1>1, OwnActivations
<1>9. \A j \in 1..k : cstack[j].fn # "resume"
  BY <1>1, <1>2 DEF a
<1>10. Chain(cstack') = Chain(cstack) /\ Chain(cstack) \subseteq Thread
  BY <1>1, <1>5, <1>9, ChainKeptByCut, Typed
<1>11. a.nccall = Len(cstack') /\ a.nccall <= MaxCCall + ExtraErrCall
  BY <1>1, <1>2, <1>5 DEF Placed, CInv, DepthOK, a
<1>12. TypeOK'
  <2>1. a.nccall \in 0..(MaxCCall + ExtraErrCall + 1)
    BY <1>2, <1>11, Typed
  <2>2. nccall' \in [Thread -> 0..(MaxCCall + ExtraErrCall + 1)] /\ nxyield' \in [Thread -> Nat]
    BY <1>2, <1>5, <2>1 DEF TypeOK
  <2>3. frames' \in [Thread -> Seq(FrameSet)]
    BY <1>4, <1>5 DEF TypeOK
  <2>4. errfun' \in [Thread -> BOOLEAN]
    <3>1. a.errfun \in BOOLEAN
      BY <1>2 DEF ActSet
    <3>2. QED
      BY <1>5, <3>1 DEF TypeOK
  <2>5. QED
    BY <1>5, <1>6, <2>2, <2>3, <2>4 DEF TypeOK, Control
<1>13. ChainOK'
  <2>1. Runs(trun, cstack')
    BY <1>2, <1>5 DEF Placed
  <2>2. StackOK(cstack')
    BY <1>1, <1>5, StackCut
  <2>3. QED
    BY <1>5, <1>10, <2>1, <2>2 DEF CInv, ChainOK
<1>14. WaitOK'
  <2> SUFFICES ASSUME NEW i \in DOMAIN cstack', cstack'[i].fn = "resume"
               PROVE  /\ caller[cstack'[i].thread] = cstack'[i].from
                      /\ nccall'[cstack'[i].from] = Len(cstack') - i
                      /\ Len(frames'[cstack'[i].from]) = cstack'[i].depth
    BY <1>5 DEF WaitOK
  <2>1. i + k \in DOMAIN cstack /\ cstack'[i] = cstack[i + k] /\ i \in Nat
    BY <1>6
  <2>2. cstack[i + k].from # trun /\ cstack[i + k].from \in Thread
    BY <1>1, <2>1, Typed, WaitersDoNotRun
  <2>3. Len(cstack') - i = Len(cstack) - (i + k)
    BY <1>1, <1>6, <2>1
  <2>4. /\ caller[cstack[i + k].thread] = cstack[i + k].from
        /\ nccall[cstack[i + k].from] = Len(cstack) - (i + k)
        /\ Len(frames[cstack[i + k].from]) = cstack[i + k].depth
    BY <2>1 DEF CInv, WaitOK
  <2>5. QED
    BY SMTT(30), <1>7, <2>1, <2>2, <2>3, <2>4
<1>15. DepthOK'
  <2>1. ASSUME NEW t \in Chain(cstack') PROVE nccall'[t] <= MaxCCall + ExtraErrCall
    <3>1. t \in Thread /\ nccall[t] <= MaxCCall + ExtraErrCall
      BY <1>10 DEF CInv, DepthOK
    <3>2. QED
      BY <1>7, <1>11, <3>1
  <2>2. \A i \in DOMAIN cstack' : cstack'[i].nccall <= MaxCCall + ExtraErrCall
    BY <1>6 DEF CInv, DepthOK
  <2>3. QED
    BY <1>5, <1>7, <1>11, <2>1, <2>2 DEF DepthOK
<1>16. CountOK'
  <2>1. ASSUME NEW t \in Chain(cstack') PROVE nxyield'[t] = Count(cstack', t)
    <3>1. CASE t = trun
      BY <1>2, <1>5, <1>7, <3>1 DEF Placed
    <3>2. CASE t # trun
      <4>1. Count(cstack', t) = Count(cstack, t)
        BY <1>1, <1>5, <1>8, <3>2, CountKeptByCut
      <4>2. QED
        BY <1>7, <1>10, <3>2, <4>1 DEF CInv, CountOK
    <3>3. QED
      BY <3>1, <3>2
  <2>2. QED
    BY <2>1 DEF CountOK
<1>17. FramesOK'
  <2> SUFFICES ASSUME NEW i \in DOMAIN cstack', cstack'[i].fn # "resume"
               PROVE  /\ cstack'[i].depth \in Nat /\ Len(frames'[cstack'[i].thread]) \in Nat
                      /\ cstack'[i].depth < Len(frames'[cstack'[i].thread])
    BY DEF FramesOK
  <2>1. i + k \in DOMAIN cstack /\ cstack'[i] = cstack[i + k]
    BY <1>6
  <2>2. cstack[i + k].depth \in Nat /\ Len(frames[cstack[i + k].thread]) \in Nat
        /\ cstack[i + k].thread \in Thread
    BY <2>1, Typed
  <2>3. CASE cstack'[i].thread = trun
    BY <1>2, <1>4, <1>5, <1>7, <2>1, <2>2, <2>3 DEF Placed
  <2>4. CASE cstack'[i].thread # trun
    BY <1>7, <2>1, <2>2, <2>4 DEF CInv, FramesOK
  <2>5. QED
    BY <2>3, <2>4
<1>18. BaseOK'
  <2>1. cstack' = <<>> => trun = Main /\ a.depth = 0
    BY <1>2, <1>5 DEF Placed, Runs
  <2>2. a.depth = 0 => trun = Main
    BY <1>2 DEF Placed
  <2>3. frames'[trun] = <<>> <=> a.depth = 0
    BY <1>4, <1>7, EmptySeq
  <2>4. QED
    BY <1>5, <2>1, <2>2, <2>3 DEF BaseOK, Fs
<1>19. ContOK'
  <2> SUFFICES ASSUME NEW t \in Thread, status[t] # "Err", NEW h \in 1..(Len(frames'[t]) - 1)
               PROVE  Resumable(At(frames'[t], h)) \/ Blocked(t, h)'
    BY <1>5 DEF ContOK
  <2>1. ASSUME NEW j \in DOMAIN cstack, j > k, cstack[j].noyield, cstack[j].thread = t, cstack[j].depth = h
        PROVE  Blocked(t, h)'
    <3>1. j - k \in DOMAIN cstack' /\ cstack'[j - k] = cstack[j]
      BY <1>6, <2>1
    <3>2. QED
      BY <2>1, <3>1 DEF Blocked
  <2>2. ASSUME Blocked(t, h), t = trun => h < a.depth
        PROVE  Blocked(t, h)'
    <3>1. PICK j \in DOMAIN cstack : cstack[j].noyield /\ cstack[j].thread = t /\ cstack[j].depth = h
      BY <2>2 DEF Blocked
    <3>2. CASE t # trun
      <4>1. j > k
        BY <1>1, <1>8, <3>1, <3>2
      <4>2. QED
        BY <2>1, <3>1, <4>1
    <3>3. CASE t = trun
      <4>1. \A i \in 1..(k - 1) : cstack[k].depth < cstack[i].depth
        BY <1>1, <1>2, OwnActivations DEF a
      <4>2. j # k
        BY <1>2, <2>2, <3>1, <3>3 DEF a
      <4>3. ~(j < k)
        <5>1. ASSUME j < k PROVE FALSE
          <6>1. j \in 1..(k - 1)
            BY <1>1, <5>1
          <6>2. a.depth < h
            BY <3>1, <4>1, <6>1 DEF a
          <6>3. QED
            BY <1>2, <2>2, <3>3, <6>2
        <5>2. QED
          BY <5>1
      <4>4. j > k
        BY <1>1, <4>2, <4>3
      <4>5. QED
        BY <2>1, <3>1, <4>4
    <3>4. QED
      BY <3>2, <3>3
  <2>3. CASE t # trun
    BY <1>7, <2>2, <2>3 DEF CInv, ContOK
  <2>4. CASE t = trun
    <3>1. h < a.depth /\ h \in 1..(Len(Fs) - 1) /\ At(frames'[t], h) = At(Fs, h)
      BY <1>2, <1>3, <1>4, <1>7, <2>4
    <3>2. QED
      BY <2>2, <2>4, <3>1 DEF CInv, ContOK, Fs
  <2>5. QED
    BY <2>3, <2>4
<1>20. ProtectorOK'
  <2> SUFFICES ASSUME NEW t \in Thread, NEW h \in 1..Len(frames'[t]), At(frames'[t], h).ypc,
                      NEW j \in DOMAIN cstack', cstack'[j].noyield, cstack'[j].thread = t
               PROVE  h <= cstack'[j].depth
    BY DEF ProtectorOK
  <2>1. j + k \in DOMAIN cstack /\ cstack'[j] = cstack[j + k]
    BY <1>6
  <2>2. CASE t # trun
    BY <1>7, <2>1, <2>2 DEF CInv, ProtectorOK
  <2>3. CASE t = trun
    <3>1. h \in 1..Len(Fs) /\ At(frames'[t], h) = At(Fs, h)
      BY <1>2, <1>3, <1>4, <1>7, <2>3
    <3>2. QED
      BY <2>1, <2>3, <3>1 DEF CInv, ProtectorOK, Fs
  <2>4. QED
    BY <2>2, <2>3
<1>21. QED
  BY <1>12, <1>13, <1>14, <1>15, <1>16, <1>17, <1>18, <1>19, <1>20 DEF CInv
(* rewind_protector finds a frame with fypc, when there is one.            *)
LEMMA RewoundFound ==
  ASSUME NEW fs \in Seq(FrameSet), Protectors(fs) # {}
  PROVE  /\ Rewound(fs) \in 1..Len(fs)
         /\ Len(fs) - Rewound(fs) + 1 \in 1..Len(fs)
         /\ At(fs, Len(fs) - Rewound(fs) + 1).ypc
<1>1. Protectors(fs) \in SUBSET Nat /\ DOMAIN fs = 1..Len(fs) /\ Len(fs) \in Nat
  BY DEF Protectors
<1>2. \E i \in Protectors(fs) : \A j \in Protectors(fs) : i <= j
  BY <1>1, LeastExists
<1>3. Rewound(fs) \in Protectors(fs)
  BY <1>2 DEF Rewound
<1>4. PICK r \in Protectors(fs) : r = Rewound(fs)
  BY <1>3
<1>5. r \in 1..Len(fs) /\ fs[r].ypc
  BY <1>1 DEF Protectors
<1>6. Len(fs) - (Len(fs) - r + 1) + 1 = r /\ Len(fs) - r + 1 \in 1..Len(fs)
  BY <1>1, <1>5
<1>7. QED
  BY <1>4, <1>5, <1>6 DEF At

(* An error in a coroutine is passed to a continuation: what alo_resume    *)
(* has called is left, and alo_resume is not.                              *)
LEMMA RecoverInv ==
  ASSUME TypeOK, CInv,
         NEW k \in 1..Len(cstack), cstack[k].fn = "resume", cstack[k].thread = trun,
         \A j \in 1..(k - 1) : cstack[j].fn # "resume",
         Protectors(Fs) # {}, Recover(cstack[k], Under(cstack, k), Fs)
  PROVE  TypeOK' /\ CInv'
<1> DEFINE a == cstack[k]
           n == Len(Fs) - Rewound(Fs) + 1
           fs == Bottom(Fs, n)
<1>1. cstack \in Seq(ActSet) /\ StackOK(cstack) /\ Runs(trun, cstack) /\ trun \in Thread
      /\ Len(cstack) \in Nat /\ k \in DOMAIN cstack /\ k \in 0..Len(cstack) /\ k - 1 \in 0..Len(cstack)
  BY Typed DEF CInv, ChainOK
<1>2. /\ a \in ActSet /\ a.fn = "resume" /\ a.thread = trun /\ Placed(a, Under(cstack, k))
      /\ a.nccall \in Nat /\ ~a.noyield /\ trun \notin Chain(Under(cstack, k))
      /\ a.nccall = Len(Under(cstack, k)) + 1
  BY <1>1, Typed, OwnersInChain DEF Placed
<1>3. Len(Fs) \in Nat /\ Fs \in Seq(FrameSet) /\ n \in 1..Len(Fs) /\ n \in 0..Len(Fs) /\ At(Fs, n).ypc
  <2>1. Len(Fs) \in Nat /\ Fs \in Seq(FrameSet)
    BY Typed
  <2>2. n \in 1..Len(Fs) /\ At(Fs, n).ypc
    BY <2>1, RewoundFound
  <2>3. QED
    BY <2>1, <2>2
<1> HIDE DEF n
<1>4. fs \in Seq(FrameSet) /\ Len(fs) = n /\ fs # <<>> /\ \A h \in 1..n : At(fs, h) = At(Fs, h)
  <2>1. fs \in Seq(FrameSet) /\ Len(fs) = n /\ \A h \in 1..n : At(fs, h) = At(Fs, h)
    BY <1>3, FramesCut
  <2>2. n # 0
    BY <1>3
  <2>3. fs # <<>>
    BY <2>1, <2>2, EmptySeq
  <2>4. QED
    BY <2>1, <2>3
<1>5. /\ cstack' = <<a>> \o Under(cstack, k)
      /\ frames' = [frames EXCEPT ![trun] = fs]
      /\ nccall' = [nccall EXCEPT ![trun] = a.nccall]
      /\ nxyield' = [nxyield EXCEPT ![trun] = 0]
      /\ ctl' \in {"run", "badcont"} /\ UNCHANGED <<trun, status, caller, body, args, errfun>>
  BY DEF Recover, n
<1> HIDE DEF fs
<1>6. cstack' = Under(cstack, k - 1) /\ Runs(trun, cstack') /\ Len(Under(cstack, k)) = Len(cstack) - k
  <2>1. Under(cstack, k) \in Seq(ActSet) /\ Len(Under(cstack, k)) = Len(cstack) - k
    BY <1>1, CutDomain
  <2>2. <<cstack[k]>> \o Under(cstack, k) = Under(cstack, k - 1)
    BY <1>1, Rebuilt
  <2>3. Runs(trun, <<a>> \o Under(cstack, k))
    BY <1>2, <2>1, RunsPushed
  <2>4. QED
    BY <1>5, <2>1, <2>2, <2>3
<1> HIDE DEF a
<1>7. /\ cstack' \in Seq(ActSet) /\ Len(cstack') = Len(cstack) - (k - 1)
      /\ \A i \in DOMAIN cstack' :
           i \in Nat /\ i + (k - 1) \in DOMAIN cstack /\ cstack'[i] = cstack[i + (k - 1)]
      /\ \A i \in DOMAIN cstack : i > k - 1 =>
           i - (k - 1) \in DOMAIN cstack' /\ cstack'[i - (k - 1)] = cstack[i]
  BY <1>1, <1>6, ActsCut
<1>8. /\ frames'[trun] = fs /\ nccall'[trun] = a.nccall /\ nxyield'[trun] = 0
      /\ \A t \in Thread \ {trun} : /\ frames'[t] = frames[t]
                                    /\ nccall'[t] = nccall[t] /\ nxyield'[t] = nxyield[t]
  BY <1>1, <1>5 DEF TypeOK
<1>9. \A j \in 1..(k - 1) : cstack[j].thread = trun
  BY <1>1, OwnActivations
<1>10. Chain(cstack') = Chain(cstack) /\ Chain(cstack) \subseteq Thread
  BY <1>1, <1>6, ChainKeptByCut, Typed
<1>11. \A i \in DOMAIN cstack' : cstack'[i].thread = trun => cstack'[i].fn = "resume" /\ ~cstack'[i].noyield
  <2>1. ASSUME NEW i \in DOMAIN cstack', i # 1
        PROVE  cstack'[i].thread # trun
    <3>1. i + (k - 1) \in DOMAIN cstack /\ cstack'[i] = cstack[i + (k - 1)] /\ i + (k - 1) > k
      BY <1>1, <1>7, <2>1
    <3>2. PICK j : j = i + (k - 1)
      OBVIOUS
    <3>3. j - k \in DOMAIN Under(cstack, k) /\ Under(cstack, k)[j - k] = cstack[j]
      <4>1. \A m \in DOMAIN cstack : m > k =>
              m - k \in DOMAIN Under(cstack, k) /\ Under(cstack, k)[m - k] = cstack[m]
        BY <1>1, CutDomain
      <4>2. QED
        BY <3>1, <3>2, <4>1
    <3>4. Under(cstack, k) \in Seq(ActSet) /\ StackOK(Under(cstack, k))
      BY <1>1, StackCut, CutDomain
    <3>5. cstack'[i].thread \in Chain(Under(cstack, k))
      BY <3>1, <3>2, <3>3, <3>4, OwnersInChain
    <3>6. QED
      BY <1>2, <3>5
  <2>2. 1 \in DOMAIN cstack' => cstack'[1] = a
    BY SMTT(30), <1>1, <1>7 DEF a
  <2>3. QED
    BY <1>2, <2>1, <2>2
<1>12. a.nccall = Len(cstack') /\ a.nccall <= MaxCCall + ExtraErrCall
  BY <1>1, <1>2, <1>6, <1>7 DEF CInv, DepthOK, a
<1>13. TypeOK'
  <2>1. a.nccall \in 0..(MaxCCall + ExtraErrCall + 1)
    BY <1>2, <1>12, Typed
  <2>2. nccall' \in [Thread -> 0..(MaxCCall + ExtraErrCall + 1)] /\ nxyield' \in [Thread -> Nat]
    BY <1>5, <2>1 DEF TypeOK
  <2>3. frames' \in [Thread -> Seq(FrameSet)]
    BY <1>4, <1>5 DEF TypeOK
  <2>4. ctl' \in Control
    BY <1>5 DEF Control, Ends
  <2>5. QED
    BY <1>5, <1>7, <2>2, <2>3, <2>4 DEF TypeOK
<1>14. ChainOK'
  <2>1. StackOK(cstack')
    BY <1>1, <1>6, StackCut
  <2>2. QED
    BY <1>5, <1>6, <1>10, <2>1 DEF CInv, ChainOK
<1>15. WaitOK'
  <2> SUFFICES ASSUME NEW i \in DOMAIN cstack', cstack'[i].fn = "resume"
               PROVE  /\ caller[cstack'[i].thread] = cstack'[i].from
                      /\ nccall'[cstack'[i].from] = Len(cstack') - i
                      /\ Len(frames'[cstack'[i].from]) = cstack'[i].depth
    BY <1>5 DEF WaitOK
  <2>1. i + (k - 1) \in DOMAIN cstack /\ cstack'[i] = cstack[i + (k - 1)] /\ i \in Nat
    BY <1>7
  <2>2. cstack[i + (k - 1)].from # trun /\ cstack[i + (k - 1)].from \in Thread
    BY <1>1, <2>1, Typed, WaitersDoNotRun
  <2>3. Len(cstack') - i = Len(cstack) - (i + (k - 1))
    BY <1>1, <1>7, <2>1
  <2>4. /\ caller[cstack[i + (k - 1)].thread] = cstack[i + (k - 1)].from
        /\ nccall[cstack[i + (k - 1)].from] = Len(cstack) - (i + (k - 1))
        /\ Len(frames[cstack[i + (k - 1)].from]) = cstack[i + (k - 1)].depth
    BY <2>1 DEF CInv, WaitOK
  <2>5. QED
    BY SMTT(30), <1>8, <2>1, <2>2, <2>3, <2>4
<1>16. DepthOK'
  <2>1. ASSUME NEW t \in Chain(cstack') PROVE nccall'[t] <= MaxCCall + ExtraErrCall
    <3>1. t \in Thread /\ nccall[t] <= MaxCCall + ExtraErrCall
      BY <1>10 DEF CInv, DepthOK
    <3>2. QED
      BY <1>8, <1>12, <3>1
  <2>2. \A i \in DOMAIN cstack' : cstack'[i].nccall <= MaxCCall + ExtraErrCall
    BY <1>7 DEF CInv, DepthOK
  <2>3. QED
    BY <1>5, <1>8, <1>12, <2>1, <2>2 DEF DepthOK
<1>17. CountOK'
  <2>1. ASSUME NEW t \in Chain(cstack') PROVE nxyield'[t] = Count(cstack', t)
    <3>1. CASE t = trun
      <4>1. Count(cstack', trun) = 0
        BY <1>7, <1>11, CountOfNone
      <4>2. QED
        BY <1>8, <3>1, <4>1
    <3>2. CASE t # trun
      <4>1. Count(cstack', t) = Count(cstack, t)
        <5>1. \A j \in 1..(k - 1) : cstack[j].thread # t
          BY <1>9, <3>2
        <5>2. Count(Under(cstack, k - 1), t) = Count(cstack, t)
          BY <1>1, <5>1, CountKeptByCut
        <5>3. QED
          BY <1>6, <5>2
      <4>2. QED
        BY <1>8, <1>10, <3>2, <4>1 DEF CInv, CountOK
    <3>3. QED
      BY <3>1, <3>2
  <2>2. QED
    BY <2>1 DEF CountOK
<1>18. FramesOK'
  <2> SUFFICES ASSUME NEW i \in DOMAIN cstack', cstack'[i].fn # "resume"
               PROVE  /\ cstack'[i].depth \in Nat /\ Len(frames'[cstack'[i].thread]) \in Nat
                      /\ cstack'[i].depth < Len(frames'[cstack'[i].thread])
    BY DEF FramesOK
  <2>1. i + (k - 1) \in DOMAIN cstack /\ cstack'[i] = cstack[i + (k - 1)] /\ cstack'[i].thread # trun
    BY <1>7, <1>11
  <2>2. cstack'[i].depth \in Nat /\ Len(frames[cstack'[i].thread]) \in Nat /\ cstack'[i].thread \in Thread
    BY <2>1, Typed
  <2>3. QED
    BY <1>8, <2>1, <2>2 DEF CInv, FramesOK
<1>19. BaseOK'
  <2>1. cstack' # <<>>
    <3>1. Len(cstack') \in Nat \ {0}
      BY <1>1, <1>7
    <3>2. QED
      BY <3>1
  <2>2. QED
    BY <1>4, <1>5, <1>8, <2>1 DEF BaseOK, Fs
<1>20. ContOK'
  <2> SUFFICES ASSUME NEW t \in Thread, status[t] # "Err", NEW h \in 1..(Len(frames'[t]) - 1)
               PROVE  Resumable(At(frames'[t], h)) \/ Blocked(t, h)'
    BY <1>5 DEF ContOK
  <2>1. CASE t # trun
    <3>1. Blocked(t, h) => Blocked(t, h)'
      <4>1. ASSUME NEW j \in DOMAIN cstack, cstack[j].noyield, cstack[j].thread = t, cstack[j].depth = h
            PROVE  Blocked(t, h)'
        <5>1. j > k - 1
          BY <1>1, <1>9, <2>1, <4>1
        <5>2. j - (k - 1) \in DOMAIN cstack' /\ cstack'[j - (k - 1)] = cstack[j]
          BY <1>7, <5>1
        <5>3. QED
          BY <4>1, <5>2 DEF Blocked
      <4>2. QED
        BY <4>1 DEF Blocked
    <3>2. QED
      BY <1>8, <2>1, <3>1 DEF CInv, ContOK
  <2>2. CASE t = trun
    <3>1. h < n /\ h \in Nat /\ h \in 1..n /\ h \in 1..(Len(Fs) - 1) /\ At(frames'[t], h) = At(Fs, h)
      BY <1>3, <1>4, <1>8, <2>2
    <3>2. ASSUME Blocked(t, h) PROVE FALSE
      <4>1. PICK j \in DOMAIN cstack : cstack[j].noyield /\ cstack[j].thread = trun /\ cstack[j].depth = h
        BY <2>2, <3>2 DEF Blocked
      <4>2. n <= cstack[j].depth
        BY <1>1, <1>3, <4>1 DEF CInv, ProtectorOK, Fs
      <4>3. QED
        BY <1>3, <3>1, <4>1, <4>2
    <3>3. QED
      BY <2>2, <3>1, <3>2 DEF CInv, ContOK, Fs
  <2>3. QED
    BY <2>1, <2>2
<1>21. ProtectorOK'
  <2> SUFFICES ASSUME NEW t \in Thread, NEW h \in 1..Len(frames'[t]), At(frames'[t], h).ypc,
                      NEW j \in DOMAIN cstack', cstack'[j].noyield, cstack'[j].thread = t
               PROVE  h <= cstack'[j].depth
    BY DEF ProtectorOK
  <2>1. j + (k - 1) \in DOMAIN cstack /\ cstack'[j] = cstack[j + (k - 1)] /\ t # trun
    BY <1>7, <1>11
  <2>2. QED
    BY <1>8, <2>1 DEF CInv, ProtectorOK
<1>22. QED
  BY <1>13, <1>14, <1>15, <1>16, <1>17, <1>18, <1>19, <1>20, <1>21 DEF CInv
(* What a new activation does to the C stack.                              *)
LEMMA ActsPushed ==
  ASSUME cstack \in Seq(ActSet), NEW a \in ActSet, cstack' = <<a>> \o cstack
  PROVE  /\ cstack' \in Seq(ActSet) /\ Len(cstack') = Len(cstack) + 1 /\ cstack' # <<>>
         /\ 1 \in DOMAIN cstack' /\ cstack'[1] = a
         /\ \A i \in DOMAIN cstack' : i \in Nat /\ (i = 1 \/ (i - 1 \in DOMAIN cstack /\ cstack'[i] = cstack[i - 1]))
         /\ \A i \in DOMAIN cstack : i + 1 \in DOMAIN cstack' /\ cstack'[i + 1] = cstack[i]
<1>1. /\ <<a>> \o cstack \in Seq(ActSet) /\ Len(<<a>> \o cstack) = Len(cstack) + 1
      /\ <<a>> \o cstack # <<>> /\ (<<a>> \o cstack)[1] = a
  BY Pushed
<1>2. /\ DOMAIN (<<a>> \o cstack) = 1..(Len(cstack) + 1) /\ 1 \in DOMAIN (<<a>> \o cstack)
      /\ \A i \in DOMAIN cstack : i + 1 \in DOMAIN (<<a>> \o cstack) /\ (<<a>> \o cstack)[i + 1] = cstack[i]
      /\ \A i \in DOMAIN (<<a>> \o cstack) : i # 1 =>
           i - 1 \in DOMAIN cstack /\ (<<a>> \o cstack)[i] = cstack[i - 1]
  BY PushedDomain
<1>3. QED
  BY <1>1, <1>2

LEMMA ActChanged ==
  ASSUME NEW b \in ActSet, NEW t \in Thread, NEW n \in Nat, NEW m \in Nat
  PROVE  [b EXCEPT !.thread = t, !.nccall = n, !.nxyield = m] \in ActSet
BY DEF ActSet

(* A coroutine is resumed.                                                 *)
LEMMA ResumedInv ==
  ASSUME TypeOK, CInv, ctl = "run", NEW t \in Thread, t # Main, status[t] = "Yield",
         ~Overflows(nccall[trun] + 1), args' \in [Thread -> 0..MaxArgs], Resumed(t)
  PROVE  TypeOK' /\ CInv'
<1> DEFINE a == [Act("resume", FALSE) EXCEPT !.thread = t, !.nccall = nccall[trun] + 1,
                                            !.nxyield = nxyield[t]]
<1>1. cstack \in Seq(ActSet) /\ StackOK(cstack) /\ Runs(trun, cstack) /\ trun \in Thread
      /\ Len(cstack) \in Nat /\ nccall[trun] = Len(cstack) /\ Settled
  BY Typed DEF CInv, ChainOK, DepthOK, Settled, TypeOK
<1>2. /\ cstack' = <<a>> \o cstack /\ trun' = t
      /\ nccall' = [nccall EXCEPT ![t] = nccall[trun] + 1]
      /\ nxyield' = [nxyield EXCEPT ![t] = 0]
      /\ caller' = [caller EXCEPT ![t] = trun]
      /\ status' = [status EXCEPT ![t] = "Run"]
      /\ ctl' = "enter" /\ UNCHANGED <<frames, body, errfun>>
  BY DEF Resumed
<1>3. /\ a.fn = "resume" /\ a.thread = t /\ a.from = trun /\ a.depth = Len(Fs) /\ a.noyield = FALSE
      /\ a.nccall = Len(cstack) + 1 /\ a.nxyield = nxyield[t] /\ a.errfun = errfun[trun]
      /\ a \in ActSet
  <2>1. Len(Fs) \in Nat /\ nxyield[t] \in Nat /\ errfun[trun] \in BOOLEAN
        /\ nccall[trun] \in Nat /\ nccall[trun] + 1 \in Nat /\ nxyield[trun] \in Nat
    BY <1>1, Typed DEF TypeOK
  <2>2. /\ a.fn = "resume" /\ a.thread = t /\ a.from = trun /\ a.depth = Len(Fs) /\ a.noyield = FALSE
        /\ a.nccall = Len(cstack) + 1 /\ a.nxyield = nxyield[t] /\ a.errfun = errfun[trun]
    BY <1>1 DEF Act
  <2>3. a \in ActSet
    <3>1. Act("resume", FALSE) \in ActSet
      BY <1>1, <2>1 DEF Act, ActSet
    <3>2. QED
      BY <2>1, <3>1, ActChanged, Zenon
  <2>4. QED
    BY <2>2, <2>3
<1> HIDE DEF a
<1>4. trun \in Chain(cstack) /\ t \notin Chain(cstack) /\ t # trun /\ Chain(cstack) \subseteq Thread
  BY Typed DEF CInv, ChainOK
<1>5. \A i \in DOMAIN cstack : /\ cstack[i] \in ActSet /\ cstack[i].thread \in Chain(cstack)
                               /\ cstack[i].from \in Chain(cstack)
  BY <1>1, OwnersInChain
<1>6. Placed(a, cstack)
  <2>1. ASSUME NEW i \in DOMAIN cstack, cstack[i].fn # "resume", cstack[i].thread = trun
        PROVE  cstack[i].depth < a.depth
    <3>1. cstack[i].depth \in Nat /\ Len(Fs) \in Nat
      BY Typed
    <3>2. cstack[i].depth <= Len(Fs) /\ cstack[i].depth # Len(Fs)
      BY <1>1, <2>1 DEF CInv, FramesOK, Fs
    <3>3. QED
      BY <1>3, <3>1, <3>2
  <2>2. cstack = <<>> => a.depth = 0
    BY <1>1, <1>3 DEF CInv, BaseOK, Runs, Fs
  <2>3. a.depth = 0 => trun = Main
    BY <1>3, Typed, EmptySeq DEF CInv, BaseOK
  <2>4. QED
    BY <1>1, <1>3, <1>4, <2>1, <2>2, <2>3 DEF Placed
<1>7. /\ cstack' \in Seq(ActSet) /\ Len(cstack') = Len(cstack) + 1 /\ cstack' # <<>>
      /\ 1 \in DOMAIN cstack' /\ cstack'[1] = a
      /\ \A i \in DOMAIN cstack' : i \in Nat /\ (i = 1 \/ (i - 1 \in DOMAIN cstack /\ cstack'[i] = cstack[i - 1]))
      /\ \A i \in DOMAIN cstack : i + 1 \in DOMAIN cstack' /\ cstack'[i + 1] = cstack[i]
  BY <1>1, <1>2, <1>3, ActsPushed
<1>8. Chain(cstack') = Chain(cstack) \cup {t}
  BY <1>1, <1>2, <1>3, ChainPushed
<1>9. /\ nccall'[t] = Len(cstack') /\ nxyield'[t] = 0 /\ caller'[t] = trun /\ status'[t] = "Run"
      /\ \A x \in Thread \ {t} : /\ nccall'[x] = nccall[x] /\ nxyield'[x] = nxyield[x]
                                 /\ caller'[x] = caller[x] /\ status'[x] = status[x]
  BY <1>1, <1>2, <1>7 DEF TypeOK
<1>10. Len(cstack') <= MaxCCall + ExtraErrCall
  <2>1. nccall[trun] + 1 < MaxCCall + ExtraErrCall
    BY <1>1, LimitAssumption DEF Overflows
  <2>2. QED
    BY <1>1, <1>7, <2>1, LimitAssumption
<1>11. TypeOK'
  <2>1. nccall[trun] + 1 \in 0..(MaxCCall + ExtraErrCall + 1)
    BY <1>1, <1>7, <1>10, LimitAssumption
  <2>2. nccall' \in [Thread -> 0..(MaxCCall + ExtraErrCall + 1)] /\ nxyield' \in [Thread -> Nat]
    BY <1>2, <2>1 DEF TypeOK
  <2>3. status' \in [Thread -> {"Run", "Yield", "Err"}] /\ caller' \in [Thread -> Thread \cup {NoThread}]
    BY <1>1, <1>2 DEF TypeOK
  <2>4. QED
    BY <1>2, <1>7, <2>2, <2>3 DEF TypeOK, Control
<1>12. ChainOK'
  <2>1. Runs(t, cstack') /\ StackOK(cstack')
    BY <1>1, <1>2, <1>3, <1>6, RunsPushed, StackPushed
  <2>2. ASSUME NEW x \in Thread PROVE status'[x] = "Run" <=> x \in Chain(cstack')
    BY <1>8, <1>9 DEF CInv, ChainOK
  <2>3. QED
    BY <1>2, <2>1, <2>2 DEF ChainOK
<1>13. WaitOK'
  <2> SUFFICES ASSUME NEW i \in DOMAIN cstack', cstack'[i].fn = "resume"
               PROVE  /\ caller'[cstack'[i].thread] = cstack'[i].from
                      /\ nccall'[cstack'[i].from] = Len(cstack') - i
                      /\ Len(frames[cstack'[i].from]) = cstack'[i].depth
    BY <1>2 DEF WaitOK
  <2>1. CASE i = 1
    BY <1>1, <1>3, <1>4, <1>7, <1>9, <2>1 DEF Fs
  <2>2. CASE i # 1
    <3>1. i - 1 \in DOMAIN cstack /\ cstack'[i] = cstack[i - 1] /\ Len(cstack') - i = Len(cstack) - (i - 1)
      BY <1>1, <1>7, <2>2
    <3>2. /\ cstack'[i].thread \in Thread \ {t} /\ cstack'[i].from \in Thread \ {t}
      BY <1>4, <1>5, <3>1
    <3>3. /\ caller[cstack'[i].thread] = cstack'[i].from
          /\ nccall[cstack'[i].from] = Len(cstack) - (i - 1)
          /\ Len(frames[cstack'[i].from]) = cstack'[i].depth
      BY <3>1 DEF CInv, WaitOK
    <3>4. QED
      BY <1>9, <3>1, <3>2, <3>3
  <2>3. QED
    BY <2>1, <2>2
<1>14. DepthOK'
  <2>1. ASSUME NEW x \in Chain(cstack') PROVE nccall'[x] <= MaxCCall + ExtraErrCall
    BY <1>4, <1>8, <1>9, <1>10 DEF CInv, DepthOK
  <2>2. \A i \in DOMAIN cstack' : cstack'[i].nccall <= MaxCCall + ExtraErrCall
    BY <1>3, <1>7, <1>10 DEF CInv, DepthOK
  <2>3. QED
    BY <1>2, <1>9, <2>1, <2>2 DEF DepthOK
<1>15. CountOK'
  <2>1. ASSUME NEW x \in Chain(cstack') PROVE nxyield'[x] = Count(cstack', x)
    <3>1. Count(<<a>> \o cstack, x) = IF a.thread = x /\ a.noyield THEN Count(cstack, x) + 1 ELSE Count(cstack, x)
      BY <1>1, <1>3, CountPushed
    <3>2. Count(cstack', x) = Count(cstack, x)
      BY <1>2, <1>3, <3>1
    <3>3. CASE x = t
      <4>1. Count(cstack, t) = 0
        BY <1>1, <1>4, <1>5, CountOfNone
      <4>2. QED
        BY <1>9, <3>2, <3>3, <4>1
    <3>4. CASE x # t
      BY <1>4, <1>8, <1>9, <3>2, <3>4 DEF CInv, CountOK
    <3>5. QED
      BY <3>3, <3>4
  <2>2. QED
    BY <2>1 DEF CountOK
<1>16. FramesOK'
  <2> SUFFICES ASSUME NEW i \in DOMAIN cstack', cstack'[i].fn # "resume"
               PROVE  /\ cstack'[i].depth <= Len(frames[cstack'[i].thread])
                      /\ cstack'[i].depth # Len(frames[cstack'[i].thread])
    BY <1>2 DEF FramesOK
  <2>1. i - 1 \in DOMAIN cstack /\ cstack'[i] = cstack[i - 1]
    BY <1>3, <1>7
  <2>2. QED
    BY <1>1, <2>1 DEF CInv, FramesOK
<1>17. BaseOK'
  BY <1>2, <1>7 DEF BaseOK
<1>18. ContOK'
  <2> SUFFICES ASSUME NEW x \in Thread, status'[x] # "Err", NEW h \in 1..(Len(frames[x]) - 1)
               PROVE  Resumable(At(frames[x], h)) \/ Blocked(x, h)'
    BY <1>2 DEF ContOK
  <2>1. status[x] # "Err"
    BY <1>9
  <2>2. Blocked(x, h) => Blocked(x, h)'
    BY <1>7 DEF Blocked
  <2>3. QED
    BY <2>1, <2>2 DEF CInv, ContOK
<1>19. ProtectorOK'
  <2> SUFFICES ASSUME NEW x \in Thread, NEW h \in 1..Len(frames[x]), At(frames[x], h).ypc,
                      NEW j \in DOMAIN cstack', cstack'[j].noyield, cstack'[j].thread = x
               PROVE  h <= cstack'[j].depth
    BY <1>2 DEF ProtectorOK
  <2>1. j - 1 \in DOMAIN cstack /\ cstack'[j] = cstack[j - 1]
    BY <1>3, <1>7
  <2>2. QED
    BY <2>1 DEF CInv, ProtectorOK
<1>20. QED
  BY <1>11, <1>12, <1>13, <1>14, <1>15, <1>16, <1>17, <1>18, <1>19 DEF CInv
(* Only the frames of the running thread change: a script function calls   *)
(* another one, or unroll goes on with the next frame.                     *)
LEMMA FramesInv ==
  ASSUME TypeOK, CInv, ctl \in {"run", "enter"}, cstack # <<>>,
         NEW fs \in Seq(FrameSet), fs # <<>>,
         \A i \in DOMAIN cstack : cstack[i].fn # "resume" /\ cstack[i].thread = trun
                                  => cstack[i].depth < Len(fs),
         \A h \in 1..(Len(fs) - 1) : Resumable(At(fs, h)) \/ Blocked(trun, h),
         \A h \in 1..Len(fs) : At(fs, h).ypc => h \in 1..Len(Fs) /\ At(Fs, h).ypc,
         frames' = [frames EXCEPT ![trun] = fs], ctl' \in {"run", "badcont"},
         body' \in [Thread -> BOOLEAN],
         UNCHANGED <<trun, status, caller, args, counters, errfun, cstack>>
  PROVE  TypeOK' /\ CInv'
<1>1. trun \in Thread /\ trun \in Chain(cstack) /\ Chain(cstack) \subseteq Thread /\ Settled
  BY Typed DEF TypeOK, Settled
<1>2. frames'[trun] = fs /\ \A t \in Thread \ {trun} : frames'[t] = frames[t]
  BY <1>1 DEF TypeOK
<1>3. UNCHANGED <<nccall, nxyield>>
  BY DEF counters
<1>4. TypeOK'
  BY <1>3 DEF TypeOK, Control, Ends
<1>5. ChainOK'
  BY DEF CInv, ChainOK
<1>6. WaitOK'
  <2>1. ASSUME NEW i \in DOMAIN cstack, cstack[i].fn = "resume"
        PROVE  cstack[i].from # trun /\ cstack[i].from \in Thread
    BY <2>1, Typed, WaitersDoNotRun DEF CInv, ChainOK
  <2>2. QED
    BY <1>2, <1>3, <2>1 DEF CInv, WaitOK
<1>7. DepthOK' /\ CountOK'
  BY <1>1, <1>3 DEF CInv, DepthOK, CountOK
<1>8. FramesOK'
  <2> SUFFICES ASSUME NEW i \in DOMAIN cstack, cstack[i].fn # "resume"
               PROVE  /\ cstack[i].depth <= Len(frames'[cstack[i].thread])
                      /\ cstack[i].depth # Len(frames'[cstack[i].thread])
    BY DEF FramesOK
  <2>1. cstack[i].depth \in Nat /\ Len(fs) \in Nat /\ cstack[i].thread \in Thread
    BY Typed
  <2>2. CASE cstack[i].thread = trun
    BY <1>2, <2>1, <2>2
  <2>3. CASE cstack[i].thread # trun
    BY <1>2, <2>1, <2>3 DEF CInv, FramesOK
  <2>4. QED
    BY <2>2, <2>3
<1>9. BaseOK'
  BY <1>2 DEF BaseOK, Fs
<1>10. ContOK'
  <2> SUFFICES ASSUME NEW t \in Thread, status[t] # "Err", NEW h \in 1..(Len(frames'[t]) - 1)
               PROVE  Resumable(At(frames'[t], h)) \/ Blocked(t, h)
    BY DEF ContOK, Blocked
  <2>1. CASE t = trun
    BY <1>2, <2>1
  <2>2. CASE t # trun
    BY <1>2, <2>2 DEF CInv, ContOK
  <2>3. QED
    BY <2>1, <2>2
<1>11. ProtectorOK'
  <2> SUFFICES ASSUME NEW t \in Thread, NEW h \in 1..Len(frames'[t]), At(frames'[t], h).ypc,
                      NEW j \in DOMAIN cstack, cstack[j].noyield, cstack[j].thread = t
               PROVE  h <= cstack[j].depth
    BY DEF ProtectorOK
  <2>1. CASE t = trun
    BY <1>2, <2>1 DEF CInv, ProtectorOK, Fs
  <2>2. CASE t # trun
    BY <1>2, <2>2 DEF CInv, ProtectorOK
  <2>3. QED
    BY <2>1, <2>2
<1>12. QED
  BY <1>4, <1>5, <1>6, <1>7, <1>8, <1>9, <1>10, <1>11 DEF CInv

(* Neither stack changes, and of the threads only those that are not in    *)
(* control: an error is raised, or a coroutine cannot be resumed.          *)
LEMMA AsideInv ==
  ASSUME TypeOK, CInv, UNCHANGED <<trun, frames, cstack, nxyield>>,
         \A t \in Chain(cstack) :
           nccall'[t] = nccall[t] /\ status'[t] = status[t] /\ caller'[t] = caller[t],
         \A t \in Thread \ Chain(cstack) :
           status'[t] # "Run" /\ (status[t] = "Err" => status'[t] = "Err"),
         ctl' # "enter", ctl' = "run" => ctl = "run", Settled' => Settled
  PROVE  CInv'
<1>1. trun \in Chain(cstack) /\ Chain(cstack) \subseteq Thread
  BY Typed
<1>2. \A i \in DOMAIN cstack : cstack[i].thread \in Chain(cstack) /\ cstack[i].from \in Chain(cstack)
  BY Typed, OwnersInChain DEF CInv, ChainOK
<1>3. ChainOK'
  BY DEF CInv, ChainOK
<1>4. WaitOK'
  BY <1>2 DEF CInv, WaitOK
<1>5. DepthOK' /\ CountOK'
  BY <1>1 DEF CInv, DepthOK, CountOK
<1>6. FramesOK'
  BY DEF CInv, FramesOK
<1>7. BaseOK'
  BY DEF CInv, BaseOK, Fs
<1>8. ContOK'
  <2>1. \A t \in Thread : status'[t] # "Err" => status[t] # "Err"
    OBVIOUS
  <2>2. QED
    BY <2>1 DEF CInv, ContOK, Blocked
<1>9. ProtectorOK'
  BY DEF CInv, ProtectorOK
<1>10. QED
  BY <1>3, <1>4, <1>5, <1>6, <1>7, <1>8, <1>9 DEF CInv

(* The innermost aloD_prun of the running thread is under what it has      *)
(* called, and nothing above it has been resumed.                          *)
LEMMA LabelFound ==
  ASSUME TypeOK, CInv, Labels # {}
  PROVE  /\ Label \in 1..Len(cstack) /\ cstack[Label].thread = trun
         /\ cstack[Label].fn \in {"pcall", "resume"}
         /\ \A j \in 1..(Label - 1) : cstack[j].fn # "resume"
         /\ SubSeq(cstack, Label + 1, Len(cstack)) = Under(cstack, Label)
<1>1. cstack \in Seq(ActSet) /\ DOMAIN cstack = 1..Len(cstack) /\ Len(cstack) \in Nat /\ Runs(trun, cstack)
  BY Typed DEF CInv, ChainOK
<1>2. Labels \in SUBSET Nat
  BY <1>1 DEF Labels
<1>3. \E i \in Labels : \A j \in Labels : i <= j
  BY <1>2, LeastExists
<1>4. Label \in Labels /\ \A j \in Labels : Label <= j
  BY <1>3 DEF Label
<1>5. PICK k : k = Label
  OBVIOUS
<1>6. k \in 1..Len(cstack) /\ cstack[k].thread = trun /\ cstack[k].fn \in {"pcall", "resume"}
  BY <1>1, <1>4, <1>5 DEF Labels
<1>7. ASSUME NEW j \in 1..(k - 1), cstack[j].fn = "resume" PROVE FALSE
  <2>1. j \in DOMAIN cstack /\ j \in Nat /\ j < k
    BY <1>1, <1>6
  <2>2. PICK r \in 1..j : cstack[r].fn = "resume" /\ cstack[r].thread = trun
    BY <1>1, <1>7, <2>1, TopResume
  <2>3. r \in Labels /\ r \in Nat /\ r < k
    BY <1>1, <1>6, <2>1, <2>2 DEF Labels
  <2>4. k <= r
    BY <1>4, <1>5, <2>3
  <2>5. QED
    BY <1>1, <1>6, <2>3, <2>4
<1>8. QED
  BY <1>5, <1>6, <1>7 DEF Under

(* Control goes back to the frames under the top one.                      *)
LEMMA BackToInv ==
  ASSUME TypeOK, CInv, ctl \in {"run", "enter"}, Fs # <<>>, BackTo(Tail(Fs))
  PROVE  TypeOK' /\ CInv'
<1> DEFINE a == cstack[1]
           fs == Tail(Fs)
<1>1. cstack \in Seq(ActSet) /\ StackOK(cstack) /\ Runs(trun, cstack) /\ trun \in Thread
      /\ Fs \in Seq(FrameSet) /\ Len(cstack) \in Nat /\ DOMAIN cstack = 1..Len(cstack) /\ Settled
  BY Typed DEF CInv, ChainOK, TypeOK, Settled
<1>2. cstack # <<>>
  BY <1>1 DEF CInv, BaseOK, Runs, Fs
<1>3. /\ 1 \in DOMAIN cstack /\ Head(cstack) = a /\ a \in ActSet /\ Tail(cstack) = Under(cstack, 1)
      /\ 1 \in 1..Len(cstack) /\ Placed(a, Under(cstack, 1))
  BY <1>1, <1>2, UnderTop DEF StackOK
<1>4. a.thread = trun /\ a.depth \in Nat
  BY <1>2, <1>1, <1>3, Typed DEF Runs
<1>5. /\ fs \in Seq(FrameSet) /\ Len(fs) = Len(Fs) - 1 /\ Len(Fs) \in Nat \ {0}
      /\ \A h \in 1..(Len(Fs) - 1) : At(fs, h) = At(Fs, h)
  BY <1>1, FramePopped
<1>6. a.fn # "resume" => a.depth < Len(Fs)
  BY <1>1, <1>3, <1>4, <1>5 DEF CInv, FramesOK, Fs
<1>7. CASE a.fn # "resume" /\ a.depth = Len(fs)
  BY <1>2, <1>3, <1>7, LeaveInv DEF BackTo
<1>8. CASE ~(a.fn # "resume" /\ a.depth = Len(fs)) /\ fs = <<>>
  <2>1. a.fn = "resume"
    <3> HIDE DEF fs
    <3>1. Len(fs) = 0
      BY <1>8, EmptySeq
    <3>2. Len(Fs) = 1
      BY <1>5, <3>1
    <3>3. a.fn # "resume" => a.depth = 0
      BY <1>4, <1>6, <3>2
    <3>4. QED
      BY <1>8, <3>1, <3>3
  <2>2. /\ ResumeEnds(a, Under(cstack, 1), "Yield")
        /\ frames' = [frames EXCEPT ![trun] = fs]
        /\ args' = [args EXCEPT ![trun] = 0]
        /\ ctl' = "run" /\ UNCHANGED <<caller, body, errfun>>
    BY <1>3, <1>8 DEF BackTo
  <2>3. \A j \in 1..(1 - 1) : cstack[j].fn # "resume"
    OBVIOUS
  <2>4. \A h \in 1..(Len(fs) - 1) : Resumable(At(fs, h))
    BY <1>8
  <2>5. QED
    BY <1>3, <1>4, <1>5, <2>1, <2>2, <2>3, <2>4, ResumeEndsInv
<1>9. CASE ~(a.fn # "resume" /\ a.depth = Len(fs)) /\ fs # <<>>
  <2>1. /\ frames' = [frames EXCEPT ![trun] = fs]
        /\ ctl' \in {"run", "badcont"}
        /\ UNCHANGED <<trun, status, caller, body, args, counters, errfun, cstack>>
    BY <1>3, <1>9 DEF BackTo
  <2>2. body' \in [Thread -> BOOLEAN]
    BY <2>1 DEF TypeOK
  <2>3. ASSUME NEW i \in DOMAIN cstack, cstack[i].fn # "resume", cstack[i].thread = trun
        PROVE  cstack[i].depth < Len(fs)
    <3>1. cstack[i].depth \in Nat /\ cstack[i].depth < Len(Fs)
      BY <1>1, <1>5, <2>3, Typed DEF CInv, FramesOK, Fs
    <3>2. CASE i = 1
      BY <1>5, <1>9, <2>3, <3>1, <3>2
    <3>3. CASE i # 1
      <4>1. i - 1 \in DOMAIN Under(cstack, 1) /\ Under(cstack, 1)[i - 1] = cstack[i]
        BY <1>1, <1>2, <3>3, Popped
      <4>2. a.fn # "resume"
        <5>1. Under(cstack, 1) \in Seq(ActSet) /\ StackOK(Under(cstack, 1))
          BY <1>1, <1>3, StackCut, Cut
        <5>2. trun \in Chain(Under(cstack, 1))
          BY <2>3, <4>1, <5>1, OwnersInChain
        <5>3. QED
          BY <1>3, <1>4, <5>2 DEF Placed
      <4>3. cstack[i].depth < a.depth
        BY <1>3, <1>4, <2>3, <4>1, <4>2 DEF Placed
      <4>4. QED
        BY <1>4, <1>5, <1>6, <3>1, <4>2, <4>3
    <3>4. QED
      BY <3>2, <3>3
  <2>4. ASSUME NEW h \in 1..(Len(fs) - 1)
        PROVE  Resumable(At(fs, h)) \/ Blocked(trun, h)
    <3>1. h \in 1..(Len(Fs) - 1) /\ At(fs, h) = At(Fs, h) /\ status[trun] # "Err"
      BY <1>1, <1>5 DEF CInv, ChainOK, Runs
    <3>2. QED
      BY <1>1, <3>1 DEF CInv, ContOK, Fs
  <2>5. \A h \in 1..Len(fs) : At(fs, h).ypc => h \in 1..Len(Fs) /\ At(Fs, h).ypc
    BY <1>5
  <2>6. QED
    BY <1>2, <1>5, <1>9, <2>1, <2>2, <2>3, <2>4, <2>5, FramesInv
<1>10. QED
  BY <1>7, <1>8, <1>9
-----------------------------------------------------------------------------
(* The actions.                                                            *)

(* No thread that is suspended has an activation, so nothing forbids it    *)
(* to be yielded across.                                                   *)
LEMMA SuspendedContinuable ==
  ASSUME TypeOK, CInv
  PROVE  ContinuableUnlessBare
<1> SUFFICES ASSUME NEW t \in Thread, status[t] = "Yield", NEW i \in 2..Len(frames[t])
             PROVE  Continuable(t, i) \/ frames[t][i].bare
  BY DEF ContinuableUnlessBare
<1>1. frames[t] \in Seq(FrameSet) /\ Len(frames[t]) \in Nat
  BY Typed
<1>2. PICK h : h = Len(frames[t]) - i + 1
  OBVIOUS
<1>3. h \in 1..(Len(frames[t]) - 1) /\ At(frames[t], h) = frames[t][i]
  BY <1>1, <1>2 DEF At
<1>4. t \notin Chain(cstack)
  BY DEF CInv, ChainOK
<1>5. ~Blocked(t, h)
  BY <1>4, Typed, OwnersInChain DEF Blocked, CInv, ChainOK
<1>6. Resumable(frames[t][i])
  BY <1>3, <1>5 DEF CInv, ContOK
<1>7. QED
  BY <1>6 DEF Resumable, Continuable

(* The process ends, in the middle of what the code was doing.             *)
LEMMA EndInv ==
  ASSUME ContinuableUnlessBare, UNCHANGED frames,
         \A t \in Thread : status'[t] = status[t] \/ status'[t] = "Err"
  PROVE  ContinuableUnlessBare'
BY DEF ContinuableUnlessBare, Continuable

LEMMA PrecallInv ==
  ASSUME TypeOK, CInv, Precall
  PROVE  TypeOK' /\ CInv'
<1>1. ctl = "run" /\ Fs # <<>> /\ Head(Fs).kind = "alo"
  BY DEF Precall, InScript, TopKind
<1>2. PICK kind \in Kind : frames' = [frames EXCEPT ![trun] = <<Frame(kind)>> \o @]
  BY DEF Precall
<1>3. UNCHANGED <<trun, status, caller, body, args, counters, errfun, cstack, ctl>>
  BY DEF Precall
<1>4. Frame(kind) \in FrameSet /\ ~Frame(kind).ypc
  BY DEF Frame, FrameSet
<1>5. PICK f \in FrameSet : f = Frame(kind) /\ ~f.ypc
  BY <1>4
<1>6. Fs \in Seq(FrameSet) /\ Len(Fs) \in Nat /\ trun \in Thread
  BY Typed DEF TypeOK
<1>7. PICK fs : fs = <<f>> \o Fs
  OBVIOUS
<1>8. /\ fs \in Seq(FrameSet) /\ Len(fs) = Len(Fs) + 1 /\ fs # <<>>
      /\ \A h \in 1..Len(Fs) : At(fs, h) = At(Fs, h)
      /\ At(fs, Len(Fs) + 1) = f
  BY <1>6, <1>7, FramePushed
<1>9. frames' = [frames EXCEPT ![trun] = fs]
  BY <1>2, <1>5, <1>7 DEF Fs
<1>10. cstack # <<>>
  BY <1>1 DEF CInv, BaseOK, ChainOK, Runs, Fs
<1>11. \A i \in DOMAIN cstack : cstack[i].fn # "resume" /\ cstack[i].thread = trun
                                => cstack[i].depth < Len(fs)
  BY <1>6, <1>8, Typed DEF CInv, FramesOK, Fs
<1>12. ASSUME NEW h \in 1..(Len(fs) - 1)
       PROVE  Resumable(At(fs, h)) \/ Blocked(trun, h)
  <2>1. h \in 1..Len(Fs) /\ At(fs, h) = At(Fs, h)
    BY <1>6, <1>8
  <2>2. CASE h = Len(Fs)
    <3>1. At(Fs, Len(Fs)) = Head(Fs)
      <4>1. Head(Fs) = Fs[1]
        BY <1>1, <1>6, UnderTop
      <4>2. QED
        BY <4>1 DEF At
    <3>2. QED
      BY <1>1, <2>1, <2>2, <3>1 DEF Resumable
  <2>3. CASE h # Len(Fs)
    <3>1. h \in 1..(Len(Fs) - 1) /\ status[trun] # "Err"
      BY <1>6, <2>1, <2>3 DEF CInv, ChainOK, Runs
    <3>2. QED
      BY <1>6, <2>1, <3>1 DEF CInv, ContOK, Fs
  <2>4. QED
    BY <2>2, <2>3
<1>13. \A h \in 1..Len(fs) : At(fs, h).ypc => h \in 1..Len(Fs) /\ At(Fs, h).ypc
  <2>1. \A h \in 1..Len(fs) : h = Len(Fs) + 1 \/ h \in 1..Len(Fs)
    BY <1>6, <1>8
  <2>2. QED
    BY <1>5, <1>8, <2>1
<1>14. body' \in [Thread -> BOOLEAN] /\ ctl' = "run"
  BY <1>1, <1>3 DEF TypeOK
<1>15. QED
  BY <1>1, <1>3, <1>8, <1>9, <1>10, <1>11, <1>12, <1>13, <1>14, FramesInv

LEMMA CallkInv ==
  ASSUME TypeOK, CInv, NEW k \in BOOLEAN, Callk(k)
  PROVE  TypeOK' /\ CInv'
<1>1. Fs \in Seq(FrameSet) /\ ctl = "run" /\ Settled /\ errfun[trun] \in BOOLEAN /\ Len(Fs) \in Nat
  BY Typed DEF Callk, InC, Settled, TypeOK
<1>2. CASE k /\ nxyield[trun] = 0
  <2>1. Call(Act("call", FALSE), Mark(Fs, "kfun", TRUE), errfun[trun]) /\ Fs # <<>>
    BY <1>2 DEF Callk
  <2>2. PICK fs : fs = Mark(Fs, "kfun", TRUE)
    OBVIOUS
  <2>3. /\ fs \in Seq(FrameSet) /\ Len(fs) = Len(Fs)
        /\ \A h \in 1..(Len(Fs) - 1) : At(fs, h) = At(Fs, h)
        /\ At(fs, Len(Fs)).kfun
    BY <1>1, <2>1, <2>2, FrameMarkedTrue
  <2>4. Resumable(At(fs, Len(fs)))
    BY <2>3 DEF Resumable
  <2>5. QED
    BY <1>1, <1>2, <2>1, <2>2, <2>3, <2>4, CallInv
<1>3. CASE ~(k /\ nxyield[trun] = 0)
  <2>1. Call(Act("call", TRUE), Fs, errfun[trun])
    BY <1>3 DEF Callk
  <2>2. QED
    BY <1>1, <2>1, CallInv
<1>4. QED
  BY <1>2, <1>3

LEMMA MetaCallInv ==
  ASSUME TypeOK, CInv, MetaCall
  PROVE  TypeOK' /\ CInv'
<1>1. Fs \in Seq(FrameSet) /\ ctl = "run" /\ Settled /\ errfun[trun] \in BOOLEAN /\ Fs # <<>>
  BY Typed DEF MetaCall, Settled, TypeOK
<1>2. PICK fs : fs = Mark(Fs, "bare", TRUE)
  OBVIOUS
<1>3. /\ fs \in Seq(FrameSet) /\ Len(fs) = Len(Fs)
      /\ \A h \in 1..(Len(Fs) - 1) : At(fs, h) = At(Fs, h)
      /\ At(fs, Len(Fs)).bare /\ (At(fs, Len(Fs)).ypc => At(Fs, Len(Fs)).ypc)
  BY <1>1, <1>2, FrameMarkedTrue
<1>4. Resumable(At(fs, Len(fs)))
  BY <1>3 DEF Resumable
<1>5. Call(Act("meta", FALSE), fs, errfun[trun])
  BY <1>2 DEF MetaCall
<1>6. QED
  BY <1>1, <1>3, <1>4, <1>5, CallInv

LEMMA PcallkInv ==
  ASSUME TypeOK, CInv, NEW k \in BOOLEAN, NEW ef \in BOOLEAN, Pcallk(k, ef)
  PROVE  TypeOK' /\ CInv'
<1>1. Fs \in Seq(FrameSet) /\ ctl = "run" /\ Settled /\ nxyield[trun] \in Nat /\ Len(Fs) \in Nat
  BY Typed DEF Pcallk, InC, Settled
<1>2. CASE ~k \/ nxyield[trun] > 0
  <2>1. Call(Act("pcall", TRUE), Fs, ef)
    BY <1>2 DEF Pcallk
  <2>2. QED
    BY <1>1, <2>1, CallInv
<1>3. CASE k /\ nxyield[trun] = 0
  <2>1. Call(Act("pcallk", FALSE), Mark(Mark(Fs, "kfun", TRUE), "ypc", TRUE), ef) /\ Fs # <<>>
    <3>1. ~(~k \/ nxyield[trun] > 0)
      BY <1>3
    <3>2. QED
      BY <1>3, <3>1 DEF Pcallk
  <2>2. PICK gs : gs = Mark(Fs, "kfun", TRUE)
    OBVIOUS
  <2>3. /\ gs \in Seq(FrameSet) /\ Len(gs) = Len(Fs)
        /\ \A h \in 1..(Len(Fs) - 1) : At(gs, h) = At(Fs, h)
        /\ At(gs, Len(Fs)).kfun
    BY <1>1, <2>1, <2>2, FrameMarkedTrue
  <2>4. gs # <<>>
    BY <1>1, <2>1, <2>3, EmptySeq
  <2>5. PICK fs : fs = Mark(gs, "ypc", TRUE)
    OBVIOUS
  <2>6. /\ fs \in Seq(FrameSet) /\ Len(fs) = Len(gs)
        /\ \A h \in 1..(Len(gs) - 1) : At(fs, h) = At(gs, h)
        /\ At(fs, Len(gs)).kfun
    BY <2>3, <2>4, <2>5, FrameMarkedTrue
  <2>7. /\ Len(fs) = Len(Fs) /\ \A h \in 1..(Len(Fs) - 1) : At(fs, h) = At(Fs, h)
        /\ Resumable(At(fs, Len(fs)))
    BY <2>3, <2>6 DEF Resumable
  <2>8. Call(Act("pcallk", FALSE), fs, ef)
    BY <2>1, <2>2, <2>5
  <2>9. QED
    BY <1>1, <1>3, <2>6, <2>7, <2>8, CallInv
<1>4. QED
  BY <1>1, <1>2, <1>3

LEMMA ThrowInv ==
  ASSUME TypeOK, CInv, Throw
  PROVE  TypeOK' /\ CInv'
<1>1. ctl = "run" /\ ctl' = "throw" /\ UNCHANGED <<trun, status, caller, body, args, errfun>>
      /\ UNCHANGED <<frames, cstack, nccall, nxyield>>
  BY DEF Throw, stacks, counters
<1>2. TypeOK'
  BY <1>1 DEF TypeOK, Control
<1>3. Settled /\ \A t \in Thread \ Chain(cstack) : status[t] # "Run"
  BY <1>1 DEF Settled, CInv, ChainOK
<1>4. CInv'
  BY <1>1, <1>3, AsideInv
<1>5. QED
  BY <1>2, <1>4
LEMMA HandleInv ==
  ASSUME TypeOK, ContinuableUnlessBare, CInv, Handle
  PROVE  TypeOK' /\ ContinuableUnlessBare' /\ (Alive' => CInv')
<1>1. ctl = "throw" /\ errfun[trun] \in BOOLEAN
  BY DEF Handle, TypeOK, CInv
<1>2. CASE ~errfun[trun] \/ nccall[trun] = MaxCCall
  <2>1. /\ ctl' \in {"recursion", "jump"}
        /\ UNCHANGED <<trun, status, caller, body, args, errfun>>
        /\ UNCHANGED <<frames, cstack, nccall, nxyield>>
    BY <1>2 DEF Handle, stacks, counters
  <2>2. TypeOK' /\ ContinuableUnlessBare'
    BY <2>1, EndInv DEF TypeOK, Control, Ends
  <2>3. ~Settled' /\ \A t \in Thread \ Chain(cstack) : status[t] # "Run"
    BY <2>1 DEF Settled, CInv, ChainOK
  <2>4. CInv'
    BY <2>1, <2>3, AsideInv
  <2>5. QED
    BY <2>2, <2>4
<1>3. CASE errfun[trun] /\ nccall[trun] # MaxCCall
  <2>1. Call(Act("handler", TRUE), Fs, TRUE) /\ Settled /\ Fs \in Seq(FrameSet)
    BY <1>1, <1>3, Typed DEF Handle, Settled
  <2>2. TypeOK' /\ CInv'
    BY <1>1, <2>1, CallInv
  <2>3. QED
    BY <2>2, SuspendedContinuable, PTL
<1>4. QED
  BY <1>1, <1>2, <1>3

LEMMA JumpInv ==
  ASSUME TypeOK, ContinuableUnlessBare, CInv, Jump
  PROVE  TypeOK' /\ ContinuableUnlessBare' /\ (Alive' => CInv')
<1> DEFINE act == cstack[Label]
           below == SubSeq(cstack, Label + 1, Len(cstack))
<1>1. CASE Labels = {}
  <2>1. /\ ctl' = "abort" /\ status' = [status EXCEPT ![trun] = "Err"]
        /\ UNCHANGED <<trun, caller, body, args, errfun>>
        /\ UNCHANGED <<frames, cstack, nccall, nxyield>>
    BY <1>1 DEF Jump, stacks, counters
  <2>2. TypeOK' /\ ~Alive'
    BY <2>1 DEF TypeOK, Control, Ends, Alive
  <2>3. ContinuableUnlessBare'
    BY <2>1, EndInv DEF TypeOK
  <2>4. QED
    BY <2>2, <2>3
<1>2. CASE Labels # {}
  <2>1. PICK k : k = Label
    OBVIOUS
  <2>2. /\ k \in 1..Len(cstack) /\ cstack[k].thread = trun /\ cstack[k].fn \in {"pcall", "resume"}
        /\ \A j \in 1..(k - 1) : cstack[j].fn # "resume"
        /\ below = Under(cstack, k)
    BY <1>2, <2>1, LabelFound
  <2>3. CASE cstack[k].fn = "pcall"
    <3>1. Caught(cstack[k], Under(cstack, k), Fs)
      BY <1>2, <2>1, <2>2, <2>3 DEF Jump
    <3>2. TypeOK' /\ CInv'
      BY <2>2, <2>3, <3>1, CaughtInv
    <3>3. QED
      BY <3>2, SuspendedContinuable, PTL
  <2>4. CASE cstack[k].fn = "resume" /\ Protectors(Fs) # {}
    <3>1. Recover(cstack[k], Under(cstack, k), Fs)
      BY <1>2, <2>1, <2>2, <2>4 DEF Jump
    <3>2. TypeOK' /\ CInv'
      BY <2>2, <2>4, <3>1, RecoverInv
    <3>3. QED
      BY <3>2, SuspendedContinuable, PTL
  <2>5. CASE cstack[k].fn = "resume" /\ Protectors(Fs) = {}
    <3>1. Dies(cstack[k], Under(cstack, k), Fs)
      BY <1>2, <2>1, <2>2, <2>5 DEF Jump
    <3>2. /\ ResumeEnds(cstack[k], Under(cstack, k), "Err")
          /\ frames' = [frames EXCEPT ![trun] = Fs]
          /\ ctl' \in {"run", "throw"} /\ UNCHANGED <<caller, body, args, errfun>>
      BY <3>1 DEF Dies
    <3>3. Fs \in Seq(FrameSet)
      BY Typed
    <3>4. TypeOK' /\ CInv'
      BY <2>2, <2>5, <3>2, <3>3, ResumeEndsInv
    <3>5. QED
      BY <3>4, SuspendedContinuable, PTL
  <2>6. QED
    BY <2>2, <2>3, <2>4, <2>5
<1>3. QED
  BY <1>1, <1>2

LEMMA YieldkInv ==
  ASSUME TypeOK, CInv, NEW k \in BOOLEAN, Yieldk(k)
  PROVE  TypeOK' /\ CInv'
<1>1. Fs \in Seq(FrameSet) /\ Fs # <<>> /\ ctl = "run" /\ nxyield[trun] \in Nat /\ Len(Fs) \in Nat \ {0}
  BY Typed, UnderTop DEF Yieldk, InC
<1>2. CASE nxyield[trun] > 0
  <2>1. ctl' = "throw" /\ UNCHANGED <<trun, status, caller, body, args, errfun>>
        /\ UNCHANGED <<frames, cstack, nccall, nxyield>>
    BY <1>2 DEF Yieldk, stacks, counters
  <2>2. TypeOK'
    BY <2>1 DEF TypeOK, Control
  <2>3. Settled /\ \A t \in Thread \ Chain(cstack) : status[t] # "Run"
    BY <1>1 DEF Settled, CInv, ChainOK
  <2>4. CInv'
    BY <2>1, <2>3, AsideInv
  <2>5. QED
    BY <2>2, <2>4
<1>3. CASE nxyield[trun] = 0
  <2>1. PICK n : n = Label
    OBVIOUS
  <2>2. ~(nxyield[trun] > 0)
    BY <1>3
  <2>3. Labels # {}
    BY <2>2 DEF Yieldk
  <2>4. /\ n \in 1..Len(cstack) /\ cstack[n].thread = trun /\ cstack[n].fn \in {"pcall", "resume"}
        /\ \A j \in 1..(n - 1) : cstack[j].fn # "resume"
        /\ SubSeq(cstack, Label + 1, Len(cstack)) = Under(cstack, n)
    BY <2>1, <2>3, LabelFound
  <2>5. /\ cstack \in Seq(ActSet) /\ DOMAIN cstack = 1..Len(cstack) /\ trun \in Chain(cstack)
        /\ trun \in Thread
    BY Typed DEF TypeOK
  <2>6. ASSUME NEW j \in DOMAIN cstack, cstack[j].thread = trun PROVE ~cstack[j].noyield
    <3>1. Count(cstack, trun) = 0
      BY <1>3, <2>5 DEF CInv, CountOK
    <3>2. (<<cstack[j]>> \o cstack)[1].thread = trun /\ cstack[j] \in ActSet
      BY <2>5, <2>6, Pushed
    <3>3. Count(cstack, trun) = 0 <=> \A i \in DOMAIN cstack : cstack[i].thread = trun => ~cstack[i].noyield
      BY <2>5, <3>2, CountPushed
    <3>4. QED
      BY <2>6, <3>1, <3>3
  <2>7. cstack[n].fn = "resume"
    BY <2>4, <2>5, <2>6 DEF CInv, ChainOK, StackOK, Placed
  <2>8. \A h : ~Blocked(trun, h)
    BY <2>6 DEF Blocked
  <2>9. \A h \in 1..(Len(Fs) - 1) : Resumable(At(Fs, h))
    BY <2>5, <2>8 DEF CInv, ContOK, ChainOK, Fs
  <2>10. PICK gs \in Seq(FrameSet) :
         /\ gs = IF k THEN <<Frame("c")>> \o Mark(Mark(Fs, "kfun", TRUE), "ypc", TRUE)
                 ELSE Mark(Fs, "kfun", FALSE)
         /\ \A h \in 1..(Len(gs) - 1) : Resumable(At(gs, h))
    <3>1. CASE k
      <4>1. PICK m1 : m1 = Mark(Fs, "kfun", TRUE)
        OBVIOUS
      <4>2. /\ m1 \in Seq(FrameSet) /\ Len(m1) = Len(Fs) /\ At(m1, Len(Fs)).kfun
            /\ \A h \in 1..(Len(Fs) - 1) : At(m1, h) = At(Fs, h)
        BY <1>1, <4>1, FrameMarkedTrue
      <4>3. m1 # <<>>
        BY <1>1, <4>2, EmptySeq
      <4>4. PICK m2 : m2 = Mark(m1, "ypc", TRUE)
        OBVIOUS
      <4>5. /\ m2 \in Seq(FrameSet) /\ Len(m2) = Len(Fs) /\ At(m2, Len(Fs)).kfun
            /\ \A h \in 1..(Len(Fs) - 1) : At(m2, h) = At(Fs, h)
        BY <4>2, <4>3, <4>4, FrameMarkedTrue
      <4>6. \A h \in 1..Len(Fs) : Resumable(At(m2, h))
        <5>1. ASSUME NEW h \in 1..Len(Fs), h # Len(Fs) PROVE Resumable(At(m2, h))
          <6>1. h \in 1..(Len(Fs) - 1)
            BY <1>1, <5>1
          <6>2. QED
            BY <2>9, <4>5, <6>1
        <5>2. Resumable(At(m2, Len(Fs)))
          BY <4>5 DEF Resumable
        <5>3. QED
          BY <5>1, <5>2
      <4>7. Frame("c") \in FrameSet
        BY DEF Frame, FrameSet, Kind
      <4>8. PICK gs : gs = <<Frame("c")>> \o m2
        OBVIOUS
      <4>9. gs \in Seq(FrameSet) /\ Len(gs) = Len(Fs) + 1 /\ \A h \in 1..Len(Fs) : At(gs, h) = At(m2, h)
        BY <4>5, <4>7, <4>8, FramePushed
      <4>10. \A h \in 1..(Len(gs) - 1) : Resumable(At(gs, h))
        BY <1>1, <4>6, <4>9
      <4>11. QED
        BY <3>1, <4>1, <4>4, <4>8, <4>9, <4>10
    <3>2. CASE ~k
      <4>1. PICK m \in Seq(FrameSet) : /\ Mark(Fs, "kfun", FALSE) = m /\ Len(m) = Len(Fs)
                                       /\ \A h \in 1..(Len(Fs) - 1) : At(m, h) = At(Fs, h)
        BY <1>1, FrameMarkedFalse
      <4>2. QED
        BY <2>9, <3>2, <4>1
    <3>3. QED
      BY <3>1, <3>2
  <2>11. /\ ResumeEnds(cstack[n], Under(cstack, n), "Yield")
         /\ frames' = [frames EXCEPT ![trun] = gs]
         /\ caller' = [caller EXCEPT ![trun] = NoThread]
         /\ UNCHANGED <<body, args, errfun, ctl>>
    BY <2>1, <2>2, <2>4, <2>7, <2>10 DEF Yieldk
  <2>12. QED
    BY <1>1, <2>4, <2>7, <2>10, <2>11, ResumeEndsInv
<1>4. QED
  BY <1>1, <1>2, <1>3

LEMMA EnterInv ==
  ASSUME TypeOK, CInv, Enter
  PROVE  TypeOK' /\ CInv'
<1>1. ctl = "enter" /\ Settled /\ trun \in Thread /\ Len(Fs) \in Nat
  BY Typed DEF Enter, Settled, TypeOK
<1>2. CASE Fs # <<>>
  BY <1>1, <1>2, BackToInv DEF Enter
<1>3. CASE Fs = <<>>
  <2>1. UNCHANGED <<trun, status, caller, args, counters, errfun, cstack>>
        /\ body' = [body EXCEPT ![trun] = FALSE]
    BY <1>3 DEF Enter
  <2>2. body' \in [Thread -> BOOLEAN]
    BY <2>1 DEF TypeOK
  <2>3. CASE ctl' = "run" /\ \E kind \in Kind : frames' = [frames EXCEPT ![trun] = <<Frame(kind)>>]
    <3>1. PICK kind \in Kind : frames' = [frames EXCEPT ![trun] = <<Frame(kind)>>]
      BY <2>3
    <3>2. Frame(kind) \in FrameSet /\ ~Frame(kind).ypc
      BY DEF Frame, FrameSet
    <3>3. PICK f \in FrameSet : f = Frame(kind) /\ ~f.ypc
      BY <3>2
    <3>4. /\ <<f>> \in Seq(FrameSet) /\ Len(<<f>>) = 1 /\ <<f>> # <<>> /\ At(<<f>>, 1) = f
      BY DEF At
    <3>5. Len(Fs) = 0
      BY <1>3, EmptySeq
    <3>6. cstack # <<>>
      BY <1>1 DEF CInv, BaseOK, ChainOK, Runs
    <3>7. \A i \in DOMAIN cstack : cstack[i].fn # "resume" /\ cstack[i].thread = trun
                                   => cstack[i].depth < Len(<<f>>)
      BY <1>1, <3>4, <3>5, Typed DEF CInv, FramesOK, Fs
    <3>8. \A h \in 1..(Len(<<f>>) - 1) : FALSE
      BY <3>4
    <3>9. \A h \in 1..Len(<<f>>) : ~At(<<f>>, h).ypc
      BY <3>3, <3>4
    <3>10. frames' = [frames EXCEPT ![trun] = <<f>>]
      BY <3>1, <3>3
    <3>11. QED
      BY <1>1, <2>1, <2>2, <2>3, <3>4, <3>6, <3>7, <3>8, <3>9, <3>10, FramesInv
  <2>4. CASE ctl' = "throw" /\ UNCHANGED frames
    <3>1. UNCHANGED <<trun, frames, cstack, nxyield, nccall, status, caller>>
      BY <2>1, <2>4 DEF counters
    <3>2. TypeOK'
      BY <2>1, <2>2, <2>4, <3>1 DEF TypeOK, Control
    <3>3. \A t \in Thread \ Chain(cstack) : status[t] # "Run"
      BY DEF CInv, ChainOK
    <3>4. CInv'
      BY <1>1, <2>4, <3>1, <3>3, AsideInv
    <3>5. QED
      BY <3>2, <3>4
  <2>5. QED
    BY <1>3, <2>3, <2>4 DEF Enter
<1>4. QED
  BY <1>2, <1>3

LEMMA ResumeInv ==
  ASSUME TypeOK, ContinuableUnlessBare, CInv, NEW t \in Thread, NEW n \in 0..MaxArgs, Resume(t, n)
  PROVE  TypeOK' /\ ContinuableUnlessBare' /\ (Alive' => CInv')
<1>1. /\ ctl = "run" /\ Settled /\ trun \in Thread /\ trun \in Chain(cstack)
      /\ nccall[trun] \in Nat /\ MaxCCall \in Nat /\ ExtraErrCall \in Nat
      /\ \A x \in Thread : status[x] = "Run" <=> x \in Chain(cstack)
      /\ Chain(cstack) \subseteq Thread
  BY Typed DEF Resume, InC, Settled, TypeOK, CInv, ChainOK
<1>2. args' \in [Thread -> 0..MaxArgs]
  <2>1. args[t] \in Nat /\ MaxArgs \in Nat /\ n \in Nat
    BY LimitAssumption DEF TypeOK
  <2>2. CASE frames[t] = <<>> /\ t # Main
    <3>1. args[t] + n \in 0..MaxArgs /\ args' = [args EXCEPT ![t] = args[t] + n]
      BY <2>1, <2>2 DEF Resume
    <3>2. QED
      BY <3>1 DEF TypeOK
  <2>3. CASE ~(frames[t] = <<>> /\ t # Main)
    <3>1. args' = [args EXCEPT ![t] = args[t]]
      BY <2>3 DEF Resume
    <3>2. QED
      BY <3>1 DEF TypeOK
  <2>4. QED
    BY <2>2, <2>3
<1>3. ASSUME Refuse PROVE TypeOK' /\ CInv'
  <2>1. ctl' \in {"run", "throw"} /\ UNCHANGED <<trun, status, caller, body, errfun>>
        /\ UNCHANGED <<frames, cstack, nccall, nxyield>>
    BY <1>3 DEF Refuse, stacks, counters
  <2>2. TypeOK'
    BY <1>2, <2>1 DEF TypeOK, Control
  <2>3. CInv'
    BY <1>1, <2>1, AsideInv
  <2>4. QED
    BY <2>2, <2>3
<1>4. CASE NotSuspended(t) \/ Dead(t, n)
  <2>1. TypeOK' /\ CInv'
    BY <1>3, <1>4 DEF Resume
  <2>2. QED
    BY <2>1, SuspendedContinuable, PTL
<1>5. CASE ~NotSuspended(t) /\ ~Dead(t, n) /\ Overflows(nccall[trun] + 1)
  <2>1. OverflowOn(t)
    BY <1>5 DEF Resume
  <2>2. /\ nccall' = [nccall EXCEPT ![t] = nccall[trun] + 1]
        /\ UNCHANGED <<trun, frames, cstack, body, nxyield, errfun>>
        /\ \/ ctl' = "recursion" /\ UNCHANGED <<status, caller>>
           \/ /\ status' = [status EXCEPT ![t] = "Err"]
              /\ caller' = [caller EXCEPT ![t] = NoThread]
              /\ ctl' \in {"abort", "jump", "lost"}
    BY <2>1 DEF OverflowOn, stacks
  <2>3. t \notin Chain(cstack) /\ t # trun /\ status[t] # "Run"
    BY <1>1, <1>5 DEF NotSuspended
  <2>4. TypeOK'
    <3>1. nccall[trun] + 1 \in 0..(MaxCCall + ExtraErrCall + 1)
      BY <1>1 DEF CInv, DepthOK
    <3>2. nccall' \in [Thread -> 0..(MaxCCall + ExtraErrCall + 1)]
      BY <2>2, <3>1 DEF TypeOK
    <3>3. status' \in [Thread -> {"Run", "Yield", "Err"}] /\ caller' \in [Thread -> Thread \cup {NoThread}]
      BY <2>2 DEF TypeOK
    <3>4. QED
      BY <1>2, <2>2, <3>2, <3>3 DEF TypeOK, Control, Ends
  <2>5. \A x \in Thread : /\ status'[x] = status[x] \/ status'[x] = "Err"
                          /\ x # t => /\ status'[x] = status[x] /\ nccall'[x] = nccall[x]
                                      /\ caller'[x] = caller[x]
    BY <2>2 DEF TypeOK
  <2>6. ContinuableUnlessBare'
    BY <2>2, <2>5, EndInv
  <2>7. CInv'
    <3>1. \A x \in Chain(cstack) :
            nccall'[x] = nccall[x] /\ status'[x] = status[x] /\ caller'[x] = caller[x]
      BY <1>1, <2>3, <2>5
    <3>2. \A x \in Thread \ Chain(cstack) :
            status'[x] # "Run" /\ (status[x] = "Err" => status'[x] = "Err")
      BY <1>1, <2>5
    <3>3. ctl' # "enter" /\ ctl' # "run" /\ ~Settled'
      BY <2>2 DEF Settled
    <3>4. QED
      BY <2>2, <3>1, <3>2, <3>3, AsideInv
  <2>8. QED
    BY <2>4, <2>6, <2>7
<1>6. CASE ~NotSuspended(t) /\ ~Dead(t, n) /\ ~Overflows(nccall[trun] + 1)
  <2>1. Resumed(t) /\ t # Main /\ status[t] # "Run" /\ status[t] # "Err"
    BY <1>6 DEF Resume, NotSuspended, Dead
  <2>2. status[t] = "Yield"
    BY <2>1 DEF TypeOK
  <2>3. TypeOK' /\ CInv'
    BY <1>1, <1>2, <1>6, <2>1, <2>2, ResumedInv
  <2>4. QED
    BY <2>3, SuspendedContinuable, PTL
<1>7. QED
  BY <1>4, <1>5, <1>6
LEMMA InitInv ==
  ASSUME Init
  PROVE  IInv
<1>1. Main \in Thread /\ cstack = <<>> /\ DOMAIN cstack = {} /\ Len(cstack) = 0 /\ trun = Main /\ ctl = "run"
  BY ThreadAssumption DEF Init
<1>2. <<>> \in Seq(FrameSet) /\ <<>> \in Seq(ActSet) /\ 0 \in 0..MaxArgs
      /\ 0 \in 0..(MaxCCall + ExtraErrCall + 1)
  BY LimitAssumption
<1>3. TypeOK
  BY <1>1, <1>2 DEF Init, TypeOK, Control
<1>4. Chain(cstack) = {Main}
  BY <1>1 DEF Chain
<1>5. \A t : Count(cstack, t) = 0
  BY <1>1, <1>2, CountOfNone
<1>6. \A t \in Thread : Len(frames[t]) = 0 /\ nccall[t] = 0 /\ nxyield[t] = 0 /\ frames[t] = <<>>
  BY DEF Init
<1>7. ChainOK
  BY <1>1, <1>4 DEF Init, ChainOK, Runs, StackOK
<1>8. WaitOK /\ FramesOK /\ ProtectorOK /\ ContOK /\ BaseOK
  <2>1. \A t \in Thread : 1..Len(frames[t]) = {} /\ 1..(Len(frames[t]) - 1) = {}
    BY <1>6
  <2>2. QED
    BY <1>1, <1>6, <2>1 DEF WaitOK, FramesOK, ProtectorOK, ContOK, BaseOK
<1>9. DepthOK /\ CountOK
  BY <1>1, <1>4, <1>5, <1>6, LimitAssumption DEF DepthOK, CountOK
<1>10. QED
  BY <1>3, <1>7, <1>8, <1>9, SuspendedContinuable DEF CInv, IInv

(* The inductive step: one case per action.                                *)
LEMMA NextInv ==
  ASSUME IInv, [Next]_vars
  PROVE  IInv'
<1>1. TypeOK /\ ContinuableUnlessBare
  BY DEF IInv
<1>2. CASE UNCHANGED vars
  <2>1. UNCHANGED <<trun, status, caller, frames, cstack, body, args, nccall, nxyield, errfun, ctl>>
    BY <1>2 DEF vars, stacks, counters
  <2>2. TypeOK' /\ ContinuableUnlessBare'
    BY <1>1, <2>1 DEF TypeOK, ContinuableUnlessBare, Continuable
  <2>3. CInv => CInv'
    BY <2>1 DEF CInv, ChainOK, WaitOK, DepthOK, Settled, CountOK, FramesOK, BaseOK, Fs,
                ContOK, Blocked, ProtectorOK
  <2>4. Alive' => Alive
    BY <2>1 DEF Alive
  <2>5. QED
    BY <1>1, <2>2, <2>3, <2>4 DEF IInv
<1>3. CASE Next
  <2>1. Alive
    BY <1>3 DEF Next, Program, Precall, MetaCall, Return, Throw, Callk, Yieldk, Pcallk, Resume, Enter,
                Handle, Jump, InC, InScript, Alive, Ends
  <2>2. CInv
    BY <2>1 DEF IInv
  <2>3. ASSUME TypeOK', CInv' PROVE IInv'
    BY <2>3, SuspendedContinuable, PTL DEF IInv
  <2>4. ASSUME TypeOK', ContinuableUnlessBare', Alive' => CInv' PROVE IInv'
    BY <2>4 DEF IInv
  <2>5. CASE Precall
    BY <1>1, <2>2, <2>3, <2>5, PrecallInv
  <2>6. CASE MetaCall
    BY <1>1, <2>2, <2>3, <2>6, MetaCallInv
  <2>7. CASE Return
    BY <1>1, <2>2, <2>3, <2>7, BackToInv DEF Return
  <2>8. CASE Throw
    BY <1>1, <2>2, <2>3, <2>8, ThrowInv
  <2>9. ASSUME NEW k \in BOOLEAN, Callk(k) PROVE IInv'
    BY <1>1, <2>2, <2>3, <2>9, CallkInv
  <2>10. ASSUME NEW k \in BOOLEAN, Yieldk(k) PROVE IInv'
    BY <1>1, <2>2, <2>3, <2>10, YieldkInv
  <2>11. ASSUME NEW k \in BOOLEAN, NEW ef \in BOOLEAN, Pcallk(k, ef) PROVE IInv'
    BY <1>1, <2>2, <2>3, <2>11, PcallkInv
  <2>12. ASSUME NEW t \in Thread, NEW n \in 0..MaxArgs, Resume(t, n) PROVE IInv'
    BY <1>1, <2>2, <2>4, <2>12, ResumeInv
  <2>13. CASE Enter
    BY <1>1, <2>2, <2>3, <2>13, EnterInv
  <2>14. CASE Handle
    BY <1>1, <2>2, <2>4, <2>14, HandleInv
  <2>15. CASE Jump
    BY <1>1, <2>2, <2>4, <2>15, JumpInv
  <2>16. QED
    BY <1>3, <2>5, <2>6, <2>7, <2>8, <2>9, <2>10, <2>11, <2>12, <2>13, <2>14, <2>15 DEF Next, Program
<1>4. QED
  BY <1>2, <1>3

(* Whatever calls, yields, resumes and throws, and whatever it cuts off,   *)
(* the threads, their frames and the counters fit the C stack.             *)
THEOREM Invariant == Spec => []IInv
<1>1. Init => IInv
  BY InitInv
<1>2. IInv /\ [Next]_vars => IInv'
  BY NextInv
<1>3. QED
  BY <1>1, <1>2, PTL DEF Spec

-----------------------------------------------------------------------------
(* What the invariant says of the properties.                              *)

(* Every state keeps the types of its variables.                           *)
THEOREM TypeCorrect == Spec => []TypeOK
<1>1. IInv => TypeOK
  BY DEF IInv
<1>2. QED
  BY <1>1, Invariant, PTL

(* ado.c, alo_resume and aloD_throw: whatever is called, yielded or raised *)
(* (G->trun, T->caller and T->status), the threads in status Run are those *)
(* that have resumed one another, each once, and each has its resumer as   *)
(* its caller.                                                             *)
THEOREM ChainIsKept == Spec => []ChainKept
<1>1. IInv => ChainKept
  <2> SUFFICES ASSUME TypeOK, CInv PROVE ChainKept
    BY DEF IInv, ChainKept
  <2>1. /\ cstack \in Seq(ActSet) /\ StackOK(cstack) /\ DOMAIN cstack = 1..Len(cstack) /\ Len(cstack) \in Nat
        /\ Runs(trun, cstack)
    BY Typed DEF CInv, ChainOK
  <2>2. InControl = Chain(cstack)
    BY DEF InControl, Resumes, Chain
  <2>3. \A t \in Thread : status[t] = "Run" <=> t \in InControl
    BY <2>2 DEF CInv, ChainOK
  <2>4. \A i \in Resumes : caller[cstack[i].thread] = cstack[i].from
    BY DEF Resumes, CInv, WaitOK
  <2>5. ASSUME NEW i \in Resumes, NEW j \in Resumes, i < j
        PROVE  cstack[i].thread # cstack[j].thread
    <3>1. i \in DOMAIN cstack /\ j \in DOMAIN cstack /\ cstack[i].fn = "resume" /\ cstack[j].fn = "resume"
          /\ i \in 0..Len(cstack) /\ j \in Nat /\ j > i
      BY <2>1, <2>5 DEF Resumes
    <3>2. cstack[i].thread \notin Chain(Under(cstack, i))
      BY <2>1, <3>1 DEF StackOK, Placed
    <3>3. \A m \in DOMAIN cstack : m > i =>
            m - i \in DOMAIN Under(cstack, i) /\ Under(cstack, i)[m - i] = cstack[m]
      BY <2>1, <3>1, CutDomain
    <3>4. j - i \in DOMAIN Under(cstack, i) /\ Under(cstack, i)[j - i] = cstack[j]
      BY <3>1, <3>3
    <3>5. cstack[j].thread \in Chain(Under(cstack, i))
      BY <3>1, <3>4 DEF Chain
    <3>6. QED
      BY <3>2, <3>5
  <2>6. \A i, j \in Resumes : cstack[i].thread = cstack[j].thread => i = j
    <3>1. \A i \in Resumes : i \in Nat
      BY <2>1 DEF Resumes
    <3>2. QED
      BY <2>5, <3>1
  <2>7. \A i \in DOMAIN cstack : (\A j \in 1..(i - 1) : j \notin Resumes) => cstack[i].thread = trun
    <3>1. \A i \in DOMAIN cstack : \A j \in 1..(i - 1) : j \in DOMAIN cstack
      BY <2>1
    <3>2. QED
      BY <2>1, <3>1 DEF Runs, Resumes
  <2>8. QED
    BY <2>3, <2>4, <2>6, <2>7 DEF ChainKept
<1>2. QED
  BY <1>1, Invariant, PTL

(* astate.h, nccall: a thread that runs counts the activations on the C    *)
(* stack, after any returns, yields and jumps.                             *)
THEOREM DepthIsCounted == Spec => []DepthCounted
<1>1. IInv => DepthCounted
  BY DEF IInv, Alive, Ends, CInv, DepthOK, Settled, DepthCounted
<1>2. QED
  BY <1>1, Invariant, PTL

(* astate.h, nxyield: every thread in control counts its activations that  *)
(* forbid a yield.                                                         *)
THEOREM BoundariesAreCounted == Spec => []BoundariesCounted
<1>1. IInv => BoundariesCounted
  <2> SUFFICES ASSUME CInv PROVE BoundariesCounted
    BY DEF IInv, BoundariesCounted, Alive, Ends
  <2>1. InControl = Chain(cstack)
    BY DEF InControl, Resumes, Chain
  <2>2. \A t : Count(cstack, t) = Cardinality(NoYields(t))
    BY DEF Count, NoYields
  <2>3. QED
    BY <2>1, <2>2 DEF CInv, CountOK, BoundariesCounted
<1>2. QED
  BY <1>1, Invariant, PTL

(* ado.c, postpcc: a suspended coroutine is continuable, but for the frames *)
(* whose functions were calling a metamethod.                              *)
THEOREM SuspendedIsContinuable == Spec => []ContinuableUnlessBare
<1>1. IInv => ContinuableUnlessBare
  BY DEF IInv
<1>2. QED
  BY <1>1, Invariant, PTL
-----------------------------------------------------------------------------
(* Coroutines that have ended.                                             *)

(* A step changes the frames of no thread but the running one, and leaves  *)
(* status Err only by resuming, which looks at the status.                 *)
LEMMA OthersAreLeft ==
  ASSUME TypeOK, CInv, Next, NEW x \in Thread, x # trun
  PROVE  frames'[x] = frames[x] /\ (status[x] = "Err" => status'[x] = "Err")
<1>1. trun \in Thread /\ trun \in Chain(cstack)
  BY Typed DEF TypeOK
<1>2. ASSUME NEW fs, frames' = [frames EXCEPT ![trun] = fs] PROVE frames'[x] = frames[x]
  BY <1>2 DEF TypeOK
<1>3. ASSUME NEW act, NEW fs, NEW ef, Call(act, fs, ef)
      PROVE  frames'[x] = frames[x] /\ status' = status
  BY <1>2, <1>3 DEF Call
<1>4. ASSUME NEW act, NEW fs, Leave(act, fs)
      PROVE  frames'[x] = frames[x] /\ status' = status
  BY <1>2, <1>4 DEF Leave
<1>5. ASSUME NEW act, NEW below, NEW st, ResumeEnds(act, below, st), act.thread = trun
      PROVE  status'[x] = status[x]
  BY <1>5 DEF ResumeEnds, TypeOK
<1>6. ASSUME NEW act, NEW below, NEW fs, Caught(act, below, fs)
      PROVE  frames'[x] = frames[x] /\ status' = status
  BY <1>2, <1>6 DEF Caught
<1>7. CASE Precall \/ Throw
  BY <1>2, <1>7 DEF Precall, Throw, stacks
<1>8. CASE \E k \in BOOLEAN : Callk(k)
  BY <1>3, <1>8 DEF Callk
<1>9. CASE MetaCall
  BY <1>3, <1>9 DEF MetaCall
<1>10. CASE \E k \in BOOLEAN, ef \in BOOLEAN : Pcallk(k, ef)
  BY <1>3, <1>10 DEF Pcallk
<1>11. ASSUME Fs # <<>>, BackTo(Tail(Fs))
       PROVE  frames'[x] = frames[x] /\ status'[x] = status[x]
  <2>1. cstack # <<>>
    BY <1>11 DEF CInv, BaseOK, ChainOK, Runs, Fs
  <2>2. Head(cstack).thread = trun
    BY <2>1, Typed, UnderTop DEF CInv, ChainOK, Runs
  <2>3. \/ Leave(Head(cstack), Tail(Fs))
        \/ /\ ResumeEnds(Head(cstack), Tail(cstack), "Yield")
           /\ frames' = [frames EXCEPT ![trun] = Tail(Fs)]
        \/ frames' = [frames EXCEPT ![trun] = Tail(Fs)] /\ UNCHANGED status
    BY <1>11 DEF BackTo
  <2>4. QED
    BY <1>2, <1>4, <1>5, <2>2, <2>3
<1>12. CASE Return
  BY <1>11, <1>12 DEF Return
<1>13. CASE Enter
  <2>1. CASE Fs # <<>>
    BY <1>11, <1>13, <2>1 DEF Enter
  <2>2. CASE Fs = <<>>
    <3>1. UNCHANGED status /\ (UNCHANGED frames \/ \E fs : frames' = [frames EXCEPT ![trun] = fs])
      BY <1>13, <2>2 DEF Enter
    <3>2. QED
      BY <1>2, <3>1
  <2>3. QED
    BY <2>1, <2>2
<1>14. CASE Handle
  <2>1. (UNCHANGED status /\ UNCHANGED frames) \/ Call(Act("handler", TRUE), Fs, TRUE)
    BY <1>14 DEF Handle, stacks
  <2>2. QED
    BY <1>3, <2>1
<1>15. CASE Jump
  <2>1. CASE Labels = {}
    BY <1>15, <2>1 DEF Jump, stacks, TypeOK
  <2>2. CASE Labels # {}
    <3>1. cstack[Label].thread = trun
      BY <2>2, LabelFound
    <3>2. PICK act, below : /\ act.thread = trun
                            /\ Caught(act, below, Fs) \/ Recover(act, below, Fs) \/ Dies(act, below, Fs)
      BY <1>15, <2>2, <3>1 DEF Jump
    <3>3. CASE Caught(act, below, Fs)
      BY <1>6, <3>3
    <3>4. CASE Recover(act, below, Fs)
      BY <1>2, <3>4 DEF Recover
    <3>5. CASE Dies(act, below, Fs)
      BY <1>2, <1>5, <3>2, <3>5 DEF Dies
    <3>6. QED
      BY <3>2, <3>3, <3>4, <3>5
  <2>3. QED
    BY <2>1, <2>2
<1>16. CASE \E k \in BOOLEAN : Yieldk(k)
  <2>1. PICK k \in BOOLEAN : Yieldk(k)
    BY <1>16
  <2>2. PICK act, below, fs : \/ UNCHANGED <<status, frames>>
                              \/ Labels # {} /\ act = cstack[Label] /\ Caught(act, below, fs)
                              \/ Labels # {} /\ act = cstack[Label] /\ ResumeEnds(act, below, "Yield")
                                 /\ frames' = [frames EXCEPT ![trun] = fs]
    BY <2>1 DEF Yieldk, stacks
  <2>3. Labels # {} => cstack[Label].thread = trun
    BY LabelFound
  <2>4. QED
    BY <1>2, <1>5, <1>6, <2>2, <2>3
<1>17. CASE \E t \in Thread, n \in 0..MaxArgs : Resume(t, n)
  <2>1. PICK t \in Thread, n \in 0..MaxArgs : Resume(t, n)
    BY <1>17
  <2>2. UNCHANGED frames
    BY <2>1 DEF Resume, Refuse, OverflowOn, Resumed, stacks
  <2>3. CASE status[t] = "Err"
    <3>1. Refuse
      BY <2>1, <2>3 DEF Resume, Dead
    <3>2. QED
      BY <2>2, <3>1 DEF Refuse
  <2>4. CASE status[t] # "Err"
    <3>1. UNCHANGED status \/ \E st : status' = [status EXCEPT ![t] = st]
      BY <2>1 DEF Resume, Refuse, OverflowOn, Resumed
    <3>2. QED
      BY <2>2, <2>4, <3>1 DEF TypeOK
  <2>5. QED
    BY <2>3, <2>4
<1>18. QED
  BY <1>7, <1>8, <1>9, <1>10, <1>12, <1>13, <1>14, <1>15, <1>16, <1>17 DEF Next, Program

(* A thread that runs in its base frame, when its function has been called *)
(* and is not to be called again, gets no frame but an error handler's.    *)
LEMMA EndedGetsNoFrame ==
  ASSUME TypeOK, CInv, Next, trun # Main, ~body[trun], Fs = <<>>
  PROVE  frames'[trun] = <<>> \/ errfun[trun]
<1>1. trun \in Thread /\ ctl # "run" /\ Len(Fs) = 0 /\ TopKind = "c"
  BY EmptySeq DEF TypeOK, CInv, BaseOK, TopKind
<1>2. Enter \/ Handle \/ Jump
  BY <1>1 DEF Next, Program, Precall, MetaCall, Return, Throw, Callk, Yieldk, Pcallk, Resume,
              InC, InScript
<1>3. CASE Enter
  BY <1>3 DEF Enter, Fs
<1>4. CASE Handle
  BY <1>4 DEF Handle, stacks, Fs, TypeOK
<1>5. CASE Jump
  <2>1. CASE Labels = {}
    BY <1>5, <2>1 DEF Jump, stacks, Fs
  <2>2. CASE Labels # {} /\ cstack[Label].fn = "pcall"
    <3>1. PICK k : k = Label
      OBVIOUS
    <3>2. k \in 1..Len(cstack) /\ cstack[k].thread = trun
      BY <2>2, <3>1, LabelFound
    <3>3. cstack[k].depth \in Nat /\ cstack[k].depth <= Len(Fs)
      BY <2>2, <3>1, <3>2, Typed DEF CInv, FramesOK, Fs
    <3>4. frames' = [frames EXCEPT ![trun] = Bottom(Fs, 0)]
      BY <1>1, <1>5, <2>2, <3>1, <3>3 DEF Jump, Caught
    <3>5. Bottom(Fs, 0) = <<>>
      <4>1. Bottom(Fs, 0) \in Seq(FrameSet) /\ Len(Bottom(Fs, 0)) = 0
        BY <1>1, Typed, FramesCut
      <4>2. QED
        BY <4>1, EmptySeq
    <3>6. QED
      BY <1>1, <3>4, <3>5 DEF TypeOK
  <2>3. CASE Labels # {} /\ cstack[Label].fn # "pcall"
    <3>1. Protectors(Fs) = {}
      BY <1>1 DEF Protectors
    <3>2. frames' = [frames EXCEPT ![trun] = Fs]
      BY <1>5, <2>3, <3>1 DEF Jump, Dies
    <3>3. QED
      BY <1>1, <3>2 DEF TypeOK
  <2>4. QED
    BY <2>1, <2>2, <2>3
<1>6. QED
  BY <1>2, <1>3, <1>4, <1>5

(* alo_resume, "the coroutine is already dead.": once a coroutine has      *)
(* failed nothing changes it, and once it has returned no function is      *)
(* called in it, but for an error handler that was never taken away.       *)
THEOREM EndedIsEnded == Spec => EndedStaysEnded
<1>1. ASSUME IInv, [Next]_vars
      PROVE  [\A t \in Thread \ {Main} :
                /\ status[t] = "Err" => status'[t] = "Err" /\ frames'[t] = frames[t]
                /\ ~body[t] /\ frames[t] = <<>> => frames'[t] = <<>> \/ errfun[t]]_vars
  <2>1. CASE UNCHANGED vars
    BY <2>1
  <2>2. CASE Next
    <3>1. Alive
      BY <2>2 DEF Next, Program, Precall, MetaCall, Return, Throw, Callk, Yieldk, Pcallk, Resume, Enter,
                  Handle, Jump, InC, InScript, Alive, Ends
    <3>2. TypeOK /\ CInv
      BY <1>1, <3>1 DEF IInv
    <3>3. ASSUME NEW t \in Thread \ {Main}
          PROVE  /\ status[t] = "Err" => status'[t] = "Err" /\ frames'[t] = frames[t]
                 /\ ~body[t] /\ frames[t] = <<>> => frames'[t] = <<>> \/ errfun[t]
      <4>1. CASE t # trun
        BY <2>2, <3>2, <4>1, OthersAreLeft
      <4>2. CASE t = trun
        <5>1. status[t] = "Run"
          BY <3>2, <4>2 DEF CInv, ChainOK, Runs
        <5>2. QED
          BY <2>2, <3>2, <4>2, <5>1, EndedGetsNoFrame DEF Fs
      <4>3. QED
        BY <4>1, <4>2
    <3>4. QED
      BY <3>3
  <2>3. QED
    BY <1>1, <2>1, <2>2
<1>2. QED
  BY <1>1, Invariant, PTL DEF Spec, EndedStaysEnded
====
