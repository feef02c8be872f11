----------------------------- MODULE MatcherProofs -----------------------------
(***************************************************************************)
(* Proofs about Matcher, for every subject and every pattern whose code is *)
(* formed as match() needs it (CodeAssumption).                            *)
(*                                                                         *)
(* A label keeps the instruction and the position of the time it was made, *)
(* so what holds of the two then must hold of all labels at all times; and *)
(* the end of the whole match is known at RET because only END 0 comes     *)
(* before it.                                                              *)
(***************************************************************************)
EXTENDS Matcher, TLAPS

size == Len(f.codes)
Label == [to : Int, pos : Int, cnt : Int]

LabelOK(l) == l.to \in 1..(size - 1) /\ l.pos \in at..Len(Src) /\ f.codes[l.to].kind # "REPX"
Labels == /\ js \in Seq(Label) /\ top \in 0..Len(js)
          /\ \A i \in 1..top : LabelOK(js[i])

(* An attempt has its place in the subject, a match its place in the code. *)
AttemptOK == /\ base \in 0..Len(Src) /\ at \in base..Len(Src)
             /\ groups \in [1..f.ngroup -> [from : Int, to : Int]]
MatchOK == /\ pc \in 1..size /\ s \in at..Len(Src) /\ failed \in BOOLEAN
           /\ counter \in [1..f.ncount -> Int]
           /\ Labels
           /\ failed => top < Len(js) /\ I.kind # "REPX"
           /\ pc = size => Got(0).to = s

IInv == /\ call \in Calls
        /\ phase \in {"start", "ready", "match", "hit", "miss", "done", "error"}
        /\ phase \in {"match", "hit", "miss"} => call.op \in WithMatcher /\ AttemptOK
        /\ call.op \in WithMatcher /\ phase \in {"ready", "match", "hit", "miss"} => Formed(f)
        /\ call.op \in WithMatcher /\ phase \in {"start", "ready"} => base = 0
        /\ phase = "match" => MatchOK
        /\ phase = "hit" => Got(0).to \in at..Len(Src)

(* What is given of the call and of the code while it runs.                *)
LEMMA Given ==
  ASSUME IInv
  PROVE  /\ Len(Src) \in Nat /\ DOMAIN Src = 1..Len(Src)
         /\ phase = "match" => /\ call.op \in WithMatcher /\ AttemptOK /\ MatchOK /\ Formed(f)
                               /\ size \in Nat /\ size > 2 /\ DOMAIN f.codes = 1..size
                               /\ FormedAt(f, pc)
<1>1. Src \in Seq(STRING)
  BY SubjectAssumption DEF IInv, Src
<1>2. ASSUME phase = "match"
      PROVE  call.op \in WithMatcher /\ AttemptOK /\ MatchOK /\ Formed(f)
  BY <1>2 DEF IInv
<1>3. ASSUME phase = "match"
      PROVE  size \in Nat /\ size > 2 /\ DOMAIN f.codes = 1..size
  BY <1>2, <1>3 DEF Formed, size
<1>4. ASSUME phase = "match" PROVE FormedAt(f, pc)
  <2>1. pc \in DOMAIN f.codes
    BY <1>2, <1>3, <1>4 DEF MatchOK
  <2>2. QED
    BY <1>2, <1>4, <2>1 DEF Formed
<1>5. QED
  BY <1>1, <1>2, <1>3, <1>4

(* The instruction before RET is END 0, and no other leads to RET.         *)
LEMMA NextInside ==
  ASSUME IInv, phase = "match", I.kind # "RET"
  PROVE  /\ pc + 1 \in 1..size
         /\ I.kind # "END" => pc + 1 \in 1..(size - 1)
         /\ pc + 1 = size => I.kind = "END" /\ I.a = 0
<1>1. MatchOK /\ Formed(f) /\ FormedAt(f, pc) /\ size \in Nat
  BY Given
<1>2. pc \in 1..size /\ pc # size
  BY <1>1 DEF MatchOK, FormedAt, I, size
<1>3. f.codes[size - 1].kind = "END" /\ f.codes[size - 1].a = 0
  BY <1>1 DEF Formed, size
<1>4. pc + 1 = size => pc = size - 1
  BY <1>1, <1>2
<1>5. QED
  BY <1>1, <1>2, <1>3, <1>4 DEF I

(* A step of match() that leaves the call alone keeps the invariant when   *)
(* the match is in its place.                                              *)
LEMMA MatchStep ==
  ASSUME IInv, phase = "match", phase' = "match", Fixed,
         groups' \in [1..f.ngroup -> [from : Int, to : Int]], MatchOK'
  PROVE  IInv'
<1>1. call' = call /\ f' = f /\ base' = base /\ at' = at
  BY DEF Fixed, scan
<1>2. call.op \in WithMatcher /\ AttemptOK /\ Formed(f)
  BY Given
<1>3. AttemptOK'
  BY <1>1, <1>2 DEF AttemptOK, Src
<1>4. QED
  BY <1>1, <1>2, <1>3 DEF IInv

(* Back to the last label, which is still there above the top.             *)
LEMMA ThrowKeeps ==
  ASSUME IInv, phase = "match", Throw, UNCHANGED groups, Fixed, counter' \in [1..f.ncount -> Int]
  PROVE  IInv'
<1>1. call' = call /\ f' = f /\ at' = at /\ base' = base /\ size' = size /\ Src' = Src
  BY DEF Fixed, scan, size, Src
<1>2. /\ call.op \in WithMatcher /\ AttemptOK /\ MatchOK /\ Formed(f)
      /\ size \in Nat /\ js \in Seq(Label) /\ top \in 0..Len(js)
  BY Given DEF MatchOK, Labels
<1>3. CASE top > 0
  <2>1. top' = top - 1 /\ pc' = js[top].to /\ s' = js[top].pos /\ failed' = TRUE /\ phase' = phase /\ js' = js
    BY <1>3 DEF Throw, Pop
  <2>2. top \in 1..top /\ top \in Int /\ Len(js) \in Nat
    BY <1>2, <1>3
  <2>3. LabelOK(js[top])
    BY <1>2, <2>2 DEF MatchOK, Labels
  <2>4. Labels'
    <3>1. top' \in 0..Len(js')
      BY <1>2, <2>1, <2>2
    <3>2. ASSUME NEW i \in 1..(top - 1) PROVE LabelOK(js[i])
      <4>1. i \in 1..top
        BY <2>2
      <4>2. QED
        BY <1>2, <4>1 DEF MatchOK, Labels
    <3>3. \A i \in 1..top' : LabelOK(js[i])'
      BY <1>1, <2>1, <3>2 DEF LabelOK
    <3>4. QED
      BY <1>2, <2>1, <3>1, <3>3 DEF Labels
  <2>5. pc' \in 1..size /\ pc' # size /\ s' \in at..Len(Src) /\ top' < Len(js')
    BY <1>2, <2>1, <2>2, <2>3 DEF LabelOK
  <2>6. I'.kind # "REPX"
    BY <1>1, <2>1, <2>3 DEF LabelOK, I
  <2>7. MatchOK'
    BY <1>1, <2>1, <2>4, <2>5, <2>6 DEF MatchOK
  <2>8. groups' \in [1..f.ngroup -> [from : Int, to : Int]]
    BY <1>2 DEF AttemptOK
  <2>9. QED
    BY <2>1, <2>7, <2>8, MatchStep
<1>4. CASE ~(top > 0)
  <2>1. phase' = "miss"
    BY <1>4 DEF Throw
  <2>2. AttemptOK'
    BY <1>1, <1>2 DEF AttemptOK
  <2>3. QED
    BY <1>1, <1>2, <2>1, <2>2 DEF IInv
<1>5. QED
  BY <1>3, <1>4

(* On to another instruction, with the labels there are.                   *)
LEMMA ContinueKeeps ==
  ASSUME IInv, phase = "match", NEW to, Continue(to), Fixed, to \in 1..(size - 1),
         s' \in at..Len(Src), counter' \in [1..f.ncount -> Int], UNCHANGED groups
  PROVE  IInv'
<1>1. /\ call' = call /\ f' = f /\ at' = at /\ size' = size /\ Src' = Src
      /\ pc' = to /\ failed' = FALSE /\ phase' = phase /\ js' = js /\ top' = top
  BY DEF Fixed, scan, size, Src, Continue, Go
<1>2. AttemptOK /\ MatchOK /\ size \in Nat
  BY Given
<1>3. Labels'
  BY <1>1, <1>2 DEF MatchOK, Labels, LabelOK
<1>4. pc' \in 1..size /\ pc' # size
  BY <1>1, <1>2
<1>5. MatchOK'
  BY <1>1, <1>2, <1>3, <1>4 DEF MatchOK
<1>6. groups' \in [1..f.ngroup -> [from : Int, to : Int]]
  BY <1>2 DEF AttemptOK
<1>7. QED
  BY <1>1, <1>5, <1>6, MatchStep

(* On with a new label.                                                    *)
LEMMA PushKeeps ==
  ASSUME IInv, phase = "match", NEW to, NEW k \in Int, NEW cnt \in Int,
         PushLabel(k, cnt), Go(to), phase' = phase, s' = s, groups' = groups, Fixed,
         k \in 1..(size - 1), f.codes[k].kind # "REPX", to \in 1..(size - 1),
         counter' \in [1..f.ncount -> Int]
  PROVE  IInv'
<1>1. /\ call' = call /\ f' = f /\ at' = at /\ size' = size /\ Src' = Src
      /\ pc' = to /\ failed' = FALSE
  BY DEF Fixed, scan, size, Src, Go
<1>2. /\ AttemptOK /\ MatchOK /\ size \in Nat
      /\ js \in Seq(Label) /\ top \in 0..Len(js) /\ s \in at..Len(Src) /\ at \in Int /\ Len(Src) \in Nat
  BY Given DEF MatchOK, Labels, AttemptOK
<1>3. PICK e : e = [to |-> k, pos |-> s, cnt |-> cnt]
  OBVIOUS
<1>4. e \in Label /\ LabelOK(e)
  BY <1>2, <1>3 DEF Label, LabelOK
<1>5. PICK p : p = SubSeq(js, 1, top)
  OBVIOUS
<1>6. p \in Seq(Label) /\ Len(p) = top /\ \A i \in 1..top : p[i] = js[i]
  BY <1>2, <1>5
<1>7. js' = p \o <<e>> /\ top' = top + 1
  BY <1>3, <1>5 DEF PushLabel
<1>8. js' \in Seq(Label) /\ Len(js') = top + 1 /\ js'[top + 1] = e /\ \A i \in 1..top : js'[i] = js[i]
  BY <1>2, <1>4, <1>6, <1>7
<1>9. ASSUME NEW i \in 1..(top + 1) PROVE LabelOK(js'[i])
  <2>1. CASE i = top + 1
    BY <1>4, <1>8, <2>1
  <2>2. CASE i # top + 1
    <3>1. i \in 1..top
      BY <1>2, <2>2
    <3>2. LabelOK(js[i])
      BY <1>2, <3>1 DEF MatchOK, Labels
    <3>3. QED
      BY <1>8, <3>1, <3>2
  <2>3. QED
    BY <2>1, <2>2
<1>10. Labels'
  <2>1. \A i \in 1..top' : LabelOK(js[i])'
    BY <1>1, <1>7, <1>9 DEF LabelOK
  <2>2. top' \in 0..Len(js')
    BY <1>2, <1>7, <1>8
  <2>3. QED
    BY <1>8, <2>1, <2>2 DEF Labels
<1>11. pc' \in 1..size /\ pc' # size
  BY <1>1, <1>2
<1>12. MatchOK'
  BY <1>1, <1>2, <1>10, <1>11 DEF MatchOK
<1>13. groups' \in [1..f.ngroup -> [from : Int, to : Int]]
  BY <1>2 DEF AttemptOK
<1>14. QED
  BY <1>12, <1>13, MatchStep

-----------------------------------------------------------------------------
(* The instructions.                                                       *)

(* A test that passes moves to a place inside the subject.                 *)
LEMMA CheckKeeps ==
  ASSUME IInv, phase = "match", NEW ok, NEW next, Check(ok, next), I.kind \notin {"RET", "END"},
         ok => next \in at..Len(Src)
  PROVE  IInv'
<1>1. MatchOK /\ counter' = counter /\ groups' = groups /\ Fixed
  BY Given DEF Check
<1>2. counter' \in [1..f.ncount -> Int]
  BY <1>1 DEF MatchOK
<1>3. CASE ok
  <2>1. Continue(pc + 1) /\ s' = next
    BY <1>3 DEF Check
  <2>2. pc + 1 \in 1..(size - 1)
    BY NextInside
  <2>3. QED
    BY <1>1, <1>2, <1>3, <2>1, <2>2, ContinueKeeps
<1>4. CASE ~ok
  <2>1. Throw
    BY <1>4 DEF Check
  <2>2. QED
    BY <1>1, <1>2, <2>1, ThrowKeeps
<1>5. QED
  BY <1>3, <1>4

(* sgetc does not go past the end.                                         *)
LEMMA PastInside ==
  ASSUME IInv, phase = "match"
  PROVE  PastGetc(Src, s) \in at..Len(Src)
<1>1. AttemptOK /\ MatchOK /\ Len(Src) \in Nat
  BY Given
<1>2. s \in at..Len(Src) /\ at \in Int
  BY <1>1 DEF MatchOK, AttemptOK
<1>3. QED
  BY <1>1, <1>2 DEF PastGetc

(* What is behind the end passes no test of a sequence.                    *)
LEMMA NotAtEnd ==
  ASSUME NEW x \in STRING \X STRING, x[2] # EOS
  PROVE  ~MatchItem(x, EOS)
<1>1. ASSUME NEW c, c # EOS PROVE ~MatchClass(c, EOS)
  BY <1>1, ClassAssumption DEF MatchClass
<1>2. QED
  BY <1>1 DEF MatchItem

(* A character that is found is not behind the end.                        *)
LEMMA CheckCharKeeps ==
  ASSUME IInv, CheckChar
  PROVE  IInv'
<1>1. phase = "match" /\ I.kind = "CHKC" /\ Check(CharAt(Src, s) = I.a, s + 1)
  BY DEF CheckChar, At
<1>2. AttemptOK /\ MatchOK /\ FormedAt(f, pc) /\ Len(Src) \in Nat
  BY <1>1, Given
<1>3. I.a # NUL /\ s \in at..Len(Src) /\ at \in Int
  BY <1>1, <1>2 DEF FormedAt, MatchOK, AttemptOK, I
<1>4. CharAt(Src, s) = I.a => s < Len(Src)
  BY <1>3 DEF CharAt
<1>5. CharAt(Src, s) = I.a => s + 1 \in at..Len(Src)
  BY <1>2, <1>3, <1>4
<1>6. QED
  BY <1>1, <1>5, CheckKeeps

(* Nor is the last character of a sequence that is found.                  *)
LEMMA CheckSeqKeeps ==
  ASSUME IInv, CheckSeq
  PROVE  IInv'
<1>1. phase = "match" /\ I.kind = "CHKQ" /\ Check(MatchSeq(I.a, Src, s), s + Len(I.a))
  BY DEF CheckSeq, At
<1>2. AttemptOK /\ MatchOK /\ FormedAt(f, pc) /\ Len(Src) \in Nat
  BY <1>1, Given
<1>3. s \in at..Len(Src) /\ at \in Int
  BY <1>2 DEF MatchOK, AttemptOK
<1>4. PICK q \in Seq(STRING \X STRING) : q = I.a
  BY <1>1, <1>2 DEF FormedAt, I
<1>5. \A k \in DOMAIN q : q[k][2] # EOS
  BY <1>1, <1>2, <1>4 DEF FormedAt, I
<1>6. Len(q) \in Nat /\ DOMAIN q = 1..Len(q)
  BY <1>4
<1>7. ASSUME MatchSeq(q, Src, s) PROVE s + Len(q) <= Len(Src)
  <2>1. SUFFICES ASSUME s + Len(q) > Len(Src) PROVE FALSE
    BY <1>2, <1>3, <1>6
  <2>2. Len(q) \in DOMAIN q /\ s + Len(q) - 1 >= Len(Src)
    BY <1>2, <1>3, <1>6, <2>1
  <2>3. Getc(Src, s + Len(q) - 1) = EOS
    BY <2>2 DEF Getc
  <2>4. MatchItem(q[Len(q)], EOS)
    BY <1>7, <2>2, <2>3 DEF MatchSeq
  <2>5. q[Len(q)] \in STRING \X STRING
    BY <1>4, <2>2
  <2>6. QED
    BY <1>5, <2>2, <2>4, <2>5, NotAtEnd
<1>8. MatchSeq(q, Src, s) => s + Len(q) \in at..Len(Src)
  BY <1>2, <1>3, <1>6, <1>7
<1>9. QED
  BY <1>1, <1>4, <1>8, CheckKeeps

(* The other tests: of a set, of a class, of a limit.                      *)
LEMMA ChecksKeep ==
  ASSUME IInv, CheckSet \/ CheckNotSet \/ CheckClass \/ CheckLimit
  PROVE  IInv'
<1>1. ASSUME phase = "match" PROVE s \in at..Len(Src) /\ PastGetc(Src, s) \in at..Len(Src)
  BY <1>1, Given, PastInside DEF MatchOK
<1>2. CASE CheckSet
  <2>1. phase = "match" /\ I.kind = "CHKS" /\ Check(MatchSet(I.a, Getc(Src, s)), PastGetc(Src, s))
    BY <1>2 DEF CheckSet, At
  <2>2. QED
    BY <1>1, <2>1, CheckKeeps
<1>3. CASE CheckNotSet
  <2>1. phase = "match" /\ I.kind = "CHKXS" /\ Check(~MatchSet(I.a, Getc(Src, s)), PastGetc(Src, s))
    BY <1>3 DEF CheckNotSet, At
  <2>2. QED
    BY <1>1, <2>1, CheckKeeps
<1>4. CASE CheckClass
  <2>1. phase = "match" /\ I.kind = "CHKF" /\ Check(MatchClass(I.a, Getc(Src, s)), PastGetc(Src, s))
    BY <1>4 DEF CheckClass, At
  <2>2. QED
    BY <1>1, <2>1, CheckKeeps
<1>5. CASE CheckLimit
  <2>1. phase = "match" /\ I.kind = "CHKL" /\ Check(MatchLim(I.a, Src, base, s), s)
    BY <1>5 DEF CheckLimit, At
  <2>2. QED
    BY <1>1, <2>1, CheckKeeps
<1>6. QED
  BY <1>2, <1>3, <1>4, <1>5

(* At RET the whole match has just got its end.                            *)
LEMMA RetKeeps ==
  ASSUME IInv, Ret
  PROVE  IInv'
<1>1. phase = "match" /\ I.kind = "RET" /\ counter' = counter /\ groups' = groups /\ Fixed
  BY DEF Ret, At
<1>2. call.op \in WithMatcher /\ AttemptOK /\ MatchOK /\ Formed(f) /\ FormedAt(f, pc)
  BY <1>1, Given
<1>3. CASE Throw
  <2>1. counter' \in [1..f.ncount -> Int]
    BY <1>1, <1>2 DEF MatchOK
  <2>2. QED
    BY <1>1, <1>3, <2>1, ThrowKeeps
<1>4. CASE phase' = "hit"
  <2>1. call' = call /\ f' = f /\ base' = base /\ at' = at
    BY <1>1 DEF Fixed, scan
  <2>2. pc = size
    BY <1>1, <1>2 DEF FormedAt, I, size
  <2>3. Got(0).to \in at..Len(Src)
    BY <1>2, <2>2 DEF MatchOK
  <2>4. (Got(0).to \in at..Len(Src))'
    BY <1>1, <2>1, <2>3 DEF Got, Src
  <2>5. AttemptOK'
    BY <1>1, <1>2, <2>1 DEF AttemptOK, Src
  <2>6. QED
    BY <1>2, <1>4, <2>1, <2>4, <2>5 DEF IInv
<1>5. QED
  BY <1>3, <1>4 DEF Ret

(* The begin of a group is set.                                            *)
LEMMA BegKeeps ==
  ASSUME IInv, Beg
  PROVE  IInv'
<1>1. /\ phase = "match" /\ I.kind = "BEG" /\ Fixed /\ s' = s /\ counter' = counter
      /\ groups' = [groups EXCEPT ![I.a + 1].from = s]
      /\ phase' = phase /\ pc' = pc + 1 /\ failed' = FALSE /\ js' = js /\ top' = top
  BY DEF Beg, At, Continue, Go
<1>2. AttemptOK /\ MatchOK /\ size \in Nat
  BY <1>1, Given
<1>3. call' = call /\ f' = f /\ at' = at /\ size' = size /\ Src' = Src
  BY <1>1 DEF Fixed, scan, size, Src
<1>4. pc + 1 \in 1..(size - 1)
  BY <1>1, NextInside
<1>5. Labels'
  BY <1>1, <1>2, <1>3 DEF MatchOK, Labels, LabelOK
<1>6. pc' \in 1..size /\ pc' # size
  BY <1>1, <1>2, <1>4
<1>7. MatchOK'
  BY <1>1, <1>2, <1>3, <1>5, <1>6 DEF MatchOK
<1>8. s \in Int
  BY <1>2 DEF MatchOK, AttemptOK
<1>9. groups' \in [1..f.ngroup -> [from : Int, to : Int]]
  BY <1>1, <1>2, <1>8 DEF AttemptOK
<1>10. QED
  BY <1>1, <1>7, <1>9, MatchStep

(* The end of a group is set; the whole match is group 0.                  *)
LEMMA EndKeeps ==
  ASSUME IInv, End
  PROVE  IInv'
<1>1. /\ phase = "match" /\ I.kind = "END" /\ Fixed /\ s' = s /\ counter' = counter
      /\ groups' = [groups EXCEPT ![I.a + 1].to = s]
      /\ phase' = phase /\ pc' = pc + 1 /\ failed' = FALSE /\ js' = js /\ top' = top
  BY DEF End, At, Continue, Go
<1>2. AttemptOK /\ MatchOK /\ Formed(f) /\ size \in Nat
  BY <1>1, Given
<1>3. call' = call /\ f' = f /\ at' = at /\ size' = size /\ Src' = Src
  BY <1>1 DEF Fixed, scan, size, Src
<1>4. pc + 1 \in 1..size /\ (pc + 1 = size => I.a = 0)
  BY <1>1, NextInside
<1>5. Labels'
  BY <1>1, <1>2, <1>3 DEF MatchOK, Labels, LabelOK
<1>6. s \in Int /\ 1 \in 1..f.ngroup
  BY <1>2 DEF MatchOK, AttemptOK, Formed
<1>7. groups' \in [1..f.ngroup -> [from : Int, to : Int]]
  BY <1>1, <1>2, <1>6 DEF AttemptOK
<1>8. pc' = size' => Got(0)'.to = s'
  <2>1. SUFFICES ASSUME pc + 1 = size PROVE Got(0)'.to = s
    BY <1>1, <1>3
  <2>2. PICK g : g = I.a + 1
    OBVIOUS
  <2>3. g = 1
    BY <1>4, <2>1, <2>2
  <2>4. groups' = [groups EXCEPT ![g].to = s]
    BY <1>1, <2>2
  <2>5. groups'[1].to = s
    BY <1>2, <1>6, <2>3, <2>4 DEF AttemptOK
  <2>6. QED
    BY <2>5 DEF Got
<1>9. MatchOK'
  BY <1>1, <1>2, <1>3, <1>4, <1>5, <1>8 DEF MatchOK
<1>10. QED
  BY <1>1, <1>7, <1>9, MatchStep

(* The counter of a loop is one of those of the match, and its exit is an  *)
(* instruction that a label may lead to.                                   *)
LEMMA LoopIs ==
  ASSUME IInv, phase = "match", I.kind \in Counting
  PROVE  /\ pc + I.b \in 1..(size - 1) /\ f.codes[pc + I.b].kind \notin Counting
         /\ f.codes[pc - 1].kind = "CNT" /\ Cnt \in 1..f.ncount /\ counter[Cnt] \in Int
         /\ pc \in 1..(size - 1) /\ pc + 1 \in 1..(size - 1)
<1>1. MatchOK /\ Formed(f) /\ FormedAt(f, pc) /\ size \in Nat /\ DOMAIN f.codes = 1..size
  BY Given
<1>2. /\ pc > 1 /\ f.codes[pc - 1].kind = "CNT" /\ Leads(f.codes, pc + I.b, TRUE)
      /\ f.codes[pc].kind \in Counting
  BY <1>1 DEF FormedAt, I
<1>3. pc - 1 \in 1..size /\ pc \in 1..size
  BY <1>1, <1>2 DEF MatchOK
<1>4. FormedAt(f, pc - 1)
  BY <1>1, <1>3 DEF Formed
<1>5. f.codes[pc - 1].a \in 0..(f.ncount - 1) /\ f.ncount \in Nat
  BY <1>1, <1>2, <1>4 DEF FormedAt, Formed
<1>6. Cnt \in 1..f.ncount
  BY <1>5 DEF Cnt
<1>7. counter[Cnt] \in Int
  BY <1>1, <1>6 DEF MatchOK
<1>8. I.kind \notin {"RET", "END"}
  BY DEF Counting
<1>9. pc + 1 \in 1..(size - 1)
  BY <1>8, NextInside
<1>10. pc \in 1..(size - 1)
  BY <1>1, <1>3, <1>9
<1>11. pc + I.b \in 1..(size - 1) /\ f.codes[pc + I.b].kind \notin Counting
  BY <1>2 DEF Leads, size
<1>12. QED
  BY <1>2, <1>6, <1>7, <1>9, <1>10, <1>11

(* The label last taken had a counter.                                     *)
LEMMA TopLabelIs ==
  ASSUME IInv, phase = "match", failed
  PROVE  TopLabel.cnt \in Int
<1>1. js \in Seq(Label) /\ top \in 0..Len(js) /\ top < Len(js)
  BY Given DEF MatchOK, Labels
<1>2. js[top + 1] \in Label
  BY <1>1
<1>3. QED
  BY <1>2 DEF TopLabel, Label

(* The turns of a loop that must be: going back gives the counter back.    *)
LEMMA RepKeeps ==
  ASSUME IInv, Rep
  PROVE  IInv'
<1>1. phase = "match" /\ I.kind = "REP" /\ I.kind \in Counting /\ groups' = groups /\ Fixed
  BY DEF Rep, At, Counting
<1>2. /\ MatchOK /\ counter \in [1..f.ncount -> Int] /\ s \in at..Len(Src)
  BY <1>1, Given DEF MatchOK
<1>3. CASE failed
  <2>1. counter' = [counter EXCEPT ![Cnt] = TopLabel.cnt] /\ Throw
    BY <1>3 DEF Rep
  <2>2. TopLabel.cnt \in Int
    BY <1>1, <1>3, TopLabelIs
  <2>3. counter' \in [1..f.ncount -> Int]
    BY <1>2, <2>1, <2>2
  <2>4. QED
    BY <1>1, <2>1, <2>3, ThrowKeeps
<1>4. CASE ~failed /\ counter[Cnt] = I.a
  <2>1. Continue(pc + I.b) /\ s' = s /\ counter' = counter
    BY <1>4 DEF Rep
  <2>2. pc + I.b \in 1..(size - 1)
    BY <1>1, LoopIs
  <2>3. QED
    BY <1>1, <1>2, <2>1, <2>2, ContinueKeeps
<1>5. CASE ~failed /\ counter[Cnt] # I.a
  <2>1. /\ PushLabel(pc, counter[Cnt]) /\ counter' = [counter EXCEPT ![Cnt] = @ + 1]
        /\ Go(pc + 1) /\ phase' = phase /\ s' = s
    BY <1>5 DEF Rep
  <2>2. counter[Cnt] \in Int /\ pc \in 1..(size - 1) /\ pc + 1 \in 1..(size - 1) /\ pc \in Int
    BY <1>1, LoopIs
  <2>3. PICK v \in Int : v = counter[Cnt] + 1
    BY <2>2
  <2>4. counter' = [counter EXCEPT ![Cnt] = v]
    BY <2>1, <2>3
  <2>5. counter' \in [1..f.ncount -> Int]
    BY <1>2, <2>4
  <2>6. f.codes[pc].kind # "REPX"
    BY <1>1 DEF I
  <2>7. QED
    BY <1>1, <2>1, <2>2, <2>5, <2>6, PushKeeps
<1>6. QED
  BY <1>3, <1>4, <1>5

(* More turns, as many as possible: the label leads to the exit.           *)
LEMMA RepXKeeps ==
  ASSUME IInv, RepX
  PROVE  IInv'
<1>1. /\ phase = "match" /\ I.kind \in Counting /\ groups' = groups /\ Fixed
      /\ s' = s /\ counter' = counter
  BY DEF RepX, At, Counting
<1>2. counter' \in [1..f.ncount -> Int] /\ s' \in at..Len(Src)
  BY <1>1, Given DEF MatchOK
<1>3. /\ pc + I.b \in 1..(size - 1) /\ f.codes[pc + I.b].kind \notin Counting
      /\ pc + 1 \in 1..(size - 1)
  BY <1>1, LoopIs
<1>4. CASE counter[Cnt] = I.a
  <2>1. Continue(pc + I.b)
    BY <1>4 DEF RepX
  <2>2. QED
    BY <1>1, <1>2, <1>3, <2>1, ContinueKeeps
<1>5. CASE counter[Cnt] # I.a
  <2>1. PushLabel(pc + I.b, 0) /\ Go(pc + 1) /\ phase' = phase
    BY <1>5 DEF RepX
  <2>2. PICK k \in Int : k = pc + I.b
    BY <1>3
  <2>3. k \in 1..(size - 1) /\ f.codes[k].kind # "REPX" /\ PushLabel(k, 0)
    BY <1>3, <2>1, <2>2 DEF Counting
  <2>4. QED
    BY <1>1, <1>2, <1>3, <2>1, <2>3, PushKeeps
<1>6. QED
  BY <1>4, <1>5

(* More turns, as few as possible: the label leads to the loop itself.     *)
LEMMA RepYKeeps ==
  ASSUME IInv, RepY
  PROVE  IInv'
<1>1. phase = "match" /\ I.kind = "REPY" /\ I.kind \in Counting /\ groups' = groups /\ Fixed
  BY DEF RepY, At, Counting
<1>2. counter \in [1..f.ncount -> Int] /\ s \in at..Len(Src)
  BY <1>1, Given DEF MatchOK
<1>3. /\ pc + I.b \in 1..(size - 1) /\ counter[Cnt] \in Int
      /\ pc \in 1..(size - 1) /\ pc \in Int /\ pc + 1 \in 1..(size - 1)
  BY <1>1, LoopIs
<1>4. CASE ~failed
  <2>1. PushLabel(pc, counter[Cnt]) /\ Go(pc + I.b) /\ phase' = phase /\ s' = s /\ counter' = counter
    BY <1>4 DEF RepY
  <2>2. f.codes[pc].kind # "REPX"
    BY <1>1 DEF I
  <2>3. QED
    BY <1>1, <1>2, <1>3, <2>1, <2>2, PushKeeps
<1>5. CASE failed
  <2>1. TopLabel.cnt \in Int
    BY <1>1, <1>5, TopLabelIs
  <2>2. CASE TopLabel.cnt = I.a
    <3>1. counter' = [counter EXCEPT ![Cnt] = TopLabel.cnt] /\ Throw
      BY <1>5, <2>2 DEF RepY
    <3>2. counter' \in [1..f.ncount -> Int]
      BY <1>2, <2>1, <3>1
    <3>3. QED
      BY <1>1, <3>1, <3>2, ThrowKeeps
  <2>3. CASE TopLabel.cnt # I.a
    <3>1. counter' = [counter EXCEPT ![Cnt] = TopLabel.cnt + 1] /\ Continue(pc + 1) /\ s' = s
      BY <1>5, <2>3 DEF RepY
    <3>2. PICK v \in Int : v = TopLabel.cnt + 1
      BY <2>1
    <3>3. counter' \in [1..f.ncount -> Int]
      BY <1>2, <3>1, <3>2
    <3>4. QED
      BY <1>1, <1>2, <1>3, <3>1, <3>3, ContinueKeeps
  <2>4. QED
    BY <2>2, <2>3
<1>6. QED
  BY <1>4, <1>5

(* One way is tried, the other gets a label.                               *)
LEMMA SptKeeps ==
  ASSUME IInv, Spt
  PROVE  IInv'
<1>1. /\ phase = "match" /\ I.kind = "SPT" /\ groups' = groups /\ Fixed
      /\ s' = s /\ counter' = counter /\ phase' = phase /\ PushLabel(pc + I.a, 0) /\ Go(pc + I.b)
  BY DEF Spt, At
<1>2. counter' \in [1..f.ncount -> Int] /\ FormedAt(f, pc)
  BY <1>1, Given DEF MatchOK
<1>3. Leads(f.codes, pc + I.a, TRUE) /\ Leads(f.codes, pc + I.b, TRUE)
  BY <1>1, <1>2 DEF FormedAt, I
<1>4. PICK k \in Int : k = pc + I.a
  BY <1>3 DEF Leads
<1>5. k \in 1..(size - 1) /\ f.codes[k].kind # "REPX" /\ pc + I.b \in 1..(size - 1) /\ PushLabel(k, 0)
  BY <1>1, <1>3, <1>4 DEF Leads, Counting, size
<1>6. QED
  BY <1>1, <1>2, <1>5, PushKeeps

(* A jump to the end of alternatives, or back to a loop.                   *)
LEMMA JmpKeeps ==
  ASSUME IInv, Jmp
  PROVE  IInv'
<1>1. /\ phase = "match" /\ I.kind = "JMP" /\ groups' = groups /\ Fixed
      /\ s' = s /\ counter' = counter /\ Continue(pc + I.b)
  BY DEF Jmp, At
<1>2. counter' \in [1..f.ncount -> Int] /\ FormedAt(f, pc) /\ s' \in at..Len(Src)
  BY <1>1, Given DEF MatchOK
<1>3. pc + I.b \in 1..(size - 1)
  BY <1>1, <1>2 DEF FormedAt, I, Leads, size
<1>4. QED
  BY <1>1, <1>2, <1>3, ContinueKeeps

(* A loop begins to count.                                                 *)
LEMMA ResetKeeps ==
  ASSUME IInv, Reset
  PROVE  IInv'
<1>1. /\ phase = "match" /\ I.kind = "CNT" /\ groups' = groups /\ Fixed
      /\ s' = s /\ counter' = [counter EXCEPT ![I.a + 1] = 0] /\ Continue(pc + 1)
  BY DEF Reset, At
<1>2. counter \in [1..f.ncount -> Int] /\ s' \in at..Len(Src)
  BY <1>1, Given DEF MatchOK
<1>3. counter' \in [1..f.ncount -> Int]
  <2>1. PICK g : g = I.a + 1
    OBVIOUS
  <2>2. PICK zero \in Int : zero = 0
    OBVIOUS
  <2>3. counter' = [counter EXCEPT ![g] = zero]
    BY <1>1, <2>1, <2>2
  <2>4. QED
    BY <1>2, <2>3
<1>4. pc + 1 \in 1..(size - 1)
  BY <1>1, NextInside
<1>5. QED
  BY <1>1, <1>2, <1>3, <1>4, ContinueKeeps

(* All instructions.                                                       *)
LEMMA InstructionKeeps ==
  ASSUME IInv, Instruction
  PROVE  IInv'
BY RetKeeps, BegKeeps, EndKeeps, CheckCharKeeps, ChecksKeep, CheckSeqKeeps, RepKeeps, RepXKeeps, RepYKeeps,
   SptKeeps, JmpKeeps, ResetKeeps DEF Instruction

-----------------------------------------------------------------------------
(* The calls around match().                                               *)

(* match() begins at the first instruction, with no labels.                *)
LEMMA BeginKeeps ==
  ASSUME IInv, NEW from, Begin(from), call' = call, f' = f, call.op \in WithMatcher, Formed(f), AttemptOK',
         from = at'
  PROVE  IInv'
<1>1. /\ phase' = "match" /\ pc' = 1 /\ s' = from /\ failed' = FALSE
      /\ counter' = [i \in 1..f.ncount |-> 0] /\ js' = <<>> /\ top' = 0
  BY DEF Begin
<1>2. size' = size /\ Src' = Src /\ size \in Nat /\ size > 2
  BY DEF size, Src, Formed
<1>3. PICK e : e = <<>>
  OBVIOUS
<1>4. e \in Seq(Label) /\ Len(e) = 0 /\ 0 \in 0..Len(e) /\ \A i \in 1..0 : FALSE
  BY <1>3
<1>5. Labels'
  BY <1>1, <1>3, <1>4 DEF Labels
<1>6. pc' \in 1..size /\ pc' # size
  BY <1>1, <1>2
<1>7. counter' \in [1..f.ncount -> Int]
  BY <1>1
<1>8. MatchOK'
  <2>1. Len(Src) \in Nat /\ at' \in Int /\ at' <= Len(Src)
    BY <1>2, Given DEF AttemptOK
  <2>2. s' \in at'..Len(Src')
    BY <1>1, <1>2, <2>1
  <2>3. QED
    BY <1>1, <1>2, <1>5, <1>6, <1>7, <2>2 DEF MatchOK
<1>9. call \in Calls
  BY DEF IInv
<1>10. QED
  BY <1>1, <1>8, <1>9 DEF IInv

(* A call begins at an offset that is in the subject, or fails.            *)
LEMMA BeginCallKeeps ==
  ASSUME IInv, call.op \in WithMatcher, BeginCall
  PROVE  IInv'
<1>1. phase = "ready" /\ Formed(f) /\ base = 0 /\ call \in Calls /\ Len(Src) \in Nat
  BY Given DEF BeginCall, IInv
<1>2. CASE Offset \notin 0..Len(Src)
  <2>1. phase' = "error" /\ call' = call
    BY <1>2 DEF BeginCall, Error
  <2>2. QED
    BY <1>1, <2>1 DEF IInv
<1>3. CASE Offset \in 0..Len(Src)
  <2>1. /\ groups' = [i \in 1..f.ngroup |-> [from |-> Unset, to |-> Unset]]
        /\ at' = Offset /\ Begin(Offset) /\ call' = call /\ f' = f /\ base' = base
    BY <1>3 DEF BeginCall
  <2>2. groups' \in [1..f'.ngroup -> [from : Int, to : Int]]
    BY <2>1 DEF Unset
  <2>3. AttemptOK'
    BY <1>1, <1>3, <2>1, <2>2 DEF AttemptOK, Src
  <2>4. QED
    BY <1>1, <1>3, <2>1, <2>3, BeginKeeps
<1>4. QED
  BY <1>2, <1>3

(* The next attempt of a scan begins inside the subject.                   *)
LEMMA AgainKeeps ==
  ASSUME IInv, phase \in {"hit", "miss"}, NEW s1, NEW s0, NEW sbegin, NEW r, Again(s1, s0, sbegin, r),
         sbegin \in 0..Len(Src), s1 \in sbegin..Len(Src)
  PROVE  IInv'
<1>1. /\ Begin(s1) /\ at' = s1 /\ base' = sbegin /\ call' = call /\ f' = f /\ groups' = groups
  BY DEF Again
<1>2. call.op \in WithMatcher /\ AttemptOK /\ Formed(f)
  BY DEF IInv
<1>3. AttemptOK'
  BY <1>1, <1>2 DEF AttemptOK, Src
<1>4. QED
  BY <1>1, <1>2, <1>3, BeginKeeps

(* A call that ends leaves nothing to keep.                                *)
LEMMA EndedKeeps ==
  ASSUME IInv, call' = call, phase' \in {"done", "error"}
  PROVE  IInv'
BY DEF IInv

(* The rounds of find, replace and split.                                  *)
LEMMA RoundsKeep ==
  ASSUME IInv, Find \/ Replace \/ Split
  PROVE  IInv'
<1>1. phase \in {"hit", "miss"}
  BY DEF Find, Replace, Split, Verdict
<1>2. /\ Len(Src) \in Nat /\ base \in 0..Len(Src) /\ at \in base..Len(Src)
      /\ Hit => Got(0).to \in at..Len(Src)
  BY <1>1, Given DEF IInv, AttemptOK, Hit
<1>3. ASSUME at < Len(Src) PROVE at + 1 \in base..Len(Src)
  BY <1>2, <1>3
<1>4. ASSUME Find PROVE IInv'
  <2>1. CASE Hit
    BY <1>4, <2>1, EndedKeeps DEF Find, Finish
  <2>2. CASE ~Hit /\ at < Len(Src)
    <3>1. Again(at + 1, mark, base, result)
      BY <1>4, <2>2 DEF Find
    <3>2. QED
      BY <1>1, <1>2, <1>3, <2>2, <3>1, AgainKeeps
  <2>3. CASE ~Hit /\ ~(at < Len(Src))
    BY <1>4, <2>3, EndedKeeps DEF Find, Finish
  <2>4. QED
    BY <2>1, <2>2, <2>3
<1>5. ASSUME Split PROVE IInv'
  <2>1. CASE Hit
    <3>1. Again(Got(0).to, mark, Got(0).to, Append(result, Sub(base, Got(0).from)))
      BY <1>5, <2>1 DEF Split
    <3>2. Got(0).to \in 0..Len(Src) /\ Got(0).to \in Got(0).to..Len(Src)
      BY <1>2, <2>1
    <3>3. QED
      BY <1>1, <3>1, <3>2, AgainKeeps
  <2>2. CASE ~Hit /\ at < Len(Src)
    <3>1. Again(at + 1, mark, base, result)
      BY <1>5, <2>2 DEF Split
    <3>2. QED
      BY <1>1, <1>2, <1>3, <2>2, <3>1, AgainKeeps
  <2>3. CASE ~Hit /\ ~(at < Len(Src))
    BY <1>5, <2>3, EndedKeeps DEF Split, Finish
  <2>4. QED
    BY <2>1, <2>2, <2>3
<1>6. ASSUME Replace PROVE IInv'
  <2>1. PICK end, r, s0 : /\ end = IF Hit THEN Got(0).to ELSE at + 1
                          /\ IF Hit /\ ~IsFunction /\ BadTemplate(call.arg) THEN Error
                             ELSE IF end <= Len(Src) THEN Again(end, s0, base, r)
                             ELSE Finish(r \o Sub(s0, Len(Src)))
    BY <1>6 DEF Replace
  <2>2. end <= Len(Src) => end \in base..Len(Src)
    BY <1>2, <2>1
  <2>3. CASE Again(end, s0, base, r) /\ end <= Len(Src)
    BY <1>1, <1>2, <2>2, <2>3, AgainKeeps
  <2>4. CASE Error
    BY <2>4, EndedKeeps DEF Error
  <2>5. CASE Finish(r \o Sub(s0, Len(Src)))
    BY <2>5, EndedKeeps DEF Finish
  <2>6. QED
    BY <2>1, <2>3, <2>4, <2>5
<1>7. QED
  BY <1>4, <1>5, <1>6

(* Being formed is a matter of the code and of the numbers of groups and   *)
(* counters.                                                               *)
LEMMA FormedSame ==
  ASSUME NEW C, NEW D, Formed(C), D.codes = C.codes, D.ngroup = C.ngroup, D.ncount = C.ncount
  PROVE  Formed(D)
<1>1. ASSUME NEW i \in DOMAIN C.codes PROVE FormedAt(D, i)
  <2>1. FormedAt(C, i)
    BY DEF Formed
  <2>2. QED
    BY <2>1 DEF FormedAt
<1>2. QED
  BY <1>1 DEF Formed

(* Compiling, and calls that need no matcher.                              *)
LEMMA OthersKeep ==
  ASSUME IInv, \/ CompilePattern \/ Test \/ Match \/ ReplaceNext \/ SplitNext
               \/ Reversing \/ Trimming \/ Byte \/ Repeating \/ BeginReplacing \/ BeginSplitting
  PROVE  IInv'
<1>1. ASSUME CompilePattern PROVE IInv'
  <2>1. PICK C : C = CodeOf(call.pattern)
    OBVIOUS
  <2>2. phase = "start" /\ call.op \in WithMatcher /\ call \in Calls /\ base = 0
    BY <1>1 DEF CompilePattern, IInv
  <2>3. CASE C.error
    <3>1. Error
      BY <1>1, <2>1, <2>3 DEF CompilePattern
    <3>2. QED
      BY <3>1, EndedKeeps DEF Error
  <2>4. CASE ~C.error
    <3>1. /\ phase' = "ready" /\ f' = [codes |-> C.codes, ngroup |-> C.ngroup, ncount |-> C.ncount]
          /\ call' = call /\ base' = base
      BY <1>1, <2>1, <2>4 DEF CompilePattern, scan
    <3>2. Formed(C)
      BY <2>1, <2>2, <2>4, CodeAssumption
    <3>3. f'.codes = C.codes /\ f'.ngroup = C.ngroup /\ f'.ncount = C.ncount
      BY <3>1
    <3>4. Formed(f')
      BY <3>2, <3>3, FormedSame
    <3>5. QED
      BY <2>2, <3>1, <3>4 DEF IInv
  <2>5. QED
    BY <2>3, <2>4
<1>2. ASSUME Test \/ Match \/ Reversing \/ Trimming \/ Byte \/ Repeating PROVE IInv'
  BY <1>2, EndedKeeps DEF Test, Match, Reversing, Trimming, Byte, Repeating, Finish, Error
<1>3. ASSUME ReplaceNext \/ SplitNext PROVE IInv'
  <2>1. call' = call /\ call.op \notin WithMatcher /\ phase = "ready" /\ phase' \in {"ready", "done"}
    BY <1>3 DEF ReplaceNext, SplitNext, PlainNext, Finish, WithMatcher
  <2>2. QED
    BY <2>1 DEF IInv
<1>4. ASSUME BeginReplacing \/ BeginSplitting PROVE IInv'
  <2>1. call' = call /\ call.op \notin WithMatcher /\ phase' \in {"ready", "done", "error"}
    BY <1>4 DEF BeginReplacing, BeginSplitting, Plain, Finish, Error, WithMatcher
  <2>2. QED
    BY <2>1 DEF IInv
<1>5. QED
  BY <1>1, <1>2, <1>3, <1>4

-----------------------------------------------------------------------------
(* match() never leaves its code, its counters or the subject, in whatever *)
(* call, on whatever subject and for whatever code that is formed.         *)
THEOREM MatcherStaysInside == Spec => []StaysInside
<1>1. Init => IInv
  BY DEF Init, IInv
<1>2. ASSUME IInv, [Next]_vars PROVE IInv'
  <2>1. CASE UNCHANGED vars
    BY <1>2, <2>1 DEF vars, control, scan, IInv, AttemptOK, MatchOK, Labels, LabelOK, I, Got, Src, size
  <2>2. CASE Next
    BY <1>2, <2>2, InstructionKeeps, BeginCallKeeps, RoundsKeep, OthersKeep DEF Next, Run
  <2>3. QED
    BY <1>2, <2>1, <2>2
<1>3. ASSUME IInv PROVE StaysInside
  <2>1. ASSUME phase = "match"
        PROVE  /\ pc \in DOMAIN f.codes /\ s \in at..Len(Src)
               /\ \A i \in 1..top : js[i].to \in DOMAIN f.codes /\ js[i].pos \in at..Len(Src)
               /\ I.kind \in {"REP", "REPX", "REPY"} => f.codes[pc - 1].kind = "CNT" /\ Cnt \in DOMAIN counter
               /\ I.kind \in {"JMP", "SPT", "REP", "REPX", "REPY"} => pc + I.b \in DOMAIN f.codes
               /\ I.kind = "REPX" => ~failed
    <3>1. MatchOK /\ FormedAt(f, pc) /\ size \in Nat /\ DOMAIN f.codes = 1..size
      BY <1>3, <2>1, Given
    <3>2. \A k \in 1..(size - 1) : k \in DOMAIN f.codes
      BY <3>1
    <3>3. I.kind \in Counting => f.codes[pc - 1].kind = "CNT" /\ Cnt \in DOMAIN counter /\ pc + I.b \in DOMAIN f.codes
      BY <1>3, <2>1, <3>1, <3>2, LoopIs DEF MatchOK
    <3>4. I.kind \in {"JMP", "SPT"} => pc + I.b \in DOMAIN f.codes
      BY <3>1, <3>2 DEF FormedAt, Leads, I, size
    <3>5. \A i \in 1..top : js[i].to \in DOMAIN f.codes /\ js[i].pos \in at..Len(Src)
      BY <3>1, <3>2 DEF MatchOK, Labels, LabelOK
    <3>6. pc \in DOMAIN f.codes /\ s \in at..Len(Src) /\ (I.kind = "REPX" => ~failed)
      BY <3>1 DEF MatchOK
    <3>7. QED
      BY <3>3, <3>4, <3>5, <3>6 DEF Counting
  <2>2. phase = "hit" => Got(0).to \in at..Len(Src)
    BY <1>3 DEF IInv
  <2>3. QED
    BY <2>1, <2>2 DEF StaysInside
<1>4. QED
  BY <1>1, <1>2, <1>3, PTL DEF Spec

===============================================================================
