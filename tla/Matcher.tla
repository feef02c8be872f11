------------------------------- MODULE Matcher -------------------------------
(***************************************************************************)
(* A call of the string library (astrlib.c): the code of a pattern runs on *)
(* a subject, one instruction a step, with a stack of labels to go back    *)
(* to, under the loops of find, replace and split; and the loops of plain  *)
(* replace, split and repeat.                                              *)
(***************************************************************************)
EXTENDS Subjects, SequencesExt

CONSTANTS Calls,     \* [op, pattern, src, arg], see Init
          CodeOf(_), \* the compiler: [codes, ngroup, ncount, error]
          BufMax     \* MAX_STACKBUF_LEN

VARIABLES call,     \* the call
          phase,    \* start, ready, match, hit, miss, done, error
          f,        \* the compiled pattern: codes, ngroup, ncount
          pc, s, failed, counter,
          js, top,  \* labels, [to, pos, cnt]; those above top are of the past
          groups,   \* [from, to] of each group, Unset before the first time
          mask,     \* must the match reach the end?
          base,     \* sbegin
          at,       \* where the attempt began (s1)
          mark,     \* what is before it has been dealt with (s0)
          result

control == <<pc, s, failed, counter, js, top, groups>>
scan == <<mask, base, at, mark>>
vars == <<call, phase, f, control, scan, result>>

Unset == -1
Garbage == "garbage"
Src == call.src
Number == call.arg[1]
Sub(b, e) == SubSeq(Src, b + 1, e)
WithMatcher == {"test", "match", "find", "replace", "split"}

\* What match() takes for granted of code.  It ends with END 0 and RET, and only
\* the one leads to the other; jumps lead to instructions, and labels never to one
\* that counts, which follows the CNT of its counter; a character that is looked
\* for is not the one behind the end.
Checking == {"CHKC", "CHKS", "CHKXS", "CHKQ", "CHKF", "CHKL"}
Counting == {"REP", "REPX", "REPY"}
Kinds == Checking \cup Counting \cup {"RET", "BEG", "END", "SPT", "JMP", "CNT"}
Leads(codes, to, label) == to \in 1 .. Len(codes) - 1 /\ (label => codes[to].kind \notin Counting)
FormedAt(C, i) ==
    LET c == C.codes
        x == c[i]
    IN /\ x.kind \in Kinds
       /\ x.kind = "RET" <=> i = Len(c)
       /\ x.kind \in {"BEG", "END"} => x.a \in 0 .. C.ngroup - 1
       /\ x.kind = "CNT" => x.a \in 0 .. C.ncount - 1
       /\ x.kind \in Counting => i > 1 /\ c[i - 1].kind = "CNT" /\ Leads(c, i + x.b, TRUE)
       /\ x.kind = "JMP" => Leads(c, i + x.b, FALSE)
       /\ x.kind = "SPT" => Leads(c, i + x.a, TRUE) /\ Leads(c, i + x.b, TRUE)
       /\ x.kind = "CHKC" => x.a # NUL
       /\ x.kind = "CHKF" => x.a # EOS
       /\ x.kind = "CHKQ" => x.a \in Seq(STRING \X STRING) /\ \A k \in DOMAIN x.a : x.a[k][2] # EOS
Formed(C) ==
    /\ DOMAIN C.codes = 1 .. Len(C.codes) /\ Len(C.codes) \in Nat
    /\ C.ngroup \in Nat \ {0} /\ C.ncount \in Nat
    /\ Len(C.codes) > 2 /\ C.codes[Len(C.codes) - 1].kind = "END" /\ C.codes[Len(C.codes) - 1].a = 0
    /\ \A i \in DOMAIN C.codes : FormedAt(C, i)
ASSUME CodeAssumption ==
    \A c \in Calls : c.op \in WithMatcher => CodeOf(c.pattern).error \/ Formed(CodeOf(c.pattern))
ASSUME SubjectAssumption == \A c \in Calls : c.src \in Seq(STRING)

Init == /\ call \in Calls
        /\ phase = "start"
        /\ f = [codes |-> <<>>, ngroup |-> 0, ncount |-> 0]
        /\ pc = 0 /\ s = 0 /\ failed = FALSE /\ counter = <<>>
        /\ js = <<>> /\ top = 0 /\ groups = <<>>
        /\ mask = FALSE /\ base = 0 /\ at = 0 /\ mark = 0
        /\ result = <<>>

------------------------------------------------------------------------------
(* Where a call begins and ends                                            *)

Finish(r) == phase' = "done" /\ result' = r /\ UNCHANGED <<call, f, control, scan>>
Error == phase' = "error" /\ UNCHANGED <<call, f, control, scan, result>>

CompilePattern ==
    LET C == CodeOf(call.pattern)
    IN /\ phase = "start" /\ call.op \in WithMatcher
       /\ IF C.error THEN Error
          ELSE /\ phase' = "ready"
               /\ f' = [codes |-> C.codes, ngroup |-> C.ngroup, ncount |-> C.ncount]
               /\ UNCHANGED <<call, control, scan, result>>

\* match(): the buffer of labels is new, the groups are those of the call.
Begin(from) ==
    /\ phase' = "match"
    /\ pc' = 1 /\ s' = from /\ failed' = FALSE
    /\ counter' = [i \in 1 .. f.ncount |-> 0]
    /\ js' = <<>> /\ top' = 0

\* mbegin, and the first attempt.  A negative offset counts from the end.
Offset == IF call.arg = <<>> \/ call.op # "find" THEN 0 ELSE IF Number < 0 THEN Number + Len(Src) ELSE Number
BeginCall ==
    /\ phase = "ready"
    /\ IF Offset \notin 0 .. Len(Src) THEN Error
       ELSE /\ groups' = [i \in 1 .. f.ngroup |-> [from |-> Unset, to |-> Unset]]
            /\ mask' = (call.op \in {"test", "match"})
            /\ at' = Offset
            /\ Begin(Offset)
            /\ UNCHANGED <<call, f, base, mark, result>>

------------------------------------------------------------------------------
(* match: one instruction                                                  *)

I == f.codes[pc]
At(kind) == phase = "match" /\ I.kind = kind
Fixed == UNCHANGED <<call, f, scan, result>>

Pop == js[top]
\* mthrow: back to the last label, or no match.
Throw ==
    IF top > 0
    THEN /\ top' = top - 1
         /\ pc' = Pop.to /\ s' = Pop.pos /\ failed' = TRUE
         /\ UNCHANGED <<phase, js>>
    ELSE phase' = "miss" /\ UNCHANGED <<pc, s, failed, js, top>>

\* The label just popped is still there, above the top of the buffer.
\* Mutant: the label below it.
TopLabel_Below == IF top > 0 THEN js[top] ELSE js[top + 1]
TopLabel == js[top + 1]
PushLabel(to, cnt) == /\ js' = SubSeq(js, 1, top) \o <<[to |-> to, pos |-> s, cnt |-> cnt]>>
                      /\ top' = top + 1

Go(to) == pc' = to /\ failed' = FALSE
Continue(to) == Go(to) /\ UNCHANGED <<phase, js, top>>

\* Check what is at s, and go on behind it or back.
Check(ok, next) ==
    /\ IF ok THEN Continue(pc + 1) /\ s' = next ELSE Throw
    /\ UNCHANGED <<counter, groups>> /\ Fixed

Ret == /\ At("RET")
       /\ IF mask /\ s # Len(Src) THEN Throw ELSE phase' = "hit" /\ UNCHANGED <<pc, s, failed, js, top>>
       /\ UNCHANGED <<counter, groups>> /\ Fixed

Beg == /\ At("BEG")
       /\ groups' = [groups EXCEPT ![I.a + 1].from = s]
       /\ Continue(pc + 1)
       /\ UNCHANGED <<s, counter>> /\ Fixed

End == /\ At("END")
       /\ groups' = [groups EXCEPT ![I.a + 1].to = s]
       /\ Continue(pc + 1)
       /\ UNCHANGED <<s, counter>> /\ Fixed

CheckChar == At("CHKC") /\ Check(CharAt(Src, s) = I.a, s + 1)
CheckSet == At("CHKS") /\ Check(MatchSet(I.a, Getc(Src, s)), PastGetc(Src, s))
\* The end of the subject is in no set, so it passes.
CheckNotSet == At("CHKXS") /\ Check(~MatchSet(I.a, Getc(Src, s)), PastGetc(Src, s))
CheckSeq == At("CHKQ") /\ Check(MatchSeq(I.a, Src, s), s + Len(I.a))
CheckClass == At("CHKF") /\ Check(MatchClass(I.a, Getc(Src, s)), PastGetc(Src, s))
CheckLimit == At("CHKL") /\ Check(MatchLim(I.a, Src, base, s), s)

\* The counter of a loop is that of the CNT before it.
Cnt == f.codes[pc - 1].a + 1

Rep ==
    /\ At("REP")
    /\ IF failed
       THEN counter' = [counter EXCEPT ![Cnt] = TopLabel.cnt] /\ Throw
       ELSE IF counter[Cnt] = I.a
       THEN Continue(pc + I.b) /\ UNCHANGED <<s, counter>>
       ELSE /\ PushLabel(pc, counter[Cnt])
            /\ counter' = [counter EXCEPT ![Cnt] = @ + 1]
            /\ Go(pc + 1)
            /\ UNCHANGED <<phase, s>>
    /\ UNCHANGED groups /\ Fixed

\* Nothing counts here: any number of times.
RepX ==
    /\ At("REPX")
    /\ IF counter[Cnt] = I.a
       THEN Continue(pc + I.b)
       ELSE PushLabel(pc + I.b, 0) /\ Go(pc + 1) /\ UNCHANGED phase
    /\ UNCHANGED <<s, counter, groups>> /\ Fixed

RepY ==
    /\ At("REPY")
    /\ IF ~failed
       THEN PushLabel(pc, counter[Cnt]) /\ Go(pc + I.b) /\ UNCHANGED <<phase, s, counter>>
       ELSE IF TopLabel.cnt = I.a
       THEN counter' = [counter EXCEPT ![Cnt] = TopLabel.cnt] /\ Throw
       ELSE counter' = [counter EXCEPT ![Cnt] = TopLabel.cnt + 1] /\ Continue(pc + 1) /\ UNCHANGED s
    /\ UNCHANGED groups /\ Fixed

Spt == /\ At("SPT")
       /\ PushLabel(pc + I.a, 0)
       /\ Go(pc + I.b)
       /\ UNCHANGED <<phase, s, counter, groups>> /\ Fixed

Jmp == At("JMP") /\ Continue(pc + I.b) /\ UNCHANGED <<s, counter, groups>> /\ Fixed

Reset == /\ At("CNT")
         /\ counter' = [counter EXCEPT ![I.a + 1] = 0]
         /\ Continue(pc + 1)
         /\ UNCHANGED <<s, groups>> /\ Fixed

Instruction == \/ Ret \/ Beg \/ End \/ CheckChar \/ CheckSet \/ CheckNotSet \/ CheckSeq \/ CheckClass
               \/ CheckLimit \/ Rep \/ RepX \/ RepY \/ Spt \/ Jmp \/ Reset

------------------------------------------------------------------------------
(* What the calls make of a verdict                                        *)

Verdict(op) == phase \in {"hit", "miss"} /\ call.op = op
Hit == phase = "hit"
Got(i) == groups[i + 1]
\* A group that took no part has the bounds that were in the buffer.
GroupText(i) == IF Got(i).from = Unset \/ Got(i).to = Unset THEN Garbage ELSE Sub(Got(i).from, Got(i).to)

Test == Verdict("test") /\ Finish(Hit)
Match == Verdict("match") /\ Finish(IF Hit THEN [i \in 1 .. f.ngroup |-> GroupText(i - 1)] ELSE FALSE)

\* The next attempt of a scan, from s1.
Again(s1, s0, sbegin, r) ==
    /\ Begin(s1)
    /\ at' = s1 /\ mark' = s0 /\ base' = sbegin /\ result' = r
    /\ UNCHANGED <<call, f, groups, mask>>

\* Mutant: the next attempt begins at the same place.
Find_Stay ==
    /\ Verdict("find")
    /\ IF Hit THEN Finish(<<Got(0).from, Got(0).to>>)
       ELSE IF at < Len(Src) THEN Again(at, mark, base, result)
       ELSE Finish(FALSE)

Find ==
    /\ Verdict("find")
    /\ IF Hit THEN Finish(<<Got(0).from, Got(0).to>>)
       ELSE IF at < Len(Src) THEN Again(at + 1, mark, base, result)
       ELSE Finish(FALSE)

\* aux_replaces: the text between two marks is put when the next mark comes.
\* Behind $$ it is not taken as put.
Template(items) ==
    LET Next(st, x) ==
            CASE x[1] = "chr" -> [st EXCEPT !.wait = Append(@, x[2])]
              [] x[1] = "$$" -> [out |-> st.out \o st.wait \o <<"$">>, wait |-> st.wait \o <<"$", "$">>]
              [] x[1] = "ref" -> [out |-> st.out \o st.wait \o GroupText(x[2]), wait |-> <<>>]
        st == FoldLeft(Next, [out |-> <<>>, wait |-> <<>>], items)
    IN st.out \o st.wait
BadTemplate(items) == \E i \in DOMAIN items : items[i][1] = "ref" /\ items[i][2] >= f.ngroup

\* aux_replacef: a function of the script gets the text and its position.
Transform(text, pos) == <<"<", ToString(pos)>> \o text \o <<">">>

IsFunction == call.arg = <<<<"fun">>>>
Replacement == IF IsFunction THEN Transform(GroupText(0), Got(0).from) ELSE Template(call.arg)

Replace ==
    LET end == IF Hit THEN Got(0).to ELSE at + 1
        r == IF Hit THEN result \o Sub(mark, at) \o Replacement ELSE result
        s0 == IF Hit THEN end ELSE mark
    IN /\ Verdict("replace")
       /\ IF Hit /\ ~IsFunction /\ BadTemplate(call.arg) THEN Error
          ELSE IF end <= Len(Src) THEN Again(end, s0, base, r)
          ELSE Finish(r \o Sub(s0, Len(Src)))

\* matcher_split: the rest of the subject is split from its own begin on.
Split ==
    /\ Verdict("split")
    /\ IF Hit THEN Again(Got(0).to, mark, Got(0).to, Append(result, Sub(base, Got(0).from)))
       ELSE IF at < Len(Src) THEN Again(at + 1, mark, base, result)
       ELSE Finish(Append(result, Sub(base, Len(Src))))

------------------------------------------------------------------------------
(* Calls without a pattern                                                 *)

Spaces == CType["s"]
Blank(i) == Src[i] \in Spaces
Plain(op) == phase = "start" /\ call.op = op

Reversing == Plain("reverse") /\ Finish([i \in DOMAIN Src |-> Src[Len(Src) + 1 - i]])

Trimming ==
    /\ Plain("trim")
    /\ LET kept == {i \in DOMAIN Src : ~Blank(i)}
       IN Finish(IF kept = {} THEN <<>> ELSE SubSeq(Src, Min(kept), Max(kept)))

\* str_byte: an index is good up to the length; there is the terminator.
Byte == /\ Plain("byte")
        /\ LET i == IF Number >= 0 THEN Number ELSE Number + Len(Src)
           IN IF i < 0 \/ i > Len(Src) THEN Error ELSE Finish(CharAt(Src, i))

\* A long repetition doubles what is there, and takes the rest from the source,
\* or from what lies behind it.
Doubled(total) ==
    LET Rest(n) == [i \in 1 .. n |-> IF i <= Len(Src) THEN Src[i] ELSE Garbage]
        d[buf \in Seq(STRING)] ==
            IF 2 * Len(buf) <= total THEN d[buf \o buf] ELSE buf \o Rest(total - Len(buf))
    IN d[Src]
Repeated(n) == FlattenSeq([i \in 1 .. n |-> Src])
Repeating == /\ Plain("repeat")
             /\ Finish(IF Len(Src) * Number <= BufMax THEN Repeated(Number)
                       ELSE Doubled(Len(Src) * Number))

\* str_replace, not a pattern: it is the subject that must not be empty.
Target == call.pattern
BeginReplacing ==
    /\ Plain("replaceall")
    /\ IF Src = <<>> THEN Error
       ELSE IF Len(Src) < Len(Target) \/ FindAux(Src, 0, Target) = -1 THEN Finish(Src)
       ELSE phase' = "ready" /\ UNCHANGED <<call, f, control, scan, result>>
BeginSplitting == Plain("splitall") /\ phase' = "ready" /\ UNCHANGED <<call, f, control, scan, result>>

Place == FindAux(Src, at, Target)
PlainNext(op, hit, rest) ==
    /\ phase = "ready" /\ call.op = op
    /\ IF Place = -1 THEN Finish(rest)
       ELSE /\ result' = hit
            /\ at' = Place + Len(Target)
            /\ UNCHANGED <<call, phase, f, control, mask, base, mark>>
ReplaceNext == PlainNext("replaceall", result \o Sub(at, Place) \o call.arg, result \o Sub(at, Len(Src)))
SplitNext == PlainNext("splitall", Append(result, Sub(at, Place)), Append(result, Sub(at, Len(Src))))

------------------------------------------------------------------------------
Run == \/ call.op \in WithMatcher /\ BeginCall
       \/ Instruction
       \/ Test \/ Match \/ Find \/ Replace \/ Split
       \/ ReplaceNext \/ SplitNext
Next == \/ CompilePattern
        \/ Run
        \/ Reversing \/ Trimming \/ Byte \/ Repeating
        \/ BeginReplacing \/ BeginSplitting
\* The loops of a call go on until they return.
Spec == Init /\ [][Next]_vars /\ WF_vars(Run)

------------------------------------------------------------------------------
(* Properties                                                              *)

\* match() stays inside its code and the subject: the instruction it is at, the
\* ones its labels lead to, the positions it goes back to, and the counter of
\* a loop (relative jumps, erased and folded by the compiler; sgetc at the end).
\* It never goes back behind the place where the attempt began.
\* RE_REPX: "aloE_xassert(!failed)".  A match has an end for its caller to go on from.
StaysInside ==
    /\ phase = "match" =>
        /\ pc \in DOMAIN f.codes /\ s \in at .. Len(Src)
        /\ \A i \in 1 .. top : js[i].to \in DOMAIN f.codes /\ js[i].pos \in at .. Len(Src)
        /\ I.kind \in {"REP", "REPX", "REPY"} => f.codes[pc - 1].kind = "CNT" /\ Cnt \in DOMAIN counter
        /\ I.kind \in {"JMP", "SPT", "REP", "REPX", "REPY"} => pc + I.b \in DOMAIN f.codes
        /\ I.kind = "REPX" => ~failed
    /\ phase = "hit" => Got(0).to \in at .. Len(Src)

\* A call that has begun comes back: no loop of a pattern turns for ever, every
\* round of a scan gets further.
Halts == phase = "ready" ~> phase \in {"done", "error"}
==============================================================================
