------------------------------ MODULE Machine ------------------------------
(***************************************************************************)
(* The interpreter loop (aeval.c) on a compiled function, with the call    *)
(* protocol of ado.c, the captures of afun.c and the lists of alis.c.      *)
(*   frames   script frames and native frames, the running one last        *)
(*   stk      the stack shared by all frames, stale values included        *)
(*   top      T->top                                                       *)
(*   cells    captures (acap_t): open at a stack index, or closed          *)
(*   heap     tables, lists, tuples and the iterators over them            *)
(*   out      what the native function echo has been called with           *)
(*   status   run, done, error (aloX_error reached the host), aborted (an  *)
(*            assertion failed), abandoned, or overrun (slots past the end  *)
(*            of the stack were written: what follows is undefined)        *)
(* Two natives stand for all of them: echo logs its arguments and returns  *)
(* them; apply calls its first argument with the others (aloD_call).       *)
(* No value has a metatable.                                               *)
(***************************************************************************)
EXTENDS Instructions, SoundCode

CONSTANTS StackSize,   \* ALO_MAXSTACKSIZE: the stack never grows beyond
          MinStack,    \* ALO_MINSTACKSIZE: the slots a native function can count on
          View(_, _)   \* what the host sees of a value, with the heap it lives in

ASSUME StackAssumption == StackSize \in Nat /\ MaxStack < StackSize /\ MinStack \in Nat \ {0}

VARIABLES main, frames, stk, top, cells, heap, out, status

vmvars == <<main, frames, stk, top, cells, heap, out, status>>

Nil == <<"nil">>
IntV(n) == <<"int", n>>
Bool(b) == IF b THEN <<"true">> ELSE <<"false">>
ToBool(v) == v \notin {Nil, <<"false">>}
Echo == <<"native", "echo">>
Apply == <<"native", "apply">>
Bad == <<"bad">>           \* an operation that raises an error

------------------------------------------------------------------------------
(* The running frame, its instruction and its operands                     *)

F == Last(frames)
P == F.proto
I == P.code[F.pc + 1]
R(n) == F.base + n
K(n) == P.consts[n + 1]
S(n) == IF n < MaxStack THEN stk[R(n)]
        ELSE LET c == cells[F.caps[n - MaxStack + 1]] IN IF c.at >= 0 THEN stk[c.at] ELSE c.v
X(x, n) == IF x = 1 THEN K(n) ELSE S(n)

\* The extra arguments of a variadic function lie between its name and its base;
\* their number is negative when it is called with less than its parameters.
NExtra == F.base - (F.fun + 1) - P.nargs

Advance(k) == frames' = [frames EXCEPT ![Len(frames)].pc = @ + 1 + k]

\* Writing a register or a capture.
PutIn(s, cs, a, v) ==
    LET c == F.caps[a - MaxStack + 1]
    IN IF a < MaxStack THEN stk' = [s EXCEPT ![R(a)] = v] /\ cells' = cs
       ELSE IF cs[c].at >= 0 THEN stk' = [s EXCEPT ![cs[c].at] = v] /\ cells' = cs
       ELSE stk' = s /\ cells' = [cs EXCEPT ![c].v = v]
Put(a, v) == PutIn(stk, cells, a, v)

Fill(s, from, vs) ==
    [i \in DOMAIN s |-> IF i >= from /\ i < from + Len(vs) THEN vs[i - from + 1] ELSE s[i]]
\* moveresults: n values, nil for the missing ones.
Adjust(vs, n) == [i \in 1 .. n |-> IF i <= Len(vs) THEN vs[i] ELSE Nil]
Slots(from, n) == [i \in 1 .. n |-> stk[from + i - 1]]

Running(op) == status = "run" /\ F.falo /\ I.i = op
Raise == status' = "error" /\ UNCHANGED <<main, frames, stk, top, cells, heap, out>>

------------------------------------------------------------------------------
(* Captures: aloF_find and aloF_close                                      *)

OpenAt(cs, i) == {c \in DOMAIN cs : cs[c].at = i}

\* Fault: the capture of the first slot stays open.
CloseFrom_Above(cs, from) ==
    [c \in DOMAIN cs |-> IF cs[c].at > from THEN [at |-> -1, v |-> stk[cs[c].at]] ELSE cs[c]]

\* The captures of the slots from on leave the stack with their values.
CloseFrom(cs, from) ==
    [c \in DOMAIN cs |-> IF cs[c].at >= from THEN [at |-> -1, v |-> stk[cs[c].at]] ELSE cs[c]]

\* aloV_nloadproto: capture 0 is the environment, in a cell of its own; a captured
\* register has the cell that is open there (aloF_find), or a new one.
Wanted(p) == {R(p.caps[j].index) : j \in {k \in DOMAIN p.caps \ {1} : p.caps[k].instack}}
Unopened(p) == SetToSeq({i \in Wanted(p) : OpenAt(cells, i) = {}})
NewCells(p) == [i \in DOMAIN Unopened(p) |-> [at |-> Unopened(p)[i], v |-> Nil]]
CellsWith(p) == Append(cells, [at |-> -1, v |-> S(Registry)]) \o NewCells(p)
CapOf(p, cap) == IF cap.instack THEN CHOOSE c \in OpenAt(CellsWith(p), R(cap.index)) : TRUE
                 ELSE F.caps[cap.index + 1]
LoadCaps(p) == [j \in 1 .. Len(p.caps) |-> IF j = 1 THEN Len(cells) + 1 ELSE CapOf(p, p.caps[j])]

LoadFunction ==
    LET p == P.children[I.B + 1]
        v == <<"fun", p, LoadCaps(p)>>
    IN /\ Running("LDP")
       /\ PutIn([stk EXCEPT ![top] = v], CellsWith(p), I.A, v)
       /\ top' = F.top
       /\ Advance(0)
       /\ UNCHANGED <<main, heap, out, status>>

------------------------------------------------------------------------------
(* Values                                                                  *)

IsCol(v) == v[1] \in {"tab", "lis", "tup"}
Elements(v) == heap[v[2]].seq

Wrap(i, n) == IF i < 0 THEN i + n ELSE i
Within(k, seq, n) == k[1] = "int" /\ Wrap(k[2], Len(seq)) \in 0 .. n - 1
Item(seq, k) == IF Within(k, seq, Len(seq)) THEN seq[Wrap(k[2], Len(seq)) + 1] ELSE Nil
Entry(t, k) == IF k \in DOMAIN heap[t].map THEN heap[t].map[k] ELSE Nil

Get(v, k) ==
    IF ~IsCol(v) THEN Bad
    ELSE IF v[1] = "tab" THEN Entry(v[2], k)
    ELSE Item(Elements(v), k)

Length(v) ==
    CASE v[1] = "tab" -> IntV(Cardinality(DOMAIN heap[v[2]].map))
      [] v[1] = "lis" -> IntV(Len(Elements(v)))
      [] v[1] = "str" -> IntV(Len(v[2]))
      [] OTHER -> Bad

Sum(op, a, b) ==
    IF a[1] = "int" /\ b[1] = "int" THEN IntV(Arith(IF op \in {"ADD", "AADD"} THEN "ADD" ELSE "SUB", a[2], b[2]))
    ELSE Bad

\* id < n between values of type size_t: a negative n is above every index.
Below(id, n) == IF n >= 0 THEN id \in 0 .. n - 1 ELSE id >= 0 \/ id < n
Select(k) ==
    IF k[1] = "int" /\ Below(k[2], NExtra) THEN stk[F.fun + 1 + P.nargs + k[2]] ELSE Bad

\* The value of an instruction that only computes one.
Computed ==
    CASE I.i = "MOV" -> X(I.xB, I.B)
      [] I.i = "LDC" -> K(I.B)
      [] I.i = "GET" -> Get(X(I.xB, I.B), X(I.xC, I.C))
      [] I.i \in {"ADD", "SUB"} -> Sum(I.i, X(I.xB, I.B), X(I.xC, I.C))
      [] I.i \in {"AADD", "ASUB"} -> Sum(I.i, S(I.A), X(I.xB, I.B))
      [] I.i = "UNM" -> IF X(I.xB, I.B)[1] = "int" THEN IntV(-X(I.xB, I.B)[2]) ELSE Bad
      [] I.i = "LEN" -> Length(X(I.xB, I.B))
      [] I.i = "SELV" -> CASE I.xB \in {0, 1} -> Select(X(I.xB, I.B))
                           [] I.xB = 2 -> Select(IntV(I.B))
                           [] I.xB = 3 -> IntV(NExtra)

Evaluate ==
    /\ \E op \in {"MOV", "LDC", "GET", "ADD", "SUB", "AADD", "ASUB", "UNM", "LEN", "SELV"} : Running(op)
    /\ IF Computed = Bad THEN Raise
       ELSE Put(I.A, Computed) /\ Advance(0) /\ UNCHANGED <<main, top, heap, out, status>>

LoadNils ==
    /\ Running("LDN")
    /\ stk' = Fill(stk, R(I.A), Adjust(<<>>, I.B))
    /\ Advance(0)
    /\ UNCHANGED <<main, top, cells, heap, out, status>>

\* The values are copied one after the other from the first extra argument on.
CopiedUp(from, to, n) ==
    [i \in DOMAIN stk |-> IF i \in to .. to + n - 1
                          THEN stk[from + (IF from < to THEN (i - to) % (to - from) ELSE i - to)]
                          ELSE stk[i]]

\* With B = 0 all of them.  The code makes sure of the frame's slots and of as many
\* as there are values above T->top, which a CAT may have left lower than the first
\* register: slots beyond may be there or not.
LoadExtra ==
    LET n == IF I.B = 0 THEN NExtra ELSE I.B - 1
        last == R(I.A) + n - 1
        sure == IF I.B = 0 THEN {F.top, top + n} ELSE {F.top}
        full == I.B = 0 /\ top + n > StackSize
    IN /\ Running("LDV")
       /\ \/ full /\ Raise
          \/ /\ ~full /\ n > 0 /\ \A t \in sure : last > t
             /\ status' = "overrun"
             /\ UNCHANGED <<main, frames, stk, top, cells, heap, out>>
          \/ /\ ~full /\ last <= StackSize
             /\ stk' = CopiedUp(F.fun + 1 + P.nargs, R(I.A), n)
             /\ top' = IF I.B = 0 THEN R(I.A) + n ELSE top
             /\ Advance(0)
             /\ UNCHANGED <<main, cells, heap, out, status>>

NewTuple ==
    LET n == IF I.C = 0 THEN top - R(I.B) ELSE I.C - 1
    IN /\ Running("NEWA")
       /\ heap' = Append(heap, [kind |-> "tup", seq |-> Slots(R(I.B), n)])
       /\ Put(I.A, <<"tup", Len(heap) + 1>>)
       /\ top' = F.top
       /\ Advance(0)
       /\ UNCHANGED <<main, out, status>>

Object(op) == IF op = "NEWM" THEN [kind |-> "tab", map |-> <<>>] ELSE [kind |-> "lis", seq |-> <<>>]

\* checkGC: a step of the collector leaves T->top at the top of the frame.
Collected(t) == {t, F.top}

NewObject ==
    /\ \E op \in {"NEWM", "NEWL"} : Running(op)
    /\ heap' = Append(heap, Object(I.i))
    /\ Put(I.A, <<Object(I.i).kind, Len(heap) + 1>>)
    /\ top' \in Collected(top)
    /\ Advance(0)
    /\ UNCHANGED <<main, out, status>>

\* aloV_nset: a list takes an index up to its length.
WithEntry(map, k, v) == [j \in DOMAIN map \cup {k} |-> IF j = k THEN v ELSE map[j]]
Settable(t, k) == t[1] = "tab" \/ (t[1] = "lis" /\ Within(k, Elements(t), Len(Elements(t)) + 1))
SetAt(t, k, v) ==
    LET seq == Elements(t)
        i == Wrap(k[2], Len(seq))
    IN IF t[1] = "tab" THEN [heap EXCEPT ![t[2]].map = WithEntry(@, k, v)]
       ELSE [heap EXCEPT ![t[2]].seq = IF i = Len(seq) THEN Append(@, v) ELSE [@ EXCEPT ![i + 1] = v]]

SetItem ==
    LET t == S(I.A)
        k == X(I.xB, I.B)
    IN /\ Running("SET")
       /\ IF Settable(t, k)
          THEN heap' = SetAt(t, k, X(I.xC, I.C)) /\ Advance(0) /\ UNCHANGED <<main, stk, top, cells, out, status>>
          ELSE Raise

\* aloI_remove lets the length pass for an index, and an assertion of aloI_removei fails.
RemoveFrom(t, k) ==
    IF t[1] = "tab" THEN [heap EXCEPT ![t[2]].map = [j \in DOMAIN @ \ {k} |-> @[j]]]
    ELSE IF Within(k, Elements(t), Len(Elements(t)))
    THEN [heap EXCEPT ![t[2]].seq = RemoveAt(@, Wrap(k[2], Len(@)) + 1)] ELSE heap
RemoveItem ==
    LET t == X(I.xB, I.B)
        k == X(I.xC, I.C)
        pastEnd == t[1] = "lis" /\ k = IntV(Len(Elements(t)))
    IN /\ Running("REM")
       /\ IF t[1] \notin {"tab", "lis"} THEN Raise
          ELSE IF pastEnd THEN status' = "aborted" /\ UNCHANGED <<main, frames, stk, top, cells, heap, out>>
          ELSE /\ heap' = RemoveFrom(t, k)
               /\ Put(I.A, Get(t, k))
               /\ Advance(0)
               /\ UNCHANGED <<main, top, out, status>>

\* UNBOX: with C = 0 all the elements, and top after them; with xC the next
\* instruction is skipped when the number of elements is the one asked for.
Spread ==
    LET v == X(I.xB, I.B)
        all == I.C = 0
        vs == Elements(v)
        n == IF all THEN Len(vs) ELSE I.C - 1
        fits == v[1] = "tup" /\ (all \/ Len(vs) = n)
    IN /\ Running("UNBOX")
       /\ IF (v[1] # "tup" /\ I.xC = 0) \/ (v[1] = "tup" /\ all /\ R(I.A) + n > StackSize) THEN Raise
          ELSE /\ stk' = IF I.xC = 1 /\ ~fits THEN stk ELSE Fill(stk, R(I.A), Adjust(vs, n))
               /\ top' = IF v[1] = "tup" /\ all THEN R(I.A) + n ELSE top
               /\ Advance(Bit(I.xC = 1 /\ fits))
               /\ UNCHANGED <<main, cells, heap, out, status>>

\* The text of C + 1 registers goes to the first of them; top stays above it
\* when the collector does not move it.
Text(v) == CASE v[1] = "int" -> ToString(v[2])
             [] v[1] = "str" -> v[2]
             [] OTHER -> v[1]      \* with the address of an object
Texts(vs) == FoldLeft(LAMBDA a, v : a \o Text(v), "", vs)
Concat ==
    LET n == IF I.C = 0 THEN top - R(I.B) ELSE I.C + 1
    IN /\ Running("CAT")
       /\ stk' = [stk EXCEPT ![R(I.B)] = <<"str", Texts(Slots(R(I.B), n))>>]
       /\ top' \in Collected(R(I.B) + 1)
       /\ Advance(0)
       /\ UNCHANGED <<main, cells, heap, out, status>>

------------------------------------------------------------------------------
(* Jumps                                                                   *)

Jump ==
    /\ Running("JMP")
    /\ cells' = IF I.xA = 1 THEN CloseFrom(cells, R(I.A)) ELSE cells
    /\ Advance(I.B)
    /\ UNCHANGED <<main, stk, top, heap, out, status>>

JumpIf ==
    /\ Running("JCZ")
    /\ Advance(IF Bit(ToBool(X(I.xA, I.A))) = I.xC THEN I.B ELSE 0)
    /\ UNCHANGED <<main, stk, top, cells, heap, out, status>>

\* The order of two strings is left open.
Ordered(a, b) == {a[1], b[1]} \in {{"int"}, {"str"}}
Outcomes(a, b) ==
    CASE I.i = "EQ" -> {a = b}
      [] I.i = "LT" -> IF a[1] = "int" THEN {a[2] < b[2]} ELSE BOOLEAN
      [] I.i = "LE" -> IF a[1] = "int" THEN {a[2] <= b[2]} ELSE BOOLEAN

CompareJumps ==
    LET a == X(I.xA, I.A)
        b == X(I.xB, I.B)
    IN /\ \E op \in {"EQ", "LT", "LE"} : Running(op)
       /\ IF I.i # "EQ" /\ ~Ordered(a, b) THEN Raise
          ELSE /\ \E holds \in Outcomes(a, b) : Advance(Bit(Bit(holds) = I.xC))
               /\ UNCHANGED <<main, stk, top, cells, heap, out, status>>

------------------------------------------------------------------------------
(* Calls (ado.c)                                                           *)

\* aloD_rawcall: the frame of the function at fun, called with the values up to t.
Callable(v) == v[1] \in {"fun", "native", "iter"}
NativeFrame(t, fun, nres, tail) ==
    [falo |-> FALSE, proto |-> main, caps |-> <<>>, fun |-> fun, base |-> fun + 1,
     top |-> t + MinStack, pc |-> 0, nres |-> nres, tail |-> tail]
ScriptFrame(p, caps, base, fun, nres) ==
    [falo |-> TRUE, proto |-> p, caps |-> caps, fun |-> fun, base |-> base,
     top |-> base + p.nstack, pc |-> 0, nres |-> nres, tail |-> FALSE]

Enter(fs, s, t, fun, nres, tail) ==
    LET v == s[fun]
        p == v[2]
        script == v[1] = "fun"
        base == IF p.vararg THEN t ELSE fun + 1
        args == Adjust([i \in 1 .. t - (fun + 1) |-> s[fun + i]], p.nargs)
    IN IF ~Callable(v) \/ t + (IF script THEN p.nstack ELSE MinStack) > StackSize
       THEN status' = "error" /\ UNCHANGED <<main, frames, stk, top, heap, out>>
       ELSE /\ frames' = Append(fs, IF script THEN ScriptFrame(p, v[3], base, fun, nres)
                                              ELSE NativeFrame(t, fun, nres, tail))
            /\ stk' = IF script THEN Fill(s, base, args) ELSE s
            /\ top' = IF script THEN base + p.nstack ELSE t
            /\ UNCHANGED <<main, heap, out, status>>

Advanced == [frames EXCEPT ![Len(frames)].pc = @ + 1]

Call ==
    /\ Running("CALL")
    /\ Enter(Advanced, stk, IF I.B # 0 THEN R(I.A) + I.B ELSE top, R(I.A), I.C - 1, FALSE)
    /\ UNCHANGED cells

\* The function and its arguments move down to the place of the running one.
TailCallFunction ==
    LET n == IF I.B = 0 THEN top - R(I.A) ELSE I.B
    IN /\ Running("TCALL")
       /\ cells' = CloseFrom(cells, F.base)
       /\ Enter(Front(frames), Fill(stk, F.fun, Slots(R(I.A), n)), F.fun + n, F.fun, F.nres, TRUE)

\* The iterator is called with no argument.
CallIterator ==
    /\ Running("ICALL")
    /\ Enter(Advanced, [stk EXCEPT ![R(I.A) + 1] = stk[R(I.A)]], R(I.A) + 2, R(I.A) + 1, I.C - 1, FALSE)
    /\ UNCHANGED cells

\* aloV_iterator: a function is its own iterator.
NewIterator ==
    LET v == stk[R(I.B)]
    IN /\ Running("ITR")
       /\ IF Callable(v) THEN Put(I.A, v) /\ Advance(0) /\ UNCHANGED <<main, top, heap, out, status>>
          ELSE IF IsCol(v) THEN
              /\ heap' = Append(heap, [kind |-> "iter", in |-> v, off |-> -1])
              /\ Put(I.A, <<"iter", Len(heap) + 1>>)
              /\ Advance(0)
              /\ UNCHANGED <<main, top, out, status>>
          ELSE Raise

\* Fault: T->top is left where the results end.
Leave_KeepTop(vs) ==
    LET want == IF F.nres = MULTIRET THEN Len(vs) ELSE F.nres
        fs == Front(frames)
        ins == Last(fs).proto.code[Last(fs).pc]
        scripted == Len(fs) > 0 /\ Last(fs).falo
    IN /\ stk' = Fill(stk, F.fun, Adjust(vs, want))
       /\ frames' = IF scripted /\ ~F.tail /\ ins.i = "ICALL" /\ vs # <<>>
                    THEN [fs EXCEPT ![Len(fs)].pc = @ + 1] ELSE fs
       /\ top' = F.fun + want
       /\ status' = IF fs = <<>> THEN "done" ELSE IF scripted /\ F.tail THEN "abandoned" ELSE status

\* aloD_postcall and what the caller does then (the finish block of aloV_invoke):
\* the values move to the function's place, nil for the missing ones.
\* After a native called as a tail call aloV_invoke returns, even to a script frame.
Leave(vs) ==
    LET want == IF F.nres = MULTIRET THEN Len(vs) ELSE F.nres
        fs == Front(frames)
        c == Last(fs)
        ins == c.proto.code[c.pc]
        scripted == Len(fs) > 0 /\ c.falo
        keeps == scripted /\ ~F.tail /\ ins.i = "CALL" /\ ins.C = 0
    IN /\ stk' = Fill(stk, F.fun, Adjust(vs, want))
       /\ frames' = IF scripted /\ ~F.tail /\ ins.i = "ICALL" /\ vs # <<>>
                    THEN [fs EXCEPT ![Len(fs)].pc = @ + 1] ELSE fs
       /\ top' = IF ~scripted \/ keeps \/ F.tail THEN F.fun + want ELSE c.top
       /\ status' = IF fs = <<>> THEN "done" ELSE IF scripted /\ F.tail THEN "abandoned" ELSE status

Return ==
    LET n == IF I.B = 0 THEN top - R(I.A) ELSE I.B - 1
    IN /\ Running("RET")
       /\ cells' = CloseFrom(cells, F.base)
       /\ Leave(Slots(R(I.A), n))
       /\ UNCHANGED <<main, heap, out>>

Native(v) == status = "run" /\ ~F.falo /\ stk[F.fun][1] = v
Args == Slots(F.base, top - F.base)

EchoReturns ==
    /\ Native("native") /\ stk[F.fun] = Echo
    /\ out' = Append(out, [i \in DOMAIN Args |-> View(heap, Args[i])])
    /\ Leave(Args)
    /\ UNCHANGED <<main, cells, heap>>

ApplyCalls ==
    /\ Native("native") /\ stk[F.fun] = Apply /\ F.pc = 0
    /\ IF top = F.base THEN Raise ELSE Enter(Advanced, stk, top, F.base, MULTIRET, FALSE) /\ UNCHANGED cells

ApplyReturns ==
    /\ Native("native") /\ stk[F.fun] = Apply /\ F.pc = 1
    /\ Leave(Args)
    /\ UNCHANGED <<main, cells, heap, out>>

\* list_iterator, tuple_iterator, table_iterator; a table has one entry at most here.
IteratorReturns ==
    LET id == stk[F.fun][2]
        v == heap[id].in
        keys == IF v[1] = "tab" THEN SetToSeq(DOMAIN heap[v[2]].map) ELSE <<>>
        items == IF v[1] = "tab" THEN [i \in DOMAIN keys |-> <<keys[i], Entry(v[2], keys[i])>>]
                 ELSE [i \in DOMAIN Elements(v) |-> <<Elements(v)[i]>>]
        off == heap[id].off + 1
    IN /\ Native("iter")
       /\ heap' = [heap EXCEPT ![id].off = IF off >= Len(items) THEN Len(items) ELSE off]
       /\ Leave(IF off >= Len(items) THEN <<>> ELSE items[off + 1])
       /\ UNCHANGED <<main, cells, out>>

------------------------------------------------------------------------------
\* The host calls the compiled program: object 1 of the heap is the environment.
Start(proto, globals) ==
    /\ main = proto
    /\ cells = <<[at |-> -1, v |-> <<"tab", 1>>]>>
    /\ heap = <<[kind |-> "tab", map |-> globals]>>
    /\ stk = [i \in 0 .. StackSize |-> IF i = 0 THEN <<"fun", proto, <<1>>>> ELSE Nil]
    /\ frames = <<ScriptFrame(proto, <<1>>, 1, 0, MULTIRET)>>
    /\ top = 1 + proto.nstack
    /\ out = <<>>
    /\ status = "run"

Step ==
    \/ Evaluate \/ LoadNils \/ LoadExtra \/ LoadFunction
    \/ NewTuple \/ NewObject \/ SetItem \/ RemoveItem \/ Spread \/ Concat
    \/ Jump \/ JumpIf \/ CompareJumps
    \/ Call \/ TailCallFunction \/ CallIterator \/ NewIterator \/ Return
    \/ EchoReturns \/ ApplyCalls \/ ApplyReturns \/ IteratorReturns

\* What the host can see of a program that has ended.
HostResults == Slots(0, top)
Outcome ==
    [status |-> status, out |-> out,
     results |-> IF status = "done" THEN [i \in 1 .. top |-> View(heap, HostResults[i])] ELSE <<>>,
     globals |-> View(heap, <<"tab", 1>>)]

------------------------------------------------------------------------------
(* Properties                                                              *)

\* An open capture is a variable of a script frame that is still there, one that
\* a function made in this frame captures, and no two share one: aloF_find finds
\* it again, aloF_close closes it in time.
Captured(p) == UNION {{p.children[i].caps[j].index : j \in {k \in DOMAIN p.children[i].caps \ {1} : p.children[i].caps[k].instack}} :
                         i \in DOMAIN p.children}
Open == {c \in DOMAIN cells : cells[c].at >= 0}
CapturesInFrames ==
    status = "run" =>
        /\ \A c \in Open : \E f \in DOMAIN frames : frames[f].falo /\ cells[c].at - frames[f].base \in Captured(frames[f].proto)
        /\ \A c, d \in Open : cells[c].at = cells[d].at => c = d

\* The interpreter, which checks nothing of it, stays in the code, the stack and
\* the captures of the function that runs: it never writes extra arguments past
\* the stack (OP_LDV), there is a next instruction, the registers are slots of the
\* stack, each capture has a cell, and T->top covers the registers but where values
\* of an open number wait for the next instruction; a frame that concatenates has
\* it too low (CAT leaves it above its result).
StaysInFrame ==
    /\ status # "overrun"
    /\ status = "run" =>
        /\ top <= StackSize /\ F.base <= top
        /\ F.falo => /\ F.pc + 1 \in DOMAIN P.code
                     /\ F.top = F.base + P.nstack /\ F.top <= StackSize
                     /\ Len(F.caps) = Len(P.caps) /\ \A c \in DOMAIN F.caps : F.caps[c] \in DOMAIN cells
                     /\ \/ top = F.top
                        \/ F.pc > 0 /\ Waits(P.code[F.pc])
                        \/ HasConcat(P)
==============================================================================
