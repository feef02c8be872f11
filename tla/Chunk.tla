-------------------------------- MODULE Chunk --------------------------------
(***************************************************************************)
(* Precompiled chunks: asave.c writes a prototype as a sequence of bytes,  *)
(* aload.c reads it back.  A sequence has bytes <<"byte", n>> and, for     *)
(* what is copied without a look at its bytes, units <<"unit", x>>.        *)
(* A prototype is a record with the fields code, consts, caps, children,   *)
(* nargs, vararg, nstack, name, src, lines and locvars.                    *)
(* A reader is [in, ok, aborted]: the bytes left, whether no check has     *)
(* failed (error() throws ThreadStateErrSerialize), and whether what       *)
(* failed is an assertion.  Operators that read return [v, r], what was    *)
(* read and the reader after it.  A reader that finds a byte in place of a *)
(* unit, or the reverse, has lost its place: it fails.                     *)
(***************************************************************************)
EXTENDS Integers, Sequences, FiniteSets, SequencesExt

CONSTANTS ByteMax,        \* UINT8_MAX
          MaxIStrLen,     \* ALO_MAXISTRLEN: the longest short string
          IntSize,        \* sizeof(int), in bytes
          SizeSize        \* sizeof(size_t)

ASSUME WidthsOK == {ByteMax, MaxIStrLen, IntSize, SizeSize} \subseteq Nat \ {0}

Null == <<>>             \* a name is <<text>>
Unset == <<"", "unset">>      \* a field of an array fresh from aloM_newa
Byte(n) == <<"byte", n>>
Unit(x) == <<"unit", x>>

------------------------------------------------------------------------------
(* Writing                                                                 *)

\* saver: a number of the given width, its low byte first.
Number(n, width) == [i \in 1 .. width |-> Byte((n \div (ByteMax + 1)^(i - 1)) % (ByteMax + 1))]
SaveInt(n) == Number(n, IntSize)
SaveSize(n) == Number(n, SizeSize)
Chars(s) == [i \in 1 .. Len(s) |-> Unit(SubSeq(s, i, i))]
SaveAll(Save(_), xs) == FlattenSeq([i \in DOMAIN xs |-> Save(xs[i])])

\* Fault: a length of ByteMax goes into the byte that says it is longer.
SaveName_Tight(s) ==
    IF s = Null THEN <<Byte(0)>>
    ELSE (IF Len(s[1]) + 1 <= ByteMax THEN <<Byte(Len(s[1]) + 1)>> ELSE <<Byte(ByteMax)>> \o SaveSize(Len(s[1]) + 1))
         \o Chars(s[1])

\* saves: a name, or null.
SaveName(s) ==
    IF s = Null THEN <<Byte(0)>>
    ELSE (IF Len(s[1]) + 1 < ByteMax THEN <<Byte(Len(s[1]) + 1)>> ELSE <<Byte(ByteMax)>> \o SaveSize(Len(s[1]) + 1))
         \o Chars(s[1])

\* savestr: a string constant.
SaveStr(s) ==
    IF Len(s) = 0 THEN <<Unit("XSTR")>>
    ELSE (IF Len(s) <= ByteMax + 1 THEN <<Unit("SSTR"), Byte(Len(s) - 1)>>
          ELSE <<Unit("LSTR")>> \o SaveSize(Len(s))) \o Chars(s)

SaveConst(v) ==
    CASE v[1] = "nil" -> <<Unit("NIL")>>
      [] v[1] = "true" -> <<Unit("TRUE")>>
      [] v[1] = "false" -> <<Unit("FALSE")>>
      [] v[1] = "int" -> <<Unit("INT"), Unit(v[2])>>
      [] v[1] = "str" -> SaveStr(v[2])

SaveConsts(p) == SaveSize(Len(p.consts)) \o SaveAll(SaveConst, p.consts)

\* savecaptures: the count in 16 bits, here one byte.
SaveCapture(c) == <<Unit(c.index), Unit(c.instack)>>
SaveCaptures(p) == <<Byte(Len(p.caps))>> \o SaveAll(SaveCapture, p.caps)

\* savedebug: all its counts are ints.
SaveDebug(p, debug) ==
    LET Line(x) == SaveInt(x.begin) \o SaveInt(x.line)
        Local(x) == SaveName(x.name) \o SaveInt(x.start) \o SaveInt(x.end) \o <<Unit(x.index)>>
        Name(c) == SaveName(c.name)
        List(Save(_), xs) == IF debug THEN SaveInt(Len(xs)) \o SaveAll(Save, xs) ELSE SaveInt(0)
    IN List(Line, p.lines) \o List(Local, p.locvars) \o List(Name, p.caps)

RECURSIVE SaveFun(_, _, _)
SaveFun(p, psrc, debug) ==
    LET Child(c) == SaveFun(c, p.src, debug)
    IN SaveName(p.name) \o <<Unit(p.nargs), Unit(p.vararg), Unit(p.nstack)>>
       \o SaveInt(Len(p.code)) \o [i \in DOMAIN p.code |-> Unit(p.code[i])]
       \o SaveConsts(p) \o SaveCaptures(p)
       \o SaveInt(Len(p.children)) \o SaveAll(Child, p.children)
       \o SaveName(IF debug /\ p.src # psrc THEN p.src ELSE Null)
       \o SaveDebug(p, debug)

Header(version) ==
    <<Unit("signature"), Unit(version), Unit("format"), Unit("data"), Unit("int"), Unit("float")>>

\* aloZ_save
Save(p, version, debug) == Header(version) \o SaveFun(p, Null, debug)

------------------------------------------------------------------------------
(* Reading                                                                 *)

FromStart(bytes) == [in |-> bytes, ok |-> TRUE, aborted |-> FALSE]
Broken(r) == [r EXCEPT !.ok = FALSE]

\* loadb: n units, or the chunk is truncated.
Take(r, n) ==
    IF ~r.ok \/ n > Len(r.in) THEN [v |-> <<>>, r |-> Broken(r)]
    ELSE [v |-> SubSeq(r.in, 1, n), r |-> [r EXCEPT !.in = SubSeq(@, n + 1, Len(@))]]

TakeKind(r, n, kind) ==
    LET t == Take(r, n)
    IN IF t.r.ok /\ \A i \in DOMAIN t.v : t.v[i][1] = kind
       THEN [t EXCEPT !.v = [i \in DOMAIN @ |-> @[i][2]]]
       ELSE [v |-> <<>>, r |-> Broken(t.r)]
LoadUnit(r, none) == LET t == TakeKind(r, 1, "unit") IN [v |-> IF t.r.ok THEN t.v[1] ELSE none, r |-> t.r]
\* Fault: the end of the chunk is not reported.
LoadNumber_Unchecked(r, width) ==
    LET t == TakeKind(r, width, "byte")
    IN IF r.ok /\ Len(r.in) < width THEN [v |-> 0, r |-> [r EXCEPT !.in = <<>>]]
       ELSE [t EXCEPT !.v = FoldRight(LAMBDA b, n : b + (ByteMax + 1) * n, @, 0)]

LoadNumber(r, width) ==
    LET t == TakeKind(r, width, "byte")
    IN [t EXCEPT !.v = FoldRight(LAMBDA b, n : b + (ByteMax + 1) * n, @, 0)]
LoadInt(r) == LoadNumber(r, IntSize)
LoadSize(r) == LoadNumber(r, SizeSize)
LoadU8(r) == LoadNumber(r, 1)
LoadChars(r, n) == LET t == TakeKind(r, n, "unit") IN [t EXCEPT !.v = FoldLeft(LAMBDA a, c : a \o c, "", @)]

\* aloS_createlng, which asserts that its length is one of long strings, and loada.
LoadLong(r, n) ==
    IF r.ok /\ n <= MaxIStrLen THEN [v |-> "", r |-> [r EXCEPT !.ok = FALSE, !.aborted = TRUE]]
    ELSE LoadChars(r, n)

\* n things in a row; a count that the bytes left cannot hold ends in an error.
LoadAll(Read(_), r, n) ==
    LET Add(a, i) == LET x == Read(a.r) IN [v |-> Append(a.v, x.v), r |-> x.r]
    IN IF n = 0 THEN [v |-> <<>>, r |-> r]
       ELSE IF ~r.ok \/ n > Len(r.in) THEN [v |-> <<>>, r |-> Broken(r)]
       ELSE FoldLeft(Add, [v |-> <<>>, r |-> r], [i \in 1 .. n |-> i])

\* loads: tells long from short strings as aloS_new does.
LoadName(r) ==
    LET c == LoadU8(r)
        size == LoadSize(c.r)
        chars == IF c.v < ByteMax THEN LoadChars(c.r, c.v - 1) ELSE LoadChars(size.r, size.v - 1)
    IN IF ~c.r.ok \/ c.v = 0 THEN [c EXCEPT !.v = Null] ELSE [chars EXCEPT !.v = <<@>>]

\* A string that was counted in a byte is short or long; one of MaxIStrLen
\* characters, which is short everywhere else, is taken for a long one.
LoadStr(c) ==
    LET short == LoadU8(c.r)
        long == LoadSize(c.r)
        n == short.v + 1
    IN IF c.v = "LSTR" THEN LoadLong(long.r, long.v)
       ELSE IF n < MaxIStrLen THEN LoadChars(short.r, n) ELSE LoadLong(short.r, n)

LoadConst(r) ==
    LET c == LoadUnit(r, "")
        int == LoadUnit(c.r, 0)
    IN CASE c.v = "NIL" -> [c EXCEPT !.v = <<"nil">>]
         [] c.v = "TRUE" -> [c EXCEPT !.v = <<"true">>]
         [] c.v = "FALSE" -> [c EXCEPT !.v = <<"false">>]
         [] c.v = "INT" -> [int EXCEPT !.v = <<"int", @>>]
         [] c.v = "XSTR" -> [c EXCEPT !.v = <<"str", "">>]
         [] c.v \in {"SSTR", "LSTR"} -> [LoadStr(c) EXCEPT !.v = <<"str", @>>]
         [] OTHER -> [v |-> <<"nil">>, r |-> Broken(c.r)]

\* The array of captures is not cleared: names are unset.
LoadCapture(r) ==
    LET index == LoadUnit(r, 0)
        instack == LoadUnit(index.r, FALSE)
    IN [v |-> [name |-> Unset, index |-> index.v, instack |-> instack.v], r |-> instack.r]

\* Fields read one after the other into the record v.
InOrder(Read(_, _), r, v, fields) ==
    LET Add(a, field) == LET x == Read(a, field) IN [v |-> (field :> x.v) @@ a.v, r |-> x.r]
    IN FoldLeft(Add, [v |-> v, r |-> r], fields)

LoadLine(r) ==
    LET Read(a, field) == LoadInt(a.r) IN InOrder(Read, r, <<>>, <<"begin", "line">>)
LoadLocal(r) ==
    LET Read(a, field) == CASE field = "name" -> LoadName(a.r)
                            [] field = "index" -> LoadUnit(a.r, 0)
                            [] OTHER -> LoadInt(a.r)
    IN InOrder(Read, r, <<>>, <<"name", "start", "end", "index">>)

\* A count, then as many things; in loaddebug all counts are of type size_t.
LoadList(Read(_), r) == LET n == LoadSize(r) IN LoadAll(Read, n.r, n.v)

\* loadfun reads these in turn; the children are whole functions.
Fields == <<"name", "nargs", "vararg", "nstack", "code", "consts", "caps", "nchild", "children",
            "src", "lines", "locvars", "names">>
LoadField(field, r) ==
    CASE field \in {"name", "src"} -> LoadName(r)
      [] field \in {"nargs", "vararg", "nstack"} -> LoadUnit(r, 0)
      [] field = "code" -> LET n == LoadInt(r) IN TakeKind(n.r, n.v, "unit")
      [] field = "consts" -> LoadList(LoadConst, r)
      [] field = "caps" -> LET n == LoadU8(r) IN LoadAll(LoadCapture, n.r, n.v)
      [] field = "nchild" -> LoadSize(r)
      [] field = "lines" -> LoadList(LoadLine, r)
      [] field = "locvars" -> LoadList(LoadLocal, r)
      [] field = "names" -> LoadList(LoadName, r)

\* A prototype being read: its fields so far, and which comes next.
Begun(src) == [at |-> 1, v |-> [children |-> <<>>, src |-> Null, given |-> src]]
WithField(p, field, v) ==
    [at |-> p.at + 1,
     v |-> CASE field = "src" -> [p.v EXCEPT !.src = IF v = Null THEN p.v.given ELSE v]
             [] field = "names" -> [p.v EXCEPT !.caps = [i \in DOMAIN @ |-> IF i <= Len(v) THEN [@[i] EXCEPT !.name = v[i]] ELSE @[i]]]
             [] OTHER -> (field :> v) @@ p.v]
Whole(p) == [x \in DOMAIN p.v \ {"given", "nchild"} |-> p.v[x]]

\* checkhead; a version is [major, minor].
CheckHead(r, current) ==
    LET t == Take(r, Len(Header(current)))
        version == t.v[2][2]
        fits == version.major = current.major /\ version.minor >= current.minor
    IN IF t.r.ok /\ t.v = Header(version) /\ fits THEN t.r ELSE Broken(t.r)
==============================================================================
