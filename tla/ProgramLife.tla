----------------------------- MODULE ProgramLife -----------------------------
(***************************************************************************)
(* A program is compiled, perhaps saved and loaded (Chunk), and run        *)
(* (Machine).  What the compiler makes of each program and what it means   *)
(* are constants, which an instance takes from Compiler and Meaning.       *)
(***************************************************************************)
EXTENDS Machine, Chunk

CONSTANTS Programs,   \* sequences of statements
          Refused,    \* those the compiler must refuse
          Stored,     \* those that are saved and loaded as well
          Inputs,     \* the globals programs find
          Compiled,   \* [proto, broken, error] of each program
          Meant       \* what the host should see of a program with an input

VARIABLES source,   \* the program
          input,    \* the globals it finds
          phase,    \* source, rejected, broken, compiled, saved, loading, refused, aborted, running
          way,      \* how it came to run: direct, or by a file: whole, stripped, cut
          chunk,    \* the bytes of the file that are not read yet
          parts     \* the prototypes being read, each a child of the one before it

vars == <<vmvars, source, input, phase, way, chunk, parts>>
given == <<source, input>>

Version == [major |-> 0, minor |-> 2]
ChunkName == <<"file">>

Globals(i) == [k \in {<<"str", n>> : n \in DOMAIN i} |-> i[k[2]]]

------------------------------------------------------------------------------
(* The life of a program                                                   *)

Empty == [code |-> <<Ins("RET", 0, 0, 0, 0, 1, 0)>>, consts |-> <<>>, children |-> <<>>,
          caps |-> <<[instack |-> TRUE, index |-> 0]>>, nargs |-> 0, vararg |-> FALSE, nstack |-> 0]

Init == /\ source \in Programs
        /\ input \in Inputs
        /\ phase = "source"
        /\ way = "direct"
        /\ chunk = <<>>
        /\ parts = <<>>
        /\ Start(Empty, Globals(input))

NewProgram(p) ==
    /\ main' = p
    /\ stk' = [stk EXCEPT ![0] = <<"fun", p, <<1>>>>]
    /\ frames' = <<ScriptFrame(p, <<1>>, 1, 0, MULTIRET)>>
    /\ top' = 1 + p.nstack
    /\ UNCHANGED <<cells, heap, out, status>>

CompileIt ==
    LET c == Compiled[source]
    IN /\ phase = "source"
       /\ phase' = IF c.error THEN "rejected" ELSE IF c.broken THEN "broken" ELSE "compiled"
       /\ IF c.error \/ c.broken THEN UNCHANGED vmvars ELSE NewProgram(c.proto)
       /\ UNCHANGED <<given, way, chunk, parts>>

RunIt == phase = "compiled" /\ phase' = "running" /\ UNCHANGED <<vmvars, given, way, chunk, parts>>

SaveIt ==
    /\ phase = "compiled" /\ source \in Stored
    /\ phase' = "saved"
    /\ \E debug \in BOOLEAN : /\ chunk' = Save(main, Version, debug)
                              /\ way' = IF debug THEN "whole" ELSE "stripped"
    /\ UNCHANGED <<vmvars, given, parts>>

\* Part of the file is lost.
CutIt ==
    /\ phase = "saved" /\ way # "cut"
    /\ way' = "cut"
    /\ \E n \in 0 .. Len(chunk) - 1 : chunk' = SubSeq(chunk, 1, n)
    /\ UNCHANGED <<vmvars, given, phase, parts>>

\* aloZ_load deletes what it has read of the program; after a failed assertion
\* nothing goes on.
Stop(r) == /\ phase' = IF r.aborted THEN "aborted" ELSE "refused"
           /\ chunk' = <<>> /\ parts' = <<>>
           /\ UNCHANGED <<vmvars, given, way>>
Reader == FromStart(chunk)

LoadHead ==
    LET r == CheckHead(Reader, Version)
    IN /\ phase = "saved"
       /\ IF r.ok THEN /\ phase' = "loading" /\ chunk' = r.in /\ parts' = <<Begun(ChunkName)>>
                       /\ UNCHANGED <<vmvars, given, way>>
          ELSE Stop(r)

Part == Last(parts)
Field == Fields[Part.at]
Reading == phase = "loading" /\ Part.at <= Len(Fields)

ReadField ==
    LET x == LoadField(Field, Reader)
    IN /\ Reading /\ Field # "children"
       /\ IF x.r.ok THEN /\ parts' = [parts EXCEPT ![Len(parts)] = WithField(@, Field, x.v)]
                         /\ chunk' = x.r.in
                         /\ UNCHANGED <<vmvars, given, way, phase>>
          ELSE Stop(x.r)

\* loadchildren: the source given to a child is the one its parent has by now.
BeginChild ==
    /\ Reading /\ Field = "children" /\ Len(Part.v.children) < Part.v.nchild
    /\ parts' = Append(parts, Begun(Part.v.src))
    /\ UNCHANGED <<vmvars, given, way, phase, chunk>>

EndChildren ==
    /\ Reading /\ Field = "children" /\ Len(Part.v.children) = Part.v.nchild
    /\ parts' = [parts EXCEPT ![Len(parts)].at = @ + 1]
    /\ UNCHANGED <<vmvars, given, way, phase, chunk>>

EndFunction ==
    /\ phase = "loading" /\ Part.at > Len(Fields)
    /\ IF Len(parts) = 1
       THEN phase' = "running" /\ parts' = <<>> /\ chunk' = <<>> /\ NewProgram(Whole(Part))
       ELSE /\ parts' = [Front(parts) EXCEPT ![Len(parts) - 1].v.children = Append(@, Whole(Part))]
            /\ UNCHANGED <<vmvars, phase, chunk>>
    /\ UNCHANGED <<given, way>>

Execute == phase = "running" /\ Step /\ UNCHANGED <<given, way, phase, chunk, parts>>
Next == \/ CompileIt \/ RunIt \/ SaveIt \/ CutIt
        \/ LoadHead \/ ReadField \/ BeginChild \/ EndChildren \/ EndFunction
        \/ Execute
\* The loop of aloV_invoke goes on until it returns.
Spec == Init /\ [][Next]_vars /\ WF_vars(Execute)

------------------------------------------------------------------------------
(* Properties                                                              *)

\* A value as the host sees it: functions are alike, objects by their contents.
RECURSIVE Shown(_, _)
Shown(h, v) ==
    CASE v[1] \in {"lis", "tup"} -> <<v[1], [i \in DOMAIN h[v[2]].seq |-> Shown(h, h[v[2]].seq[i])]>>
      [] v[1] = "tab" -> <<"tab", [k \in DOMAIN h[v[2]].map |-> Shown(h, h[v[2]].map[k])]>>
      [] Callable(v) -> <<"function">>
      [] OTHER -> v

\* A program does what it says: the values it hands to the host, its results,
\* the globals it leaves and whether it fails are those of its meaning.
BehavesAsWritten == status # "run" => Outcome = Meant[source, input]

\* No assertion of the compiler fails, and it refuses what it should and no more.
Accepted == /\ phase # "broken"
            /\ phase = "rejected" => source \in Refused
            /\ phase = "compiled" => source \notin Refused

\* The compiler makes sound code: every operand names a register of the frame, a
\* constant or a capture; jumps stay in the code, none is left pending, and no path
\* runs off the end (acode.c: registers are counted in nstack, jumps are patched late).
RECURSIVE Family(_)
Family(p) == {p} \cup UNION {Family(p.children[i]) : i \in DOMAIN p.children}
CodeSound == phase = "compiled" => SoundFunctions(Family(main))

\* What is loaded is what was saved; without debug information lines and
\* variables are left out and the names of captures stay unset.  The functions
\* of a function lose their source: it is read after them.  No check of the loader
\* refuses it; an assertion fails only when a constant has exactly as many
\* characters as the longest short string (aload.c:131).
RECURSIVE Kept(_, _, _)
Kept(p, debug, own) ==
    [p EXCEPT !.children = [i \in DOMAIN @ |-> Kept(@[i], debug, FALSE)],
              !.src = IF own THEN @ ELSE Null,
              !.lines = IF debug THEN @ ELSE <<>>,
              !.locvars = IF debug THEN @ ELSE <<>>,
              !.caps = [i \in DOMAIN @ |-> IF debug THEN @[i] ELSE [@[i] EXCEPT !.name = Unset]]]
AtBorder(p) == \E q \in Family(p) : \E k \in DOMAIN q.consts : q.consts[k][1] = "str" /\ Len(q.consts[k][2]) = MaxIStrLen
LoadedAsSaved ==
    way \in {"whole", "stripped"} =>
        /\ phase # "refused"
        /\ phase = "aborted" => AtBorder(Compiled[source].proto)
        /\ phase = "running" => main = Kept(Compiled[source].proto, way = "whole", TRUE)

\* A chunk whose end is missing is never loaded (loadb).
TruncationRefused == way = "cut" => phase # "running"

\* A program that runs comes to its end: loops leave by their conditions, jumps
\* lead on.
Halts == phase = "running" ~> status # "run"
==============================================================================
