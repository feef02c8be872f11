------------------------------- MODULE AloGC -------------------------------
(***************************************************************************)
(* The incremental tri-colour collector of Alopecurus (agc.c), interleaved *)
(* with the mutator: the operations of the API and of the VM that create,  *)
(* store, load and drop references, and the switches between coroutines.   *)
(*                                                                         *)
(* One operating-system thread runs everything.  Interleaving comes from   *)
(* aloG_step, which the mutator calls at its allocation points and which   *)
(* does some gcsteps and returns in the middle of a cycle, and from        *)
(* aloG_fullgc, which an allocation that fails starts at any point.        *)
(*                                                                         *)
(* Abstractions.  The mark byte of an object is its colour; "free" stands  *)
(* for memory that holds no object.  Everything an object refers to is one *)
(* set: the entries and the metatable of a table, the captured values of a *)
(* closure, the stack of a thread below its top.  The linked lists gray,   *)
(* grayagain, gfnzable, gtobefnz are sets (every traversal order is        *)
(* allowed), and the `sweeping` pointer is the set of objects the sweep of *)
(* the current list has not come to.  Fixed objects, weak tables and       *)
(* prototypes are left out.                                                *)
(***************************************************************************)
EXTENDS Naturals, FiniteSets, Reachability

CONSTANTS
  Main, Registry,   \* the main thread and the registry table
  Threads,          \* the threads, Main included
  Tables,           \* the tables, Registry included
  Raws,             \* raw data: hold nothing but a metatable
  Strings,          \* strings: hold nothing
  Lists,            \* lists
  Closures,         \* closures, captures included
  NoThread,         \* the NULL of caller
  MaxSweepCount,    \* MAXSWEEPCOUNT: objects swept by one gcstep
  FullKinds,        \* the kinds of full collection that may happen (bound)
  Finalizers        \* whether a metatable may have a finalizer: {TRUE, FALSE}
                    \* or, as a bound, {FALSE}

Object == Threads \cup Tables \cup Raws \cup Strings \cup Lists \cup Closures

ASSUME KindAssumption ==
  /\ Main \in Threads /\ Registry \in Tables
  /\ Threads \cap (Tables \cup Raws \cup Strings \cup Lists \cup Closures) = {}
  /\ Strings \cap (Tables \cup Raws \cup Lists \cup Closures) = {}
  /\ Raws \cap (Tables \cup Lists \cup Closures) = {}
  /\ NoThread \notin Object
  /\ MaxSweepCount \in Nat \ {0}
  /\ FullKinds \subseteq {"Normal", "Emergency"}
  /\ Finalizers \subseteq BOOLEAN

VARIABLES
  gcstep,     \* G->gcstep
  whitebit,   \* G->whitebit
  color,      \* the colour bits of each object's mark
  ref,        \* the references each object holds
  gray, grayagain,    \* G->gray, G->grayagain
  fnzable, tobefnz,   \* G->gfnzable, G->gtobefnz
  tosweep,    \* what G->sweeping has not passed of the list being swept
  full,       \* progress of aloG_fullgc: 0 outside, 1..4 its four gctill
  gckind,     \* G->gckind
  trun,       \* G->trun
  caller,     \* T->caller
  status      \* T->status, a thread that ended being "dead"

marks   == <<color, gray, grayagain>>
fnz     == <<fnzable, tobefnz>>
cycle   == <<gcstep, whitebit, tosweep>>
control == <<full, gckind>>
switch  == <<trun, caller, status>>
vars    == <<cycle, marks, ref, fnz, control, switch>>

-----------------------------------------------------------------------------
(* Colours, phases and lists.                                              *)

Steps == {"Propagate", "Atomic", "SwpNorm", "SwpFin", "SwpFnz", "CallFin", "Pause"}
Whites == {"white1", "white2"}
Colors == Whites \cup {"gray", "black", "free"}

Other(w) == IF w = "white1" THEN "white2" ELSE "white1"

Coloring == gcstep \in {"Propagate", "Atomic"}
Sweeping == gcstep \in {"SwpNorm", "SwpFin", "SwpFnz"}

Alloc     == {o \in Object : color[o] # "free"}
WhiteSet  == {o \in Object : color[o] \in Whites}
IsWhite(o) == o \in WhiteSet
IsBlack(o) == color[o] = "black"
IsDead(o)  == color[o] = Other(whitebit)
Dead      == {o \in Object : IsDead(o)}

(* The list gnormal; the main thread is in no list. *)
Normal == Alloc \ ({Main} \cup fnzable \cup tobefnz)

(* Marked without being traversed: markg_ blackens these at once. *)
Leaf(o) == o \in Strings \/ (o \in Raws /\ ref[o] = {})

(* The objects the running code can name. *)
Stack == ref[trun]
Reachable == Reach(Object, ref, {Main, Registry, trun})

AtMost(S, n) == {U \in SUBSET S : Cardinality(U) = (IF Cardinality(S) < n THEN Cardinality(S) ELSE n)}

(* Room for an operation of the mutator: no full collection is going on,   *)
(* or it is calling a finalizer.                                           *)
MutatorRuns == full = 0 \/ (gcstep = "CallFin" /\ gckind = "Normal")

-----------------------------------------------------------------------------
(* Marking.                                                                *)

(* markg on every member of S, after the colours became `col` and the gray *)
(* list `list`.                                                            *)
MarkAll(S, col, list) ==
  LET w == {o \in S : col[o] \in Whites}
  IN  /\ color' = [o \in Object |-> IF o \notin w THEN col[o]
                                    ELSE IF Leaf(o) THEN "black" ELSE "gray"]
      /\ gray' = list \cup {o \in w : ~Leaf(o)}

(* Fault: the gray lists of an abandoned cycle are kept. *)
GCBegin_KeepLists ==
  /\ gcstep = "Pause"
  /\ color' = [color EXCEPT ![Main] = "gray", ![Registry] = "gray"]
  /\ gray' = {Main, Registry} \cup gray
  /\ gcstep' = "Propagate"
  /\ UNCHANGED <<whitebit, tosweep, ref, grayagain, fnz, switch>>

(* gcbegin: forget the lists of an abandoned cycle and mark the roots.     *)
GCBegin ==
  /\ gcstep = "Pause"
  /\ color' = [color EXCEPT ![Main] = "gray", ![Registry] = "gray"]
  /\ gray' = {Main, Registry}
  /\ grayagain' = {}
  /\ gcstep' = "Propagate"
  /\ UNCHANGED <<whitebit, tosweep, ref, fnz, switch>>

(* Fault: the running thread is blackened like everything else. *)
Propagate_BlackenRunning ==
  /\ gcstep = "Propagate"
  /\ \E o \in gray : MarkAll(ref[o], [color EXCEPT ![o] = "black"], gray \ {o})
  /\ gcstep' = IF gray' = {} THEN "Atomic" ELSE "Propagate"
  /\ UNCHANGED <<whitebit, tosweep, grayagain, ref, fnz, switch>>

(* propagate: blacken one gray object and mark what it refers to; the      *)
(* running thread goes back to gray, to be traversed again by gcatomic.    *)
Propagate ==
  /\ gcstep = "Propagate"
  /\ \E o \in gray :
       /\ MarkAll(ref[o],
                  [color EXCEPT ![o] = IF o = trun THEN "gray" ELSE "black"],
                  gray \ {o})
       /\ grayagain' = IF o = trun THEN grayagain \cup {o} ELSE grayagain
  /\ gcstep' = IF gray' = {} THEN "Atomic" ELSE "Propagate"
  /\ UNCHANGED <<whitebit, tosweep, ref, fnz, switch>>

-----------------------------------------------------------------------------
(* Sweeping.                                                               *)

(* sweeplist on the objects S: the dead ones are freed, the others become  *)
(* white.  col and wb are the colours and the white bit it starts with.    *)
SweepObjects(S, col, wb) ==
  LET dead == {o \in S : col[o] = Other(wb)}
  IN  /\ color' = [o \in Object |-> IF o \in dead THEN "free"
                                    ELSE IF o \in S THEN wb ELSE col[o]]
      /\ ref' = [o \in Object |-> IF o \in dead THEN {} ELSE ref[o]]

(* Fault: the sweep begins behind the second object of the list. *)
SweepStart_SkipOne(col, wb) ==
  \E S \in AtMost(Normal, 1), T \in AtMost(Normal, 2) :
    /\ SweepObjects(S, col, wb)
    /\ tosweep' = Normal \ (S \cup T)
    /\ gcstep' = "SwpNorm"

(* sweepstart: the first object of gnormal is swept at once. *)
SweepStart(col, wb) ==
  \E S \in AtMost(Normal, 1) :
    /\ SweepObjects(S, col, wb)
    /\ tosweep' = Normal \ S
    /\ gcstep' = "SwpNorm"

NextSweep == [SwpNorm |-> "SwpFin", SwpFin |-> "SwpFnz", SwpFnz |-> "CallFin"]
NextList == [SwpNorm |-> fnzable, SwpFin |-> tobefnz, SwpFnz |-> {}]

(* sweepstep: sweep some more; at the end of the list, go to the next one. *)
SweepStep ==
  /\ Sweeping
  /\ \E S \in AtMost(tosweep, MaxSweepCount) :
       /\ SweepObjects(S, color, whitebit)
       /\ IF tosweep \subseteq S
          THEN tosweep' = NextList[gcstep] /\ gcstep' = NextSweep[gcstep]
          ELSE tosweep' = tosweep \ S /\ UNCHANGED gcstep
  /\ UNCHANGED <<whitebit, gray, grayagain, fnz, switch>>

-----------------------------------------------------------------------------
(* gcatomic.                                                               *)

(* What gcatomic traverses from an object: a thread's caller as well.      *)
AtomicEdges ==
  [o \in Object |-> ref[o] \cup (IF o \in Threads THEN {caller[o]} \ {NoThread} ELSE {})]

(* Fault: the objects to be traversed again are forgotten. *)
AtomicSeeds_NoGrayAgain == gray \cup (WhiteSet \cap {trun, Main, Registry})

(* The gray lists and the roots that are still white. *)
AtomicSeeds == gray \cup grayagain \cup (WhiteSet \cap {trun, Main, Registry})

(* Marked by the traversals of gcatomic, before it looks at finalizers.    *)
Strong == ReachVia(Object, AtomicEdges, AtomicSeeds, WhiteSet)

(* splitfnz: the finalizable objects that are about to be freed. *)
Unreached == {o \in fnzable : IsWhite(o) /\ o \notin Strong}

(* Fault: what awaits its finalizer is not marked. *)
Marked_NoFinalizers == Strong

(* keeptbfwhite and the traversal after it. *)
Marked == ReachVia(Object, AtomicEdges,
                   Strong \cup (WhiteSet \cap (tobefnz \cup Unreached)), WhiteSet)

(* The atomic end of marking, the flip of the white bit and sweepstart.    *)
Atomic ==
  /\ gcstep = "Atomic"
  /\ fnzable' = fnzable \ Unreached
  /\ tobefnz' = tobefnz \cup Unreached
  /\ gray' = {}
  /\ grayagain' = grayagain \cap {trun}
  /\ whitebit' = Other(whitebit)
  /\ LET col == [o \in Object |-> IF o \notin Marked THEN color[o]
                                  ELSE IF o = trun THEN "gray" ELSE "black"]
     IN  SweepStart(col, whitebit')
  /\ UNCHANGED switch

-----------------------------------------------------------------------------
(* The end of a cycle and full collections.                                *)

(* callfinimpl: the object returns to gnormal, loses its final bit and is  *)
(* handed to its finalizer on the stack, if its metatable still has one.   *)
CallFinalizer(o) ==
  /\ tobefnz' = tobefnz \ {o}
  /\ \E found \in BOOLEAN :
       ref' = IF found THEN [ref EXCEPT ![trun] = @ \cup {o}] ELSE ref
  /\ UNCHANGED gcstep

(* callfin, one object a step; an emergency collection calls no finalizer. *)
CallFin ==
  /\ gcstep = "CallFin"
  /\ IF tobefnz # {} /\ gckind = "Normal"
     THEN \E o \in tobefnz : CallFinalizer(o)
     ELSE gcstep' = "Pause" /\ UNCHANGED <<tobefnz, ref>>
  /\ UNCHANGED <<whitebit, tosweep, marks, fnzable, switch>>

(* gctill, four times in a row: to Pause, off Pause, to CallFin, to Pause. *)
GctillEnds ==
  \/ <<full, gcstep'>> \in {<<1, "Pause">>, <<3, "CallFin">>, <<4, "Pause">>}
  \/ full = 2 /\ gcstep' # "Pause"

(* Fault: the progress is not reset. *)
FullAdvance_NoReset ==
  /\ full' = IF GctillEnds THEN full + 1 ELSE full
  /\ gckind' = IF full = 4 /\ full' = 5 THEN "Normal" ELSE gckind

FullAdvance ==
  /\ full' = IF GctillEnds THEN (full + 1) % 5 ELSE full
  /\ gckind' = IF full = 4 /\ full' = 0 THEN "Normal" ELSE gckind

(* gcstep, called by aloG_step or by gctill. *)
GCStep ==
  /\ GCBegin \/ Propagate \/ Atomic \/ SweepStep \/ CallFin
  /\ FullAdvance

(* aloG_fullgc, up to its first gctill: marking is abandoned for a sweep   *)
(* that frees nothing, the white bit not being flipped.                    *)
FullGC ==
  /\ full = 0
  /\ full' = 1
  /\ gckind' \in FullKinds
  /\ IF Coloring THEN SweepStart(color, whitebit)
                 ELSE UNCHANGED <<color, ref, tosweep, gcstep>>
  /\ UNCHANGED <<whitebit, gray, grayagain, fnz, switch>>

-----------------------------------------------------------------------------
(* Operations of the mutator that respect the collector.                   *)

(* Fault: the object is linked again whatever its colour. *)
BarrierBack_AnyColor(o, v) ==
  /\ color' = IF IsWhite(v) THEN [color EXCEPT ![o] = "gray"] ELSE color
  /\ grayagain' = IF IsWhite(v) THEN grayagain \cup {o} ELSE grayagain
  /\ UNCHANGED gray

(* aloG_barrierback before v is stored in o. *)
BarrierBack(o, v) ==
  LET hit == IsBlack(o) /\ IsWhite(v)
  IN  /\ color' = IF hit THEN [color EXCEPT ![o] = "gray"] ELSE color
      /\ grayagain' = IF hit THEN grayagain \cup {o} ELSE grayagain
      /\ UNCHANGED gray

(* Fault: no barrier. *)
Barrier_None(o, v) == UNCHANGED <<color, gray, grayagain>>

(* aloG_barrier after v is stored in o. *)
Barrier(o, v) ==
  /\ IF IsBlack(o) /\ IsWhite(v)
     THEN IF Coloring
          THEN MarkAll({v}, color, gray)
          ELSE color' = [color EXCEPT ![o] = "gray"] /\ UNCHANGED gray
     ELSE UNCHANGED <<color, gray>>
  /\ UNCHANGED grayagain

Push(v) == ref' = [ref EXCEPT ![trun] = @ \cup {v}]

(* aloG_register of a new object of the running thread: tables, lists and  *)
(* raw data start empty, a closure with the values it captures.            *)
New(o, init) ==
  /\ o \notin Alloc /\ o \notin Threads
  /\ init \subseteq Stack /\ (o \notin Closures => init = {})
  /\ color' = [color EXCEPT ![o] = whitebit]
  /\ ref' = [ref EXCEPT ![o] = init, ![trun] = @ \cup {o}]
  /\ UNCHANGED <<cycle, gray, grayagain, fnz, control, switch>>

(* alo_newthread, with its backward barrier on the creator. *)
NewThread(t) ==
  /\ t \in Threads \ Alloc
  /\ color' = [color EXCEPT ![t] = whitebit, ![trun] = IF IsBlack(trun) THEN "gray" ELSE @]
  /\ grayagain' = IF IsBlack(trun) THEN grayagain \cup {trun} ELSE grayagain
  /\ ref' = [ref EXCEPT ![t] = {}, ![trun] = @ \cup {t}]
  /\ caller' = [caller EXCEPT ![t] = NoThread]
  /\ status' = [status EXCEPT ![t] = "yield"]
  /\ UNCHANGED <<cycle, gray, fnz, control, trun>>

(* intern: a string that is dead and not yet swept is alive again. *)
InternString(s) ==
  /\ s \in Strings \cap Alloc
  /\ color' = IF IsDead(s) THEN [color EXCEPT ![s] = whitebit] ELSE color
  /\ Push(s)
  /\ UNCHANGED <<cycle, gray, grayagain, fnz, control, switch>>

Accessible == Stack \cup {Registry}

(* Any read of a table, list, metatable or capture. *)
Load(o, v) ==
  /\ o \in Accessible \ Threads /\ v \in ref[o]
  /\ Push(v)
  /\ UNCHANGED <<cycle, marks, fnz, control, switch>>

Pop(v) ==
  /\ v \in Stack
  /\ ref' = [ref EXCEPT ![trun] = @ \ {v}]
  /\ UNCHANGED <<cycle, marks, fnz, control, switch>>

(* alo_rawsetx and its kin: table and list stores, with their barrier. *)
SetField(o, v) ==
  /\ o \in Accessible \cap (Tables \cup Lists) /\ v \in Stack
  /\ BarrierBack(o, v)
  /\ ref' = [ref EXCEPT ![o] = @ \cup {v}]
  /\ UNCHANGED <<cycle, fnz, control, switch>>

(* alo_rawrem, alo_rawclr, or a store over v. *)
RemoveField(o, v) ==
  /\ o \in Accessible \cap (Tables \cup Lists) /\ v \in ref[o]
  /\ ref' = [ref EXCEPT ![o] = @ \ {v}]
  /\ UNCHANGED <<cycle, marks, fnz, control, switch>>

(* alo_setmetatable; `del`: the metatable has a finalizer, and             *)
(* aloG_checkfnzobj moves the object to gfnzable.                          *)
SetMetatable(o, m, del) ==
  /\ o \in Accessible \cap (Tables \cup Lists \cup Raws)
  /\ o # Registry
  /\ m \in Stack \cap Tables
  /\ ref' = [ref EXCEPT ![o] = (IF o \in Raws THEN {} ELSE @) \cup {m}]
  /\ IF del /\ o \notin fnzable \cup tobefnz
     THEN /\ fnzable' = fnzable \cup {o}
          /\ IF Sweeping
             THEN /\ color' = [color EXCEPT ![o] = whitebit]
                  /\ tosweep' = tosweep \ {o}
                  /\ UNCHANGED <<gray, grayagain>>
             ELSE Barrier(o, m) /\ UNCHANGED tosweep
     ELSE Barrier(o, m) /\ UNCHANGED <<fnzable, tosweep>>
  /\ UNCHANGED <<gcstep, whitebit, tobefnz, control, switch>>

-----------------------------------------------------------------------------
(* Operations that store a reference without a barrier.                    *)

Store(o, v) ==
  /\ ref' = [ref EXCEPT ![o] = @ \cup {v}]
  /\ UNCHANGED <<cycle, marks, fnz, control, switch>>

(* aloI_add: append to a list. *)
ListAdd(o, v) == o \in Accessible \cap Lists /\ v \in Stack /\ Store(o, v)

(* An instruction of a running closure that assigns to a capture. *)
CaptureStore(o, v) == o \in Stack \cap Closures /\ v \in Stack /\ Store(o, v)

(* aloF_close: a variable that is leaving the stack moves into the capture *)
(* of a closure, wherever the closure is.                                  *)
CloseCapture(o, v) ==
  /\ o \in Closures \cap (Alloc \ Dead) /\ v \in Stack
  /\ \E rest \in {Stack, Stack \ {v}} :
       ref' = [ref EXCEPT ![o] = @ \cup {v}, ![trun] = rest]
  /\ UNCHANGED <<cycle, marks, fnz, control, switch>>

(* alo_xmove to the stack of a thread that is not active. *)
XMoveTo(t, v) ==
  /\ t \in Threads \cap Stack /\ status[t] # "run" /\ v \in Stack
  /\ \E rest \in {Stack, Stack \ {v}} :
       ref' = [ref EXCEPT ![t] = @ \cup {v}, ![trun] = rest]
  /\ UNCHANGED <<cycle, marks, fnz, control, switch>>

(* alo_xmove from the stack of a thread that is not active. *)
XMoveFrom(t, v) ==
  /\ t \in Threads \cap Stack /\ status[t] # "run" /\ v \in ref[t]
  /\ ref' = [ref EXCEPT ![t] = @ \ {v}, ![trun] = @ \cup {v}]
  /\ UNCHANGED <<cycle, marks, fnz, control, switch>>

(* alo_resume up to the switch. *)
Resume(t) ==
  /\ t \in Threads \cap Stack /\ status[t] = "yield"
  /\ trun' = t
  /\ caller' = [caller EXCEPT ![t] = trun]
  /\ status' = [status EXCEPT ![t] = "run"]
  /\ UNCHANGED <<cycle, marks, ref, fnz, control>>

(* alo_yieldk and the return of alo_resume after it. *)
Yield ==
  /\ trun # Main
  /\ trun' = caller[trun]
  /\ caller' = [caller EXCEPT ![trun] = NoThread]
  /\ status' = [status EXCEPT ![trun] = "yield"]
  /\ UNCHANGED <<cycle, marks, ref, fnz, control>>

(* The coroutine's function returns or fails: alo_resume leaves the caller *)
(* of the thread in place.                                                 *)
Finish ==
  /\ trun # Main
  /\ trun' = caller[trun]
  /\ status' = [status EXCEPT ![trun] = "dead"]
  /\ UNCHANGED <<cycle, marks, ref, fnz, control, caller>>

-----------------------------------------------------------------------------
(* The specification.                                                      *)

Init ==
  /\ gcstep = "Pause" /\ whitebit = "white1" /\ tosweep = {}
  /\ color = [o \in Object |-> IF o \in {Main, Registry} THEN "white1" ELSE "free"]
  /\ ref = [o \in Object |-> {}]
  /\ gray = {} /\ grayagain = {} /\ fnzable = {} /\ tobefnz = {}
  /\ full = 0 /\ gckind = "Normal"
  /\ trun = Main
  /\ caller = [t \in Threads |-> NoThread]
  /\ status = [t \in Threads |-> IF t = Main THEN "run" ELSE "yield"]

Collector == GCStep \/ FullGC

Barriered ==
  \/ \E o \in Object, init \in SUBSET Stack : New(o, init)
  \/ \E t \in Threads : NewThread(t)
  \/ \E s \in Strings : InternString(s)
  \/ \E o, v \in Object : Load(o, v) \/ SetField(o, v) \/ RemoveField(o, v) \/ XMoveFrom(o, v)
  \/ \E v \in Object : Pop(v)
  \/ \E o, m \in Object, del \in Finalizers : SetMetatable(o, m, del)

(* Everything the program does. *)
Next ==
  \/ Collector
  \/ MutatorRuns /\ \/ Barriered
                    \/ \E o, v \in Object : \/ ListAdd(o, v) \/ CaptureStore(o, v)
                                            \/ CloseCapture(o, v) \/ XMoveTo(o, v)
                    \/ \E t \in Threads : Resume(t)
                    \/ Yield \/ Finish

Spec == Init /\ [][Next]_vars

(* A store of v in o, or a switch to the thread t, that undoes the marking *)
(* under way: nothing will traverse o, or the new stack, again.            *)
Hides(o, v) == Coloring /\ IsBlack(o) /\ IsWhite(v)
HidesStack(t) == Coloring /\ IsBlack(t)

(* The steps of Next in which no operation without a barrier does that.    *)
SafeNext ==
  \/ Collector
  \/ MutatorRuns /\ \/ Barriered
                    \/ \E o, v \in Object : /\ ~Hides(o, v)
                                            /\ \/ ListAdd(o, v) \/ CaptureStore(o, v)
                                               \/ CloseCapture(o, v) \/ XMoveTo(o, v)
                    \/ \E t \in Threads : ~HidesStack(t) /\ Resume(t)
                    \/ trun # Main /\ ~HidesStack(caller[trun]) /\ (Yield \/ Finish)

SafeSpec == Init /\ [][SafeNext]_vars

-----------------------------------------------------------------------------
(* Properties.                                                             *)

TypeOK ==
  /\ gcstep \in Steps
  /\ whitebit \in Whites
  /\ color \in [Object -> Colors]
  /\ ref \in [Object -> SUBSET Object]
  /\ gray \subseteq Object /\ grayagain \subseteq Object
  /\ fnzable \subseteq Object /\ tobefnz \subseteq Object
  /\ tosweep \subseteq Object
  /\ full \in 0..4
  /\ gckind \in {"Normal", "Emergency"}
  /\ trun \in Threads
  /\ caller \in [Threads -> Threads \cup {NoThread}]
  /\ status \in [Threads -> {"run", "yield", "dead"}]

(* agc.c, gcatomic: "all strong accessible references are marked".  After  *)
(* it, no object the program can still get at is condemned.  In the other  *)
(* phases nothing is.                                                      *)
ReachableNotDead == Reachable \cap (Dead \cup {o \in Object : color[o] = "free"}) = {}

(* Stronger, and what the checklive assertions of aobj.h rely on: no       *)
(* object that is not condemned refers to one that is, or to freed memory. *)
NoDangling ==
  /\ {Main, Registry, trun} \subseteq Alloc \ Dead
  /\ \A o \in Alloc \ Dead : ref[o] \subseteq Alloc \ Dead

(* The tri-colour invariant: while marking, nothing traversed refers to    *)
(* something unmarked, and the running thread, whose stack is written      *)
(* without barriers, does not count as traversed.                          *)
TriColor ==
  Coloring => /\ \A o \in Object : IsBlack(o) => ref[o] \cap WhiteSet = {}
              /\ ~IsBlack(trun)

(* The lists gray and grayagain share the field gclist: an object is in    *)
(* one of them at most, and while marking exactly the gray objects are.    *)
GrayLinked ==
  Coloring => /\ gray \cap grayagain = {}
              /\ gray \cup grayagain = {o \in Object : color[o] = "gray"}

(* propagate takes an object off the gray list without looking whether it  *)
(* is empty.                                                               *)
PropagateHasGray == gcstep = "Propagate" => gray # {}

(* Only the sweep of gnormal meets condemned objects; the lists swept      *)
(* after it hold none, and none is left when a cycle ends.                 *)
DeadAwaitSweep == Dead \subseteq (IF gcstep = "SwpNorm" THEN tosweep ELSE {})

(* The list gfnzable and gtobefnz hold live objects, and the sweep does not *)
(* run into freed memory.                                                  *)
ListsAllocated ==
  /\ fnzable \cup tobefnz \subseteq Alloc \ (Dead \cup {Main})
  /\ tosweep \subseteq Alloc \ {Main}

(* Outside marking, the marked objects are those the sweep has yet to turn *)
(* white, so that a new cycle finds every object white but the main        *)
(* thread, which is in no list.                                            *)
MarkedSet == {o \in Object : color[o] \in {"gray", "black"}}
MarkedAwaitSweep ==
  /\ gcstep = "SwpNorm" => MarkedSet \subseteq {Main} \cup tosweep \cup fnzable \cup tobefnz
  /\ gcstep = "SwpFin" => MarkedSet \subseteq {Main} \cup tosweep \cup tobefnz
  /\ gcstep = "SwpFnz" => MarkedSet \subseteq {Main} \cup tosweep
  /\ gcstep \in {"CallFin", "Pause"} => MarkedSet \subseteq {Main}

(* The threads that have been resumed and have not given control back form *)
(* a chain that starts at the main thread and ends at the running one, and *)
(* each is on the stack of the one that resumed it.                        *)
Active == {t \in Threads : status[t] = "run"}
ActiveChain ==
  /\ {Main, trun} \subseteq Active
  /\ \A t \in Active \ {Main} : /\ caller[t] \in Active \ {trun}
                                /\ t \in ref[caller[t]]
  /\ \A s, t \in Active \ {Main} : caller[s] = caller[t] => s = t
  /\ \A S \in SUBSET Object :
        (Main \in S /\ \A t \in Active \ {Main} : caller[t] \in S => t \in S)
          => Active \subseteq S

StringsHoldNothing == \A s \in Strings : ref[s] = {}

(* The inductive invariant. *)
IInv ==
  /\ TypeOK /\ StringsHoldNothing /\ ListsAllocated
  /\ NoDangling /\ TriColor /\ GrayLinked /\ PropagateHasGray
  /\ DeadAwaitSweep /\ MarkedAwaitSweep /\ ActiveChain

(* aloG_fullgc: "do 2 cycle of GC, to ensure all garbage are cycled".  An  *)
(* emergency collection leaves nothing the program cannot get at, save     *)
(* what waits for a finalizer.                                             *)
Kept == Reach(Object, AtomicEdges, {Main, Registry, trun} \cup tobefnz)
FullCollectsAll ==
  [][full = 4 /\ full' = 0 /\ gckind = "Emergency" => Alloc \subseteq Kept]_vars

(* The collector keeps the promise of AbstractHeap. *)
Heap == INSTANCE AbstractHeap WITH alloc <- Alloc, roots <- {Main, Registry, trun}
HeapSpec == Heap!HSpec

=============================================================================
