---------------------------- MODULE AloGCProofs ----------------------------
(***************************************************************************)
(* Proofs about AloGC: IInv is an inductive invariant of SafeSpec, for     *)
(* every set of threads and objects; with it, no live object is ever       *)
(* condemned, and the collector implements AbstractHeap.                   *)
(***************************************************************************)
EXTENDS AloGC, TLAPS

-----------------------------------------------------------------------------
(* What the traversals of module Reachability compute: the least closed    *)
(* set around their seeds.                                                 *)

(* A traversal reaches its seeds. *)
LEMMA ReachSeeds ==
  ASSUME NEW N, NEW edge, NEW seeds, NEW via, seeds \subseteq N
  PROVE  seeds \subseteq ReachVia(N, edge, seeds, via)
BY DEF ReachVia

(* A traversal stays among the nodes. *)
LEMMA ReachNodes ==
  ASSUME NEW N, NEW edge, NEW seeds, NEW via
  PROVE  ReachVia(N, edge, seeds, via) \subseteq N
BY DEF ReachVia

(* A traversal reaches no more than any closed set around its seeds. *)
LEMMA ReachLeast ==
  ASSUME NEW N, NEW edge, NEW seeds, NEW via, NEW S,
         S \subseteq N, seeds \subseteq S, ClosedUnder(S, edge, via)
  PROVE  ReachVia(N, edge, seeds, via) \subseteq S
BY DEF ReachVia

(* What a traversal reaches is closed: it does not stop half way. *)
LEMMA ReachClosed ==
  ASSUME NEW N, NEW edge, NEW seeds, NEW via,
         via \subseteq N
  PROVE  ClosedUnder(ReachVia(N, edge, seeds, via), edge, via)
<1>1. SUFFICES ASSUME NEW x \in ReachVia(N, edge, seeds, via),
                      NEW y \in edge[x] \cap via,
                      NEW S \in SUBSET N,
                      seeds \subseteq S, ClosedUnder(S, edge, via)
               PROVE  y \in S
  BY DEF ReachVia, ClosedUnder
<1>2. x \in S
  BY <1>1 DEF ReachVia
<1>3. QED
  BY <1>1, <1>2 DEF ClosedUnder

-----------------------------------------------------------------------------

(* The objects the program may use: everything that is not condemned. *)
Usable == Alloc \ Dead

-----------------------------------------------------------------------------
(* Consequences of the invariant.                                          *)

LEMMA ObjectKinds ==
  /\ Main \in Object /\ Registry \in Object /\ Threads \subseteq Object
  /\ Main # Registry
BY KindAssumption DEF Object

(* Whatever is reached from the roots along references is usable. *)
LEMMA ReachableUsable ==
  ASSUME TypeOK, NoDangling
  PROVE  Reachable \subseteq Usable
<1>1. Usable \subseteq Object
  BY DEF Usable, Alloc
<1>2. ClosedUnder(Usable, ref, Object)
  BY DEF ClosedUnder, Usable, NoDangling
<1>3. {Main, Registry, trun} \subseteq Usable
  BY DEF NoDangling, Usable
<1>4. QED
  BY <1>1, <1>2, <1>3, ReachLeast DEF Reachable, Reach

(* The threads of the resume chain are usable. *)
LEMMA ActiveUsable ==
  ASSUME TypeOK, NoDangling, ActiveChain
  PROVE  Active \subseteq Usable
<1>1. Usable \in SUBSET Object /\ Main \in Usable
  BY DEF Usable, Alloc, NoDangling
<1>2. \A t \in Active \ {Main} : caller[t] \in Usable => t \in Usable
  BY DEF ActiveChain, NoDangling, Usable
<1>3. QED
  BY <1>1, <1>2 DEF ActiveChain

LEMMA SafeReachable ==
  ASSUME TypeOK, NoDangling
  PROVE  ReachableNotDead
BY ReachableUsable DEF ReachableNotDead, Usable, Alloc

-----------------------------------------------------------------------------
(* Marking preserves the invariant.                                        *)

LEMMA InitInv == Init => IInv
<1> SUFFICES ASSUME Init PROVE IInv
  OBVIOUS
<1> USE ObjectKinds
<1>1. TypeOK
  BY KindAssumption DEF Init, TypeOK, Steps, Whites, Colors
<1>2. Alloc = {Main, Registry} /\ Dead = {}
  BY DEF Init, Alloc, Dead, IsDead, Other
<1>3. StringsHoldNothing /\ ListsAllocated /\ NoDangling
  BY <1>2, KindAssumption DEF Init, StringsHoldNothing, ListsAllocated, NoDangling, Object
<1>4. TriColor /\ GrayLinked /\ PropagateHasGray
  BY DEF Init, TriColor, GrayLinked, PropagateHasGray, Coloring
<1>5. DeadAwaitSweep
  BY <1>2 DEF DeadAwaitSweep
<1>6. MarkedAwaitSweep
  BY DEF Init, MarkedAwaitSweep, MarkedSet
<1>7. ActiveChain
  BY KindAssumption DEF Init, ActiveChain, Active
<1>8. QED
  BY <1>1, <1>3, <1>4, <1>5, <1>6, <1>7 DEF IInv

LEMMA GCBeginInv == IInv /\ GCBegin /\ FullAdvance => IInv'
<1> SUFFICES ASSUME IInv, GCBegin, FullAdvance PROVE IInv'
  OBVIOUS
<1> USE ObjectKinds DEF IInv
<1>1. TypeOK'
  BY KindAssumption DEF GCBegin, FullAdvance, GctillEnds, TypeOK, Steps, Whites, Colors, fnz, switch
<1>2. Dead = {}
  BY DEF GCBegin, DeadAwaitSweep
<1>3. Alloc' = Alloc /\ Dead' = {}
  BY <1>2 DEF GCBegin, TypeOK, NoDangling, Alloc, Dead, IsDead, Other, Whites
<1>4. StringsHoldNothing' /\ ListsAllocated' /\ NoDangling'
  BY <1>2, <1>3 DEF GCBegin, StringsHoldNothing, ListsAllocated, NoDangling, fnz, switch
<1>5. \A o \in Object : color'[o] \in {"gray", "black"} <=> o \in {Main, Registry}
  BY DEF GCBegin, MarkedAwaitSweep, MarkedSet, TypeOK, Colors, Whites
<1>6. \A o \in Object : color'[o] # "black"
  BY <1>5 DEF GCBegin, TypeOK
<1>7. TriColor' /\ GrayLinked' /\ PropagateHasGray'
  BY <1>5, <1>6, KindAssumption
  DEF GCBegin, TriColor, GrayLinked, PropagateHasGray, IsBlack, TypeOK, switch
<1>8. DeadAwaitSweep'
  BY <1>3 DEF DeadAwaitSweep
<1>9. MarkedAwaitSweep'
  BY DEF GCBegin, MarkedAwaitSweep
<1>10. ActiveChain'
  BY DEF GCBegin, ActiveChain, Active, switch
<1>11. QED
  BY <1>1, <1>4, <1>7, <1>8, <1>9, <1>10

LEMMA PropagateInv == IInv /\ Propagate /\ FullAdvance => IInv'
<1> SUFFICES ASSUME IInv, Propagate, FullAdvance PROVE IInv'
  OBVIOUS
<1> USE ObjectKinds DEF IInv
<1>1. PICK g \in gray :
        /\ MarkAll(ref[g], [color EXCEPT ![g] = IF g = trun THEN "gray" ELSE "black"],
                   gray \ {g})
        /\ grayagain' = IF g = trun THEN grayagain \cup {g} ELSE grayagain
  BY DEF Propagate
<1>2. UNCHANGED <<whitebit, tosweep, ref, fnzable, tobefnz, trun, caller, status>>
  BY DEF Propagate, fnz, switch
<1>3. g \in Object /\ color[g] = "gray" /\ g \notin grayagain
  BY DEF Propagate, GrayLinked, Coloring, TypeOK
<1>4. \A o \in Object \ {g} :
        color'[o] = IF o \in ref[g] /\ color[o] \in Whites
                    THEN (IF Leaf(o) THEN "black" ELSE "gray") ELSE color[o]
  BY <1>1, <1>3 DEF MarkAll, TypeOK
<1>5. color'[g] = IF g = trun THEN "gray" ELSE "black"
  BY <1>1, <1>3 DEF MarkAll, TypeOK, Whites
<1>6. gray' = (gray \ {g}) \cup {o \in ref[g] : o # g /\ color[o] \in Whites /\ ~Leaf(o)}
  BY <1>1, <1>3 DEF MarkAll, TypeOK, Whites
<1>7. TypeOK'
  <2>1. color' \in [Object -> Colors]
    BY <1>1, <1>3 DEF MarkAll, TypeOK, Colors
  <2>2. gray' \subseteq Object /\ grayagain' \subseteq Object
    BY <1>1, <1>3, <1>6 DEF TypeOK
  <2>3. gcstep' \in Steps /\ full' \in 0..4 /\ gckind' \in {"Normal", "Emergency"}
    BY DEF Propagate, FullAdvance, GctillEnds, TypeOK, Steps
  <2>4. QED
    BY <1>2, <2>1, <2>2, <2>3 DEF TypeOK
<1>8. Dead = {}
  BY DEF Propagate, DeadAwaitSweep
<1>9. Alloc' = Alloc /\ Dead' = {}
  BY <1>2, <1>3, <1>4, <1>5, <1>8 DEF Alloc, Dead, IsDead, Other, Whites
<1>10. StringsHoldNothing' /\ ListsAllocated' /\ NoDangling'
  BY <1>2, <1>8, <1>9 DEF StringsHoldNothing, ListsAllocated, NoDangling
<1>11. WhiteSet' \subseteq WhiteSet \ ref[g]
  BY <1>2, <1>3, <1>4, <1>5 DEF WhiteSet, Whites
<1>12. TriColor'
  <2>1. ASSUME NEW o \in Object, color'[o] = "black"
        PROVE  ref[o] \cap WhiteSet' = {}
    <3>1. CASE o = g
      BY <1>11, <3>1
    <3>2. CASE o # g /\ color[o] = "black"
      BY <1>11, <3>2 DEF Propagate, TriColor, Coloring, IsBlack
    <3>3. CASE o # g /\ color[o] # "black"
      <4>1. Leaf(o)
        BY <1>4, <2>1, <3>3
      <4>2. QED
        BY <4>1 DEF Leaf, StringsHoldNothing
    <3>4. QED
      BY <3>1, <3>2, <3>3
  <2>2. ~Leaf(trun)
    BY KindAssumption DEF Leaf, TypeOK
  <2>3. color'[trun] # "black"
    BY <1>4, <1>5, <2>2 DEF Propagate, TriColor, Coloring, IsBlack, TypeOK
  <2>4. QED
    BY <1>2, <2>1, <2>3 DEF TriColor, IsBlack
<1>13. GrayLinked' /\ PropagateHasGray'
  <2>1. gray \cap grayagain = {} /\ gray \cup grayagain = {o \in Object : color[o] = "gray"}
    BY DEF Propagate, GrayLinked, Coloring
  <2>2. gray' \cap grayagain' = {}
    BY <1>1, <1>3, <1>6, <2>1 DEF Whites, TypeOK
  <2>3. \A o \in Object : o \in gray' \cup grayagain' <=> color'[o] = "gray"
    BY <1>1, <1>3, <1>4, <1>5, <1>6, <2>1 DEF Whites
  <2>4. gray' \cup grayagain' = {o \in Object : color'[o] = "gray"}
    BY <1>7, <2>3 DEF TypeOK
  <2>5. QED
    BY <2>2, <2>4 DEF GrayLinked, PropagateHasGray, Propagate
<1>14. DeadAwaitSweep' /\ MarkedAwaitSweep'
  BY <1>9 DEF Propagate, DeadAwaitSweep, MarkedAwaitSweep
<1>15. ActiveChain'
  BY <1>2 DEF ActiveChain, Active
<1>16. QED
  BY <1>7, <1>10, <1>12, <1>13, <1>14, <1>15

-----------------------------------------------------------------------------
(* Sweeping preserves the invariant.                                       *)

(* Sweeping allocated objects keeps the usable ones, and what they hold.   *)
LEMMA SweepKeeps ==
  ASSUME TypeOK, NEW S \in SUBSET Alloc, SweepObjects(S, color, whitebit),
         UNCHANGED whitebit
  PROVE  /\ color' \in [Object -> Colors]
         /\ ref' \in [Object -> SUBSET Object]
         /\ Usable' = Usable
         /\ Dead' = Dead \ S
         /\ MarkedSet' = MarkedSet \ S
         /\ Alloc \ S \subseteq Alloc' /\ Alloc' \subseteq Alloc
         /\ \A o \in Usable : ref'[o] = ref[o]
         /\ \A o \in Object : ref'[o] \subseteq ref[o]
<1>1. \A o \in Object : color'[o] = IF o \in S /\ IsDead(o) THEN "free"
                                    ELSE IF o \in S THEN whitebit ELSE color[o]
  BY DEF SweepObjects, IsDead
<1>2. \A o \in Object : ref'[o] = IF o \in S /\ IsDead(o) THEN {} ELSE ref[o]
  BY DEF SweepObjects, IsDead
<1>3. color' \in [Object -> Colors] /\ ref' \in [Object -> SUBSET Object]
  BY DEF SweepObjects, TypeOK, Colors
<1>4. Usable' = Usable /\ Dead' = Dead \ S
  BY <1>1 DEF Usable, Alloc, Dead, IsDead, Other, TypeOK, Whites
<1>5. MarkedSet' = MarkedSet \ S
  BY <1>1 DEF MarkedSet, TypeOK, Whites
<1>6. Alloc \ S \subseteq Alloc' /\ Alloc' \subseteq Alloc
  BY <1>1 DEF Alloc, TypeOK, Whites
<1>7. /\ \A o \in Usable : ref'[o] = ref[o]
      /\ \A o \in Object : ref'[o] \subseteq ref[o]
  BY <1>2 DEF Usable, Dead, Alloc
<1>8. QED
  BY <1>3, <1>4, <1>5, <1>6, <1>7

LEMMA SweepStepInv == IInv /\ SweepStep /\ FullAdvance => IInv'
<1> SUFFICES ASSUME IInv, SweepStep, FullAdvance PROVE IInv'
  OBVIOUS
<1> USE ObjectKinds DEF IInv
<1>1. PICK S \in SUBSET tosweep :
        /\ SweepObjects(S, color, whitebit)
        /\ IF tosweep \subseteq S
           THEN tosweep' = NextList[gcstep] /\ gcstep' = NextSweep[gcstep]
           ELSE tosweep' = tosweep \ S /\ UNCHANGED gcstep
  BY DEF SweepStep, AtMost
<1>2. UNCHANGED <<whitebit, gray, grayagain, fnzable, tobefnz, trun, caller, status>>
  BY DEF SweepStep, fnz, switch
<1>3. S \in SUBSET Alloc
  BY DEF ListsAllocated
<1>4. /\ color' \in [Object -> Colors]
      /\ ref' \in [Object -> SUBSET Object]
      /\ Usable' = Usable
      /\ Dead' = Dead \ S
      /\ MarkedSet' = MarkedSet \ S
      /\ Alloc \ S \subseteq Alloc' /\ Alloc' \subseteq Alloc
      /\ \A o \in Usable : ref'[o] = ref[o]
      /\ \A o \in Object : ref'[o] \subseteq ref[o]
  BY <1>1, <1>2, <1>3, SweepKeeps
<1>5. gcstep \in {"SwpNorm", "SwpFin", "SwpFnz"}
  BY DEF SweepStep, Sweeping
<1>6. \/ gcstep' = gcstep /\ tosweep' = tosweep \ S
      \/ gcstep = "SwpNorm" /\ gcstep' = "SwpFin" /\ tosweep' = fnzable /\ S = tosweep
      \/ gcstep = "SwpFin" /\ gcstep' = "SwpFnz" /\ tosweep' = tobefnz /\ S = tosweep
      \/ gcstep = "SwpFnz" /\ gcstep' = "CallFin" /\ tosweep' = {} /\ S = tosweep
  BY <1>1, <1>5 DEF NextSweep, NextList
<1>7. TypeOK'
  BY <1>2, <1>4, <1>5, <1>6 DEF TypeOK, Steps, FullAdvance, GctillEnds
<1>8. StringsHoldNothing'
  BY <1>4, KindAssumption DEF StringsHoldNothing, Object
<1>9. ListsAllocated'
  <2>1. fnzable \cup tobefnz \subseteq Usable' \ {Main}
    BY <1>4 DEF ListsAllocated, Usable
  <2>2. Usable' \subseteq Alloc'
    BY DEF Usable
  <2>3. tosweep' \subseteq Alloc' \ {Main}
    BY <1>4, <1>6, <2>1, <2>2 DEF ListsAllocated
  <2>4. QED
    BY <1>2, <2>1, <2>3 DEF ListsAllocated, Usable
<1>10. NoDangling'
  BY <1>2, <1>4 DEF NoDangling, Usable
<1>11. TriColor' /\ GrayLinked' /\ PropagateHasGray'
  BY <1>5, <1>6 DEF TriColor, GrayLinked, PropagateHasGray, Coloring
<1>12. DeadAwaitSweep'
  BY <1>4, <1>5, <1>6 DEF DeadAwaitSweep
<1>13. MarkedAwaitSweep'
  BY <1>2, <1>4, <1>5, <1>6 DEF MarkedAwaitSweep
<1>14. ActiveChain'
  <2>1. \A t \in Active \ {Main} : ref'[caller[t]] = ref[caller[t]]
    BY <1>4, ActiveUsable DEF ActiveChain
  <2>2. QED
    BY <1>2, <2>1 DEF ActiveChain, Active
<1>15. QED
  BY <1>7, <1>8, <1>9, <1>10, <1>11, <1>12, <1>13, <1>14

LEMMA FullGCInv == IInv /\ FullGC => IInv'
<1> SUFFICES ASSUME IInv, FullGC PROVE IInv'
  OBVIOUS
<1> USE ObjectKinds DEF IInv
<1>1. UNCHANGED <<whitebit, gray, grayagain, fnzable, tobefnz, trun, caller, status>>
  BY DEF FullGC, fnz, switch
<1>2. full' \in 0..4 /\ gckind' \in {"Normal", "Emergency"}
  BY KindAssumption DEF FullGC
<1>3. CASE ~Coloring
  <2>1. UNCHANGED <<color, ref, tosweep, gcstep>>
    BY <1>3 DEF FullGC
  <2>2. TypeOK' /\ StringsHoldNothing' /\ ListsAllocated' /\ NoDangling'
    BY <1>1, <1>2, <2>1
    DEF TypeOK, StringsHoldNothing, ListsAllocated, NoDangling, Alloc, Dead, IsDead
  <2>3. TriColor' /\ GrayLinked' /\ PropagateHasGray'
    BY <1>3, <2>1 DEF TriColor, GrayLinked, PropagateHasGray, Coloring
  <2>4. DeadAwaitSweep' /\ MarkedAwaitSweep' /\ ActiveChain'
    BY <1>1, <2>1 DEF DeadAwaitSweep, MarkedAwaitSweep, ActiveChain, Active, MarkedSet, Dead, IsDead
  <2>5. QED
    BY <2>2, <2>3, <2>4
<1>4. CASE Coloring
  <2>1. PICK S \in SUBSET Normal :
          SweepObjects(S, color, whitebit) /\ tosweep' = Normal \ S /\ gcstep' = "SwpNorm"
    BY <1>4 DEF FullGC, SweepStart, AtMost
  <2>2. S \in SUBSET Alloc
    BY DEF Normal
  <2>3. /\ color' \in [Object -> Colors]
        /\ ref' \in [Object -> SUBSET Object]
        /\ Usable' = Usable
        /\ Dead' = Dead \ S
        /\ MarkedSet' = MarkedSet \ S
        /\ Alloc \ S \subseteq Alloc' /\ Alloc' \subseteq Alloc
        /\ \A o \in Usable : ref'[o] = ref[o]
        /\ \A o \in Object : ref'[o] \subseteq ref[o]
    BY <1>1, <2>1, <2>2, SweepKeeps
  <2>4. Dead = {}
    BY <1>4 DEF DeadAwaitSweep, Coloring
  <2>5. TypeOK'
    BY <1>1, <1>2, <2>1, <2>3 DEF TypeOK, Steps, Normal, Alloc
  <2>6. StringsHoldNothing'
    BY <2>3, KindAssumption DEF StringsHoldNothing, Object
  <2>7. ListsAllocated' /\ NoDangling'
    BY <1>1, <2>1, <2>3, <2>4 DEF ListsAllocated, NoDangling, Usable, Normal
  <2>8. TriColor' /\ GrayLinked' /\ PropagateHasGray'
    BY <2>1 DEF TriColor, GrayLinked, PropagateHasGray, Coloring
  <2>9. DeadAwaitSweep'
    BY <2>3, <2>4 DEF DeadAwaitSweep
  <2>10. MarkedSet \subseteq Alloc
    BY DEF MarkedSet, Alloc
  <2>11. MarkedAwaitSweep'
    BY <1>1, <2>1, <2>3, <2>10 DEF MarkedAwaitSweep, Normal
  <2>12. \A t \in Active \ {Main} : ref'[caller[t]] = ref[caller[t]]
    BY <2>3, ActiveUsable DEF ActiveChain
  <2>13. ActiveChain'
    BY <1>1, <2>12 DEF ActiveChain, Active
  <2>14. QED
    BY <2>5, <2>6, <2>7, <2>8, <2>9, <2>11, <2>13
<1>5. QED
  BY <1>3, <1>4

-----------------------------------------------------------------------------
(* The atomic step preserves the invariant: the marked objects and those   *)
(* marked before it are closed under references, and hold the roots, the   *)
(* finalizable objects and the chain of active threads.                    *)

LEMMA MarkedAllocated == ASSUME IInv, Coloring PROVE Marked \subseteq Alloc
<1> USE DEF IInv
<1>1. Alloc = WhiteSet \cup MarkedSet /\ Alloc \subseteq Object
  BY DEF Alloc, WhiteSet, MarkedSet, TypeOK, Colors, Whites
<1>2. AtomicSeeds \subseteq Alloc
  BY <1>1 DEF AtomicSeeds, GrayLinked, MarkedSet
<1>3. ClosedUnder(Alloc, AtomicEdges, WhiteSet)
  BY <1>1 DEF ClosedUnder
<1>4. Strong \subseteq Alloc
  BY <1>1, <1>2, <1>3, ReachLeast DEF Strong
<1>5. QED
  BY <1>1, <1>3, <1>4, ReachLeast DEF Marked

LEMMA AtomicInv == IInv /\ Atomic /\ FullAdvance => IInv'
<1> SUFFICES ASSUME IInv, Atomic, FullAdvance PROVE IInv'
  OBVIOUS
<1> USE ObjectKinds DEF IInv
<1> DEFINE keep == MarkedSet \cup Marked
           col == [o \in Object |-> IF o \notin Marked THEN color[o]
                                    ELSE IF o = trun THEN "gray" ELSE "black"]
<1>1. /\ gcstep = "Atomic" /\ Coloring
      /\ fnzable' = fnzable \ Unreached /\ tobefnz' = tobefnz \cup Unreached
      /\ gray' = {} /\ grayagain' = grayagain \cap {trun}
      /\ whitebit' = Other(whitebit)
      /\ UNCHANGED <<trun, caller, status>>
  BY DEF Atomic, Coloring, switch
<1>2. PICK S \in SUBSET Normal :
        SweepObjects(S, col, whitebit') /\ tosweep' = Normal \ S /\ gcstep' = "SwpNorm"
  BY DEF Atomic, SweepStart, AtMost
<1>3. Dead = {} /\ Usable = Alloc
  BY <1>1 DEF DeadAwaitSweep, Usable
<1>4. AtomicSeeds \subseteq Object /\ WhiteSet \subseteq Object /\ Unreached \subseteq fnzable
  BY DEF AtomicSeeds, WhiteSet, Unreached, TypeOK
<1>5. AtomicSeeds \subseteq Strong /\ Strong \subseteq Object
  BY <1>4, ReachSeeds, ReachNodes DEF Strong
<1>6. Strong \cup (WhiteSet \cap (tobefnz \cup Unreached)) \subseteq Marked
  BY <1>4, <1>5, ReachSeeds DEF Marked
<1>7. ClosedUnder(Marked, AtomicEdges, WhiteSet)
  BY <1>4, ReachClosed DEF Marked
<1>8. Marked \subseteq Object /\ keep \subseteq Object
  BY ReachNodes DEF Marked, MarkedSet
<1>9. Alloc = WhiteSet \cup MarkedSet
  BY DEF Alloc, WhiteSet, MarkedSet, TypeOK, Colors, Whites
<1>10. Marked \subseteq Alloc
  BY <1>1, MarkedAllocated
<1>11. \A o \in keep : ref[o] \subseteq keep
  <2>1. SUFFICES ASSUME NEW o \in keep, NEW c \in ref[o] PROVE c \in keep
    OBVIOUS
  <2>2. o \in Object /\ o \in Alloc /\ c \in Alloc
    BY <1>3, <1>8, <1>9, <1>10 DEF NoDangling, Usable, TypeOK
  <2>3. CASE c \notin WhiteSet
    BY <1>9, <2>2, <2>3
  <2>4. CASE c \in WhiteSet /\ o \in Marked
    <3>1. c \in AtomicEdges[o]
      BY <2>2 DEF AtomicEdges
    <3>2. QED
      BY <1>7, <2>4, <3>1 DEF ClosedUnder
  <2>5. CASE c \in WhiteSet /\ o \notin Marked
    <3>1. color[o] = "black"
      BY <1>1, <1>5, <1>6, <2>2, <2>5 DEF GrayLinked, AtomicSeeds, MarkedSet
    <3>2. QED
      BY <1>1, <2>2, <2>5, <3>1 DEF TriColor, IsBlack
  <2>6. QED
    BY <2>3, <2>4, <2>5
<1>12. {Main, Registry, trun} \subseteq keep
  BY <1>5, <1>6, <1>9 DEF AtomicSeeds, NoDangling
<1>13. Active \subseteq keep
  <2>1. \A t \in Active \ {Main} : caller[t] \in keep => t \in keep
    BY <1>11 DEF ActiveChain
  <2>2. QED
    BY <1>8, <1>12, <2>1 DEF ActiveChain
<1>14. fnzable' \cup tobefnz' \subseteq keep
  BY <1>1, <1>4, <1>5, <1>6, <1>9 DEF Unreached, IsWhite, ListsAllocated
<1>15. \A o \in Object : color'[o] = IF o \notin S THEN col[o]
                                     ELSE IF o \in keep THEN whitebit' ELSE "free"
  <2>1. \A o \in keep : col[o] \in {"gray", "black"}
    BY <1>8 DEF MarkedSet
  <2>2. \A o \in S \ keep : col[o] = Other(whitebit')
    <3>1. \A o \in S \ keep : o \in WhiteSet /\ ~IsDead(o) /\ o \in Object
      BY <1>3, <1>9 DEF Normal, Dead, Alloc
    <3>2. QED
      BY <1>1, <3>1 DEF WhiteSet, IsDead, Other, Whites, TypeOK
  <2>3. whitebit' \in Whites
    BY <1>1 DEF TypeOK, Whites, Other
  <2>4. S \subseteq Object
    BY DEF Normal, Alloc
  <2>5. QED
    BY <1>2, <1>8, <2>1, <2>2, <2>3, <2>4 DEF SweepObjects, Other, Whites
<1>16. \A o \in Object : o \notin keep => col[o] = color[o] /\ color[o] \in {whitebit, "free"}
  BY <1>3, <1>8 DEF TypeOK, Colors, Whites, MarkedSet, Dead, IsDead, Other
<1>17. whitebit' \in Whites /\ whitebit' # whitebit /\ Other(whitebit') = whitebit
  BY <1>1 DEF TypeOK, Whites, Other
<1>18. \A o \in keep : col[o] \in {"gray", "black"}
  BY <1>8 DEF MarkedSet
<1>19. keep \subseteq Alloc
  BY <1>9, <1>10
<1>20. \A o \in Object : ref'[o] = IF o \in S \ keep THEN {} ELSE ref[o]
  BY <1>2, <1>15, <1>16, <1>17, <1>18 DEF SweepObjects, TypeOK, Normal, Alloc, Whites
<1>21. Usable' = keep /\ Dead' = (Alloc \ keep) \ S /\ Alloc' = Alloc \ (S \ keep)
  <2>1. Alloc' = Alloc \ (S \ keep)
    BY <1>15, <1>16, <1>17, <1>18, <1>19 DEF Alloc, Whites
  <2>2. ASSUME NEW o \in Object
        PROVE  IsDead(o)' <=> o \in (Alloc \ keep) \ S
    <3>1. IsDead(o)' <=> color'[o] = whitebit
      BY <1>17 DEF IsDead
    <3>2. whitebit \in Whites
      BY DEF TypeOK
    <3>3. QED
      BY <1>15, <1>16, <1>17, <1>18, <1>19, <3>1, <3>2 DEF Alloc, Whites
  <2>3. Dead' = (Alloc \ keep) \ S
    BY <2>2 DEF Dead, Alloc
  <2>4. QED
    BY <1>19, <2>1, <2>3 DEF Usable
<1>22. TypeOK'
  <2>1. color' \in [Object -> Colors]
    BY <1>2, <1>16, <1>17, <1>18 DEF SweepObjects, Colors, Whites, TypeOK
  <2>2. ref' \in [Object -> SUBSET Object]
    BY <1>2 DEF SweepObjects, TypeOK
  <2>3. QED
    BY <1>1, <1>2, <1>4, <1>17, <2>1, <2>2
    DEF TypeOK, Steps, FullAdvance, GctillEnds, Normal, Alloc
<1>23. StringsHoldNothing'
  BY <1>20, KindAssumption DEF StringsHoldNothing, Object
<1>24. ListsAllocated'
  <2>1. Main \notin fnzable' \cup tobefnz'
    BY <1>1, <1>4 DEF ListsAllocated
  <2>2. Normal \ S \subseteq Alloc' \ {Main}
    BY <1>21 DEF Normal
  <2>3. QED
    BY <1>2, <1>14, <1>21, <2>1, <2>2 DEF ListsAllocated, Usable
<1>25. NoDangling'
  BY <1>1, <1>8, <1>11, <1>12, <1>20, <1>21 DEF NoDangling, Usable
<1>26. TriColor' /\ GrayLinked' /\ PropagateHasGray'
  BY <1>2 DEF TriColor, GrayLinked, PropagateHasGray, Coloring
<1>27. DeadAwaitSweep'
  BY <1>1, <1>2, <1>4, <1>6, <1>12, <1>14, <1>21 DEF DeadAwaitSweep, Normal
<1>28. MarkedAwaitSweep'
  <2>1. MarkedSet' \subseteq Alloc \ S
    BY <1>15, <1>16, <1>17, <1>19 DEF MarkedSet, Whites, Alloc
  <2>2. QED
    BY <1>1, <1>2, <2>1 DEF MarkedAwaitSweep, Normal
<1>29. ActiveChain'
  <2>1. \A t \in Active \ {Main} : ref'[caller[t]] = ref[caller[t]]
    BY <1>8, <1>13, <1>20 DEF ActiveChain
  <2>2. QED
    BY <1>1, <2>1 DEF ActiveChain, Active
<1>30. QED
  BY <1>22, <1>23, <1>24, <1>25, <1>26, <1>27, <1>28, <1>29

-----------------------------------------------------------------------------
(* The mutator preserves the invariant.                                    *)

LEMMA StackUsable ==
  ASSUME TypeOK, NoDangling
  PROVE  /\ trun \in Usable /\ Stack \subseteq Usable
         /\ Accessible \subseteq Usable
         /\ \A o \in Accessible : ref[o] \subseteq Usable
BY DEF NoDangling, Usable, Stack, Accessible

LEMMA RunningIsThread ==
  ASSUME TypeOK
  PROVE  trun \in Object /\ trun \in Threads /\ trun # Registry /\ trun \notin Strings
BY ObjectKinds, KindAssumption DEF TypeOK

(* Each active thread is held by the stack of one that is not running. *)
LEMMA CallersRun ==
  ASSUME TypeOK, ActiveChain
  PROVE  \A t \in Active \ {Main} :
           /\ caller[t] \in Object /\ caller[t] \in Active /\ caller[t] \in Threads
           /\ caller[t] # trun /\ t \in ref[caller[t]]
<1>1. Active \subseteq Object /\ Active \subseteq Threads
  BY ObjectKinds DEF Active
<1>2. QED
  BY <1>1 DEF ActiveChain

(* An operation that changes nothing but references keeps the invariant    *)
(* if what may be used stays so, nothing traversed comes to refer to       *)
(* something white and the chain of active threads stays on the stacks.    *)
LEMMA RewireInv ==
  ASSUME IInv, UNCHANGED <<cycle, marks, fnz, control, switch>>,
         ref' \in [Object -> SUBSET Object],
         \A s \in Strings : ref'[s] = {},
         \A o \in Usable : ref'[o] \subseteq Usable,
         Coloring => \A o \in Object : IsBlack(o) => ref'[o] \cap WhiteSet = {},
         \A t \in Active \ {Main} : t \in ref'[caller[t]]
  PROVE  IInv'
<1> USE DEF IInv, cycle, marks, fnz, control, switch
<1>1. TypeOK'
  BY DEF TypeOK
<1>2. StringsHoldNothing' /\ ListsAllocated' /\ NoDangling'
  BY DEF StringsHoldNothing, ListsAllocated, NoDangling, Usable, Alloc, Dead, IsDead
<1>3. WhiteSet' = WhiteSet /\ (Coloring' <=> Coloring)
  BY DEF WhiteSet, Coloring
<1>4. TriColor' /\ GrayLinked' /\ PropagateHasGray'
  BY <1>3 DEF TriColor, GrayLinked, PropagateHasGray, IsBlack
<1>5. DeadAwaitSweep' /\ MarkedAwaitSweep'
  BY DEF DeadAwaitSweep, MarkedAwaitSweep, MarkedSet, Dead, IsDead
<1>6. ActiveChain'
  BY DEF ActiveChain, Active
<1>7. QED
  BY <1>1, <1>2, <1>4, <1>5, <1>6

(* Putting a usable object on the running thread's stack. *)
LEMMA PushInv ==
  ASSUME IInv, UNCHANGED <<cycle, marks, fnz, control, switch>>,
         NEW v \in Usable, Push(v)
  PROVE  IInv'
<1> USE ObjectKinds DEF IInv
<1>1. v \in Object /\ trun \in Object
  BY DEF Usable, Alloc, TypeOK
<1>2. ref' \in [Object -> SUBSET Object]
  BY <1>1 DEF Push, TypeOK
<1>3. \A o \in Object : ref'[o] = IF o = trun THEN ref[o] \cup {v} ELSE ref[o]
  BY DEF Push, TypeOK
<1>4. \A s \in Strings : ref'[s] = {}
  BY <1>3, RunningIsThread, KindAssumption DEF StringsHoldNothing, Object
<1>5. \A o \in Usable : ref'[o] \subseteq Usable
  BY <1>3 DEF NoDangling, Usable, Alloc
<1>6. Coloring => \A o \in Object : IsBlack(o) => ref'[o] \cap WhiteSet = {}
  BY <1>3 DEF TriColor
<1>7. \A t \in Active \ {Main} : t \in ref'[caller[t]]
  BY <1>3, CallersRun
<1>8. QED
  BY <1>2, <1>4, <1>5, <1>6, <1>7, RewireInv

LEMMA LoadInv == ASSUME IInv, NEW o, NEW v, Load(o, v) PROVE IInv'
BY PushInv, StackUsable DEF Load, IInv

LEMMA PopInv == ASSUME IInv, NEW v, Pop(v) PROVE IInv'
<1> USE ObjectKinds DEF IInv
<1>1. \A o \in Object : ref'[o] = IF o = trun THEN ref[o] \ {v} ELSE ref[o]
  BY DEF Pop, TypeOK
<1>2. ref' \in [Object -> SUBSET Object]
  BY DEF Pop, TypeOK
<1>3. /\ \A s \in Strings : ref'[s] = {}
      /\ \A o \in Usable : ref'[o] \subseteq Usable
  BY <1>1 DEF StringsHoldNothing, NoDangling, Usable, Alloc, Object
<1>4. Coloring => \A o \in Object : IsBlack(o) => ref'[o] \cap WhiteSet = {}
  BY <1>1 DEF TriColor
<1>5. \A t \in Active \ {Main} : t \in ref'[caller[t]]
  BY <1>1, CallersRun
<1>6. QED
  BY <1>2, <1>3, <1>4, <1>5, RewireInv DEF Pop

LEMMA RemoveFieldInv == ASSUME IInv, NEW o, NEW v, RemoveField(o, v) PROVE IInv'
<1> USE ObjectKinds DEF IInv
<1>1. o \in Object /\ o \notin Threads
  BY KindAssumption DEF RemoveField, Object
<1>2. \A x \in Object : ref'[x] = IF x = o THEN ref[x] \ {v} ELSE ref[x]
  BY <1>1 DEF RemoveField, TypeOK
<1>3. ref' \in [Object -> SUBSET Object]
  BY <1>1 DEF RemoveField, TypeOK
<1>4. /\ \A s \in Strings : ref'[s] = {}
      /\ \A x \in Usable : ref'[x] \subseteq Usable
  BY <1>2 DEF StringsHoldNothing, NoDangling, Usable, Alloc, Object
<1>5. Coloring => \A x \in Object : IsBlack(x) => ref'[x] \cap WhiteSet = {}
  BY <1>2 DEF TriColor
<1>6. \A t \in Active \ {Main} : t \in ref'[caller[t]]
  BY <1>1, <1>2, CallersRun
<1>7. QED
  BY <1>3, <1>4, <1>5, <1>6, RewireInv DEF RemoveField

(* A store that hides nothing from the marking under way, in an object     *)
(* that is no string and not on the chain of active threads; v may leave   *)
(* the stack.                                                              *)
LEMMA StoreInv ==
  ASSUME IInv, UNCHANGED <<cycle, marks, fnz, control, switch>>,
         NEW o \in Object \ Strings, o \notin Active,
         NEW v \in Stack, ~Hides(o, v),
         NEW rest, rest = Stack \/ rest = Stack \ {v},
         ref' = [ref EXCEPT ![o] = @ \cup {v}, ![trun] = rest]
  PROVE  IInv'
<1> USE ObjectKinds DEF IInv
<1>1. v \in Usable /\ v \in Object /\ trun \in Object /\ trun \in Active /\ o # trun
  BY StackUsable DEF Usable, Alloc, TypeOK, ActiveChain
<1>2. \A x \in Object : ref'[x] = IF x = trun THEN rest
                                  ELSE IF x = o THEN ref[x] \cup {v} ELSE ref[x]
  BY <1>1 DEF TypeOK
<1>3. rest \subseteq Stack /\ Stack \subseteq Object
  BY <1>1 DEF Stack, TypeOK
<1>4. ref' \in [Object -> SUBSET Object]
  BY <1>1, <1>3 DEF TypeOK
<1>5. \A s \in Strings : ref'[s] = {}
  BY <1>2, KindAssumption DEF StringsHoldNothing, Object, TypeOK
<1>6. \A x \in Usable : ref'[x] \subseteq Usable
  <2>1. SUFFICES ASSUME NEW x \in Usable PROVE ref'[x] \subseteq Usable
    OBVIOUS
  <2>2. x \in Object /\ ref[x] \subseteq Usable /\ Stack \subseteq Usable
    BY StackUsable DEF NoDangling, Usable, Alloc
  <2>3. CASE x = trun
    BY <1>2, <1>3, <2>2, <2>3
  <2>4. CASE x = o
    <3>1. ref'[x] = ref[x] \cup {v}
      BY <1>1, <1>2, <2>2, <2>4
    <3>2. QED
      BY <1>1, <2>2, <3>1
  <2>5. CASE x # trun /\ x # o
    BY <1>2, <2>2, <2>5
  <2>6. QED
    BY <2>3, <2>4, <2>5
<1>7. Coloring => \A x \in Object : IsBlack(x) => ref'[x] \cap WhiteSet = {}
  <2>1. SUFFICES ASSUME Coloring, NEW x \in Object, IsBlack(x)
                 PROVE  ref'[x] \cap WhiteSet = {}
    OBVIOUS
  <2>2. x # trun /\ ref[x] \cap WhiteSet = {}
    BY <2>1 DEF TriColor
  <2>3. CASE x = o
    <3>1. ref'[x] = ref[x] \cup {v} /\ v \notin WhiteSet
      BY <1>2, <2>1, <2>2, <2>3 DEF Hides, IsWhite
    <3>2. QED
      BY <2>2, <3>1
  <2>4. CASE x # o
    BY <1>2, <2>2, <2>4
  <2>5. QED
    BY <2>3, <2>4
<1>8. \A t \in Active \ {Main} : t \in ref'[caller[t]]
  <2>1. SUFFICES ASSUME NEW t \in Active \ {Main} PROVE t \in ref'[caller[t]]
    OBVIOUS
  <2>2. /\ caller[t] \in Object /\ caller[t] # trun /\ caller[t] # o
        /\ t \in ref[caller[t]]
    BY CallersRun
  <2>3. ref'[caller[t]] = ref[caller[t]]
    BY <1>2, <2>2
  <2>4. QED
    BY <2>2, <2>3
<1>9. QED
  BY <1>4, <1>5, <1>6, <1>7, <1>8, RewireInv

(* The same, when nothing leaves the stack. *)
LEMMA PlainStoreInv ==
  ASSUME IInv, NEW o \in Object \ Strings, o \notin Active,
         NEW v \in Stack, ~Hides(o, v), Store(o, v)
  PROVE  IInv'
<1>1. trun \in Object /\ o # trun
  BY RunningIsThread DEF IInv, ActiveChain
<1>2. ref' = [ref EXCEPT ![o] = @ \cup {v}, ![trun] = Stack]
  BY <1>1 DEF Store, Stack, IInv, TypeOK
<1>3. UNCHANGED <<cycle, marks, fnz, control, switch>>
  BY DEF Store
<1>4. QED
  BY <1>2, <1>3, StoreInv

LEMMA ListAddInv ==
  ASSUME IInv, NEW o, NEW v, ~Hides(o, v), ListAdd(o, v) PROVE IInv'
<1>1. o \in Object \ Strings /\ o \notin Active /\ v \in Stack /\ Store(o, v)
  BY KindAssumption DEF ListAdd, Object, Active
<1>2. QED
  BY <1>1, PlainStoreInv

LEMMA CaptureStoreInv ==
  ASSUME IInv, NEW o, NEW v, ~Hides(o, v), CaptureStore(o, v) PROVE IInv'
<1>1. o \in Object \ Strings /\ o \notin Active /\ v \in Stack /\ Store(o, v)
  BY KindAssumption DEF CaptureStore, Object, Active
<1>2. QED
  BY <1>1, PlainStoreInv

LEMMA CloseCaptureInv ==
  ASSUME IInv, NEW o, NEW v, ~Hides(o, v), CloseCapture(o, v) PROVE IInv'
<1>1. o \in Object \ Strings /\ o \notin Active /\ v \in Stack
  BY KindAssumption DEF CloseCapture, Object, Active
<1>2. PICK rest \in {Stack, Stack \ {v}} :
        ref' = [ref EXCEPT ![o] = @ \cup {v}, ![trun] = rest]
  BY DEF CloseCapture
<1>3. UNCHANGED <<cycle, marks, fnz, control, switch>>
  BY DEF CloseCapture
<1>4. QED
  BY <1>1, <1>2, <1>3, StoreInv

LEMMA XMoveToInv ==
  ASSUME IInv, NEW t, NEW v, ~Hides(t, v), XMoveTo(t, v) PROVE IInv'
<1>1. t \in Object \ Strings /\ t \notin Active /\ v \in Stack
  BY KindAssumption, ObjectKinds DEF XMoveTo, Active
<1>2. PICK rest \in {Stack, Stack \ {v}} :
        ref' = [ref EXCEPT ![t] = @ \cup {v}, ![trun] = rest]
  BY DEF XMoveTo
<1>3. UNCHANGED <<cycle, marks, fnz, control, switch>>
  BY DEF XMoveTo
<1>4. QED
  BY <1>1, <1>2, <1>3, StoreInv

LEMMA XMoveFromInv ==
  ASSUME IInv, NEW t, NEW v, XMoveFrom(t, v) PROVE IInv'
<1> USE ObjectKinds DEF IInv
<1>1. /\ t \in Object /\ t \in Usable /\ t \notin Active
      /\ trun \in Object /\ trun \in Active /\ trun \notin Strings
  BY StackUsable, RunningIsThread DEF XMoveFrom, Active, ActiveChain
<1>2. v \in Usable /\ v \in Object
  BY <1>1 DEF XMoveFrom, NoDangling, Usable, Alloc
<1>3. \A x \in Object : ref'[x] = IF x = trun THEN ref[x] \cup {v}
                                  ELSE IF x = t THEN ref[x] \ {v} ELSE ref[x]
  BY <1>1 DEF XMoveFrom, TypeOK
<1>4. ref' \in [Object -> SUBSET Object]
  BY <1>1, <1>2 DEF XMoveFrom, TypeOK
<1>5. \A s \in Strings : ref'[s] = {}
  BY <1>1, <1>3 DEF StringsHoldNothing, Object
<1>6. \A x \in Usable : ref'[x] \subseteq Usable
  <2>1. SUFFICES ASSUME NEW x \in Usable PROVE ref'[x] \subseteq Usable
    OBVIOUS
  <2>2. x \in Object /\ ref[x] \subseteq Usable
    BY DEF NoDangling, Usable, Alloc
  <2>3. ref'[x] \subseteq ref[x] \cup {v}
    BY <1>3, <2>2
  <2>4. QED
    BY <1>2, <2>2, <2>3
<1>7. Coloring => \A x \in Object : IsBlack(x) => ref'[x] \cap WhiteSet = {}
  <2>1. SUFFICES ASSUME Coloring, NEW x \in Object, IsBlack(x)
                 PROVE  ref'[x] \cap WhiteSet = {}
    OBVIOUS
  <2>2. x # trun /\ ref[x] \cap WhiteSet = {}
    BY <2>1 DEF TriColor
  <2>3. ref'[x] \subseteq ref[x]
    BY <1>3, <2>2
  <2>4. QED
    BY <2>2, <2>3
<1>8. \A u \in Active \ {Main} : u \in ref'[caller[u]]
  <2>1. SUFFICES ASSUME NEW u \in Active \ {Main} PROVE u \in ref'[caller[u]]
    OBVIOUS
  <2>2. /\ caller[u] \in Object /\ caller[u] # trun /\ caller[u] # t
        /\ u \in ref[caller[u]]
    BY <1>1, CallersRun
  <2>3. ref'[caller[u]] = ref[caller[u]]
    BY <1>3, <2>2
  <2>4. QED
    BY <2>2, <2>3
<1>9. UNCHANGED <<cycle, marks, fnz, control, switch>>
  BY DEF XMoveFrom
<1>10. QED
  BY <1>4, <1>5, <1>6, <1>7, <1>8, <1>9, RewireInv

(* An operation that also creates or marks objects, or moves one between   *)
(* the lists, keeps the invariant if no object becomes condemned or, while *)
(* sweeping, marked, and what the sweep passes over needs no sweeping.     *)
LEMMA MutateInv ==
  ASSUME IInv, UNCHANGED <<gcstep, whitebit, tobefnz, control, trun>>,
         TypeOK', StringsHoldNothing',
         Dead' \subseteq Dead, Usable \subseteq Usable', Alloc \subseteq Alloc',
         \A o \in Usable' : ref'[o] \subseteq Usable',
         Coloring => TriColor' /\ GrayLinked' /\ gray \subseteq gray',
         ~Coloring => MarkedSet' \subseteq MarkedSet,
         fnzable' \subseteq Usable' \ {Main}, fnzable \subseteq fnzable',
         tosweep' \subseteq tosweep,
         (Dead' \cup MarkedSet') \cap tosweep \subseteq tosweep',
         Active' = Active,
         \A t \in Active : caller'[t] = caller[t],
         \A t \in Active \ {Main} : t \in ref'[caller[t]]
  PROVE  IInv'
<1> USE DEF IInv
<1>2. ListsAllocated'
  BY DEF ListsAllocated, Usable
<1>3. NoDangling'
  BY DEF NoDangling, Usable
<1>4. Coloring' <=> Coloring
  BY DEF Coloring
<1>5. TriColor' /\ GrayLinked'
  BY <1>4 DEF TriColor, GrayLinked
<1>6. PropagateHasGray'
  BY DEF PropagateHasGray, Coloring
<1>7. DeadAwaitSweep'
  BY DEF DeadAwaitSweep
<1>8. MarkedAwaitSweep'
  BY DEF MarkedAwaitSweep, Coloring
<1>9. ActiveChain'
  <2>1. {Main, trun} \subseteq Active'
    BY DEF ActiveChain
  <2>2. \A t \in Active' \ {Main} : /\ caller'[t] \in Active' \ {trun'}
                                    /\ t \in ref'[caller'[t]]
    BY DEF ActiveChain
  <2>3. \A s, t \in Active' \ {Main} : caller'[s] = caller'[t] => s = t
    BY DEF ActiveChain
  <2>4. \A S \in SUBSET Object :
          (Main \in S /\ \A t \in Active' \ {Main} : caller'[t] \in S => t \in S)
            => Active' \subseteq S
    BY DEF ActiveChain
  <2>5. QED
    BY <2>1, <2>2, <2>3, <2>4 DEF ActiveChain
<1>10. QED
  BY <1>2, <1>3, <1>5, <1>6, <1>7, <1>8, <1>9

LEMMA BlackUsable ==
  ASSUME TypeOK, NoDangling, NEW x \in Object, IsBlack(x)
  PROVE  x \in Usable /\ ref[x] \subseteq Usable
BY DEF IsBlack, Usable, Alloc, Dead, IsDead, Other, TypeOK, Whites, NoDangling

LEMMA NewInv == ASSUME IInv, NEW o \in Object, NEW init, New(o, init) PROVE IInv'
<1> USE ObjectKinds DEF IInv
<1>1. UNCHANGED <<gcstep, whitebit, tosweep, gray, grayagain, fnzable, tobefnz, full,
                  gckind, trun, caller, status>>
  BY DEF New, cycle, fnz, control, switch
<1>2. /\ trun \in Object /\ trun \in Usable /\ trun \in Threads /\ trun \notin Strings
      /\ o # trun /\ o \notin Usable /\ o \notin Threads
      /\ Stack \subseteq Usable /\ init \subseteq Stack
  BY StackUsable, RunningIsThread DEF New, Usable
<1>3. \A x \in Object : color'[x] = IF x = o THEN whitebit ELSE color[x]
  BY DEF New, TypeOK
<1>4. \A x \in Object : ref'[x] = IF x = o THEN init
                                  ELSE IF x = trun THEN ref[x] \cup {o} ELSE ref[x]
  BY <1>2 DEF New, TypeOK
<1>5. color[o] = "free" /\ whitebit \in {"white1", "white2"}
  BY DEF New, Alloc, TypeOK, Whites
<1>6. /\ Usable' = Usable \cup {o} /\ Dead' = Dead /\ Alloc' = Alloc \cup {o}
      /\ WhiteSet' = WhiteSet \cup {o} /\ MarkedSet' = MarkedSet
  BY <1>1, <1>3, <1>5 DEF Usable, Alloc, Dead, IsDead, Other, WhiteSet, Whites, MarkedSet
<1>7. TypeOK'
  <2>1. color' \in [Object -> Colors]
    BY <1>5 DEF New, TypeOK, Colors, Whites
  <2>2. init \subseteq Object
    BY <1>2 DEF Usable, Alloc
  <2>3. ref' \in [Object -> SUBSET Object]
    BY <1>2, <2>2 DEF New, TypeOK
  <2>4. QED
    BY <1>1, <2>1, <2>3 DEF TypeOK
<1>8. StringsHoldNothing'
  <2>1. o \in Strings => init = {}
    BY KindAssumption DEF New
  <2>2. QED
    BY <1>2, <1>4, <2>1 DEF StringsHoldNothing, Object
<1>9. \A x \in Usable' : ref'[x] \subseteq Usable'
  <2>1. SUFFICES ASSUME NEW x \in Usable' PROVE ref'[x] \subseteq Usable'
    OBVIOUS
  <2>2. CASE x = o
    BY <1>2, <1>4, <1>6, <2>2
  <2>3. CASE x # o
    <3>1. x \in Object /\ ref[x] \subseteq Usable /\ ref'[x] \subseteq ref[x] \cup {o}
      BY <1>4, <1>6, <2>3 DEF NoDangling, Usable, Alloc
    <3>2. QED
      BY <1>6, <3>1
  <2>4. QED
    BY <2>2, <2>3
<1>10. ASSUME Coloring PROVE TriColor' /\ GrayLinked'
  <2>1. ASSUME NEW x \in Object, color'[x] = "black"
        PROVE  x # trun /\ ref'[x] \cap WhiteSet' = {}
    <3>1. x # o /\ IsBlack(x) /\ x # trun /\ ref[x] \cap WhiteSet = {}
      BY <1>3, <1>5, <1>10, <2>1 DEF TriColor, IsBlack
    <3>2. ref'[x] = ref[x] /\ o \notin ref[x]
      BY <1>2, <1>4, <3>1, BlackUsable
    <3>3. QED
      BY <1>6, <3>1, <3>2
  <2>2. TriColor'
    BY <1>1, <1>2, <2>1 DEF TriColor, IsBlack
  <2>3. GrayLinked'
    BY <1>1, <1>3, <1>5, <1>10 DEF GrayLinked
  <2>4. QED
    BY <2>2, <2>3
<1>11. Active' = Active
  BY <1>1 DEF Active
<1>12. \A t \in Active \ {Main} : t \in ref'[caller[t]]
  <2>1. SUFFICES ASSUME NEW t \in Active \ {Main} PROVE t \in ref'[caller[t]]
    OBVIOUS
  <2>2. /\ caller[t] \in Object /\ caller[t] # trun /\ caller[t] # o
        /\ t \in ref[caller[t]]
    BY <1>2, CallersRun
  <2>3. QED
    BY <1>4, <2>2
<1>13. fnzable' \subseteq Usable' \ {Main}
  BY <1>1, <1>6 DEF ListsAllocated, Usable
<1>14. QED
  BY <1>1, <1>6, <1>7, <1>8, <1>9, <1>10, <1>11, <1>12, <1>13, MutateInv DEF control

LEMMA InternStringInv == ASSUME IInv, NEW s, InternString(s) PROVE IInv'
<1> USE ObjectKinds DEF IInv
<1>1. UNCHANGED <<gcstep, whitebit, tosweep, gray, grayagain, fnzable, tobefnz, full,
                  gckind, trun, caller, status>>
  BY DEF InternString, cycle, fnz, control, switch
<1>2. /\ trun \in Object /\ trun \in Usable /\ trun \notin Strings
      /\ s \in Strings /\ s \in Alloc /\ s \in Object
  BY StackUsable, RunningIsThread DEF InternString, Alloc
<1>3. \A x \in Object : color'[x] = IF x = s /\ IsDead(s) THEN whitebit ELSE color[x]
  BY <1>2 DEF InternString, TypeOK
<1>4. \A x \in Object : ref'[x] = IF x = trun THEN ref[x] \cup {s} ELSE ref[x]
  BY <1>2 DEF InternString, Push, TypeOK
<1>5. whitebit \in {"white1", "white2"}
  BY DEF TypeOK, Whites
<1>6. /\ Usable' = Usable \cup {s} /\ Dead' = Dead \ {s} /\ Alloc' = Alloc
      /\ MarkedSet' = MarkedSet
  BY <1>1, <1>2, <1>3, <1>5 DEF Usable, Alloc, Dead, IsDead, Other, MarkedSet
<1>7. TypeOK'
  <2>1. color' \in [Object -> Colors]
    BY <1>5 DEF InternString, TypeOK, Colors, Whites
  <2>2. ref' \in [Object -> SUBSET Object]
    BY <1>2 DEF InternString, Push, TypeOK
  <2>3. QED
    BY <1>1, <2>1, <2>2 DEF TypeOK
<1>8. StringsHoldNothing'
  BY <1>2, <1>4 DEF StringsHoldNothing, Object
<1>9. \A x \in Usable' : ref'[x] \subseteq Usable'
  <2>1. SUFFICES ASSUME NEW x \in Usable' PROVE ref'[x] \subseteq Usable'
    OBVIOUS
  <2>2. x \in Object /\ ref[x] \subseteq Usable
    BY <1>2, <1>6 DEF NoDangling, Usable, Alloc, StringsHoldNothing
  <2>3. ref'[x] \subseteq ref[x] \cup {s}
    BY <1>4, <2>2
  <2>4. QED
    BY <1>6, <2>2, <2>3
<1>10. ASSUME Coloring PROVE TriColor' /\ GrayLinked'
  <2>1. Dead = {}
    BY <1>10 DEF DeadAwaitSweep, Coloring
  <2>2. color' = color
    BY <2>1, <1>2 DEF InternString, Dead
  <2>3. TriColor'
    BY <1>1, <1>4, <1>10, <2>2 DEF TriColor, IsBlack, WhiteSet, Coloring
  <2>4. GrayLinked'
    BY <1>1, <1>10, <2>2 DEF GrayLinked
  <2>5. QED
    BY <2>3, <2>4
<1>11. Active' = Active
  BY <1>1 DEF Active
<1>12. \A t \in Active \ {Main} : t \in ref'[caller[t]]
  BY <1>4, CallersRun
<1>13. fnzable' \subseteq Usable' \ {Main}
  BY <1>1, <1>6 DEF ListsAllocated, Usable
<1>14. QED
  BY <1>1, <1>6, <1>7, <1>8, <1>9, <1>10, <1>11, <1>12, <1>13, MutateInv DEF control

LEMMA NewThreadInv == ASSUME IInv, NEW t, NewThread(t) PROVE IInv'
<1> USE ObjectKinds DEF IInv
<1>1. UNCHANGED <<gcstep, whitebit, tosweep, gray, fnzable, tobefnz, full, gckind, trun>>
  BY DEF NewThread, cycle, fnz, control
<1>2. /\ trun \in Object /\ trun \in Usable /\ trun \in Threads /\ trun \notin Strings
      /\ t \in Threads /\ t \in Object /\ t # trun /\ t \notin Usable /\ t \notin Strings
  BY StackUsable, RunningIsThread, KindAssumption DEF NewThread, Usable, Object
<1>3. \A x \in Object : color'[x] = IF x = t THEN whitebit
                                    ELSE IF x = trun /\ IsBlack(x) THEN "gray" ELSE color[x]
  BY <1>2 DEF NewThread, TypeOK
<1>4. \A x \in Object : ref'[x] = IF x = t THEN {}
                                  ELSE IF x = trun THEN ref[x] \cup {t} ELSE ref[x]
  BY <1>2 DEF NewThread, TypeOK
<1>5. color[t] = "free" /\ whitebit \in {"white1", "white2"}
  BY <1>2 DEF NewThread, Alloc, TypeOK, Whites
<1>6. /\ Usable' = Usable \cup {t} /\ Dead' = Dead /\ Alloc' = Alloc \cup {t}
      /\ WhiteSet' = WhiteSet \cup {t} /\ MarkedSet' = MarkedSet
  BY <1>1, <1>2, <1>3, <1>5
  DEF Usable, Alloc, Dead, IsDead, IsBlack, Other, WhiteSet, Whites, MarkedSet
<1>7. TypeOK'
  <2>1. color' \in [Object -> Colors]
    BY <1>5 DEF NewThread, TypeOK, Colors, Whites
  <2>2. ref' \in [Object -> SUBSET Object]
    BY <1>2 DEF NewThread, TypeOK
  <2>3. grayagain' \subseteq Object
    BY <1>2 DEF NewThread, TypeOK
  <2>4. caller' \in [Threads -> Threads \cup {NoThread}]
        /\ status' \in [Threads -> {"run", "yield", "dead"}]
    BY DEF NewThread, TypeOK
  <2>5. QED
    BY <1>1, <2>1, <2>2, <2>3, <2>4 DEF TypeOK
<1>8. StringsHoldNothing'
  BY <1>2, <1>4 DEF StringsHoldNothing, Object
<1>9. \A x \in Usable' : ref'[x] \subseteq Usable'
  <2>1. SUFFICES ASSUME NEW x \in Usable' PROVE ref'[x] \subseteq Usable'
    OBVIOUS
  <2>2. CASE x = t
    BY <1>2, <1>4, <2>2
  <2>3. CASE x # t
    <3>1. x \in Object /\ ref[x] \subseteq Usable /\ ref'[x] \subseteq ref[x] \cup {t}
      BY <1>4, <1>6, <2>3 DEF NoDangling, Usable, Alloc
    <3>2. QED
      BY <1>6, <3>1
  <2>4. QED
    BY <2>2, <2>3
<1>10. ASSUME Coloring PROVE TriColor' /\ GrayLinked'
  <2>1. ~IsBlack(trun)
    BY <1>10 DEF TriColor
  <2>2. grayagain' = grayagain
    BY <2>1 DEF NewThread
  <2>3. ASSUME NEW x \in Object, color'[x] = "black"
        PROVE  x # trun /\ ref'[x] \cap WhiteSet' = {}
    <3>1. x # t /\ IsBlack(x) /\ x # trun /\ ref[x] \cap WhiteSet = {}
      BY <1>3, <1>5, <1>10, <2>1, <2>3 DEF TriColor, IsBlack
    <3>2. ref'[x] = ref[x] /\ t \notin ref[x]
      BY <1>2, <1>4, <3>1, BlackUsable
    <3>3. QED
      BY <1>6, <3>1, <3>2
  <2>4. TriColor'
    BY <1>1, <1>2, <2>3 DEF TriColor, IsBlack
  <2>5. GrayLinked'
    BY <1>1, <1>2, <1>3, <1>5, <1>10, <2>1, <2>2 DEF GrayLinked
  <2>6. QED
    BY <2>4, <2>5
<1>11. t \notin Active
  BY <1>2, ActiveUsable
<1>12. Active' = Active /\ \A u \in Active : caller'[u] = caller[u]
  BY <1>2, <1>11 DEF NewThread, Active, TypeOK
<1>13. \A u \in Active \ {Main} : u \in ref'[caller[u]]
  <2>1. SUFFICES ASSUME NEW u \in Active \ {Main} PROVE u \in ref'[caller[u]]
    OBVIOUS
  <2>2. /\ caller[u] \in Object /\ caller[u] # trun /\ caller[u] # t
        /\ u \in ref[caller[u]]
    BY <1>11, CallersRun
  <2>3. QED
    BY <1>4, <2>2
<1>14. fnzable' \subseteq Usable' \ {Main}
  BY <1>1, <1>6 DEF ListsAllocated, Usable
<1>15. QED
  BY <1>1, <1>6, <1>7, <1>8, <1>9, <1>10, <1>12, <1>13, <1>14, MutateInv DEF control

LEMMA SetFieldInv == ASSUME IInv, NEW o, NEW v, SetField(o, v) PROVE IInv'
<1> USE ObjectKinds DEF IInv
<1> DEFINE hit == IsBlack(o) /\ IsWhite(v)
<1>1. UNCHANGED <<gcstep, whitebit, tosweep, gray, fnzable, tobefnz, full, gckind,
                  trun, caller, status>>
  BY DEF SetField, BarrierBack, cycle, fnz, control, switch
<1>2. /\ o \in Object /\ o \in Usable /\ o \notin Threads /\ o \notin Strings
      /\ v \in Usable /\ v \in Object /\ v \in Stack
      /\ trun \in Object /\ trun \in Threads
  BY StackUsable, RunningIsThread, KindAssumption DEF SetField, Usable, Alloc, Object
<1>3. \A x \in Object : color'[x] = IF x = o /\ hit THEN "gray" ELSE color[x]
  BY <1>2 DEF SetField, BarrierBack, TypeOK
<1>4. \A x \in Object : ref'[x] = IF x = o THEN ref[x] \cup {v} ELSE ref[x]
  BY <1>2 DEF SetField, TypeOK
<1>5. grayagain' = IF hit THEN grayagain \cup {o} ELSE grayagain
  BY DEF SetField, BarrierBack
<1>6. /\ Usable' = Usable /\ Dead' = Dead /\ Alloc' = Alloc
      /\ WhiteSet' = WhiteSet /\ MarkedSet' = MarkedSet
  BY <1>1, <1>2, <1>3
  DEF Usable, Alloc, Dead, IsDead, IsBlack, Other, WhiteSet, Whites, MarkedSet
<1>7. TypeOK'
  <2>1. color' \in [Object -> Colors]
    BY DEF SetField, BarrierBack, TypeOK, Colors
  <2>2. ref' \in [Object -> SUBSET Object]
    BY <1>2 DEF SetField, TypeOK
  <2>3. grayagain' \subseteq Object
    BY <1>2, <1>5 DEF TypeOK
  <2>4. QED
    BY <1>1, <2>1, <2>2, <2>3 DEF TypeOK
<1>8. StringsHoldNothing'
  BY <1>2, <1>4 DEF StringsHoldNothing, Object
<1>9. \A x \in Usable' : ref'[x] \subseteq Usable'
  <2>1. SUFFICES ASSUME NEW x \in Usable' PROVE ref'[x] \subseteq Usable'
    OBVIOUS
  <2>2. x \in Object /\ ref[x] \subseteq Usable /\ ref'[x] \subseteq ref[x] \cup {v}
    BY <1>4, <1>6 DEF NoDangling, Usable, Alloc
  <2>3. QED
    BY <1>2, <1>6, <2>2
<1>10. ASSUME Coloring PROVE TriColor' /\ GrayLinked'
  <2>1. ASSUME NEW x \in Object, color'[x] = "black"
        PROVE  x # trun /\ ref'[x] \cap WhiteSet' = {}
    <3>1. IsBlack(x) /\ x # trun /\ ref[x] \cap WhiteSet = {}
      BY <1>3, <1>10, <2>1 DEF TriColor, IsBlack
    <3>2. x = o => v \notin WhiteSet
      BY <1>3, <2>1, <3>1 DEF IsWhite
    <3>3. ref'[x] \cap WhiteSet = {}
      BY <1>4, <3>1, <3>2
    <3>4. QED
      BY <1>6, <3>1, <3>3
  <2>2. TriColor'
    BY <1>1, <1>2, <2>1 DEF TriColor, IsBlack
  <2>3. hit => o \notin gray
    BY <1>10 DEF GrayLinked, IsBlack
  <2>4. gray' \cap grayagain' = {}
    BY <1>1, <1>5, <1>10, <2>3 DEF GrayLinked
  <2>5. gray' \cup grayagain' = {x \in Object : color'[x] = "gray"}
    BY <1>1, <1>2, <1>3, <1>5, <1>10 DEF GrayLinked
  <2>6. QED
    BY <2>2, <2>4, <2>5 DEF GrayLinked
<1>11. Active' = Active
  BY <1>1 DEF Active
<1>12. \A t \in Active \ {Main} : t \in ref'[caller[t]]
  BY <1>4, CallersRun
<1>13. fnzable' \subseteq Usable' \ {Main}
  BY <1>1, <1>6 DEF ListsAllocated, Usable
<1>14. QED
  BY <1>1, <1>6, <1>7, <1>8, <1>9, <1>10, <1>11, <1>12, <1>13, MutateInv DEF control

(* A new metatable, when the object is not moved out of the swept list.    *)
LEMMA BarrierMetatableInv ==
  ASSUME IInv, NEW o \in Object, o \in Accessible, o \notin Threads, o \notin Strings,
         NEW m \in Stack \cap Tables,
         UNCHANGED <<gcstep, whitebit, tosweep, tobefnz, full, gckind, trun, caller, status>>,
         Barrier(o, m),
         fnzable' = fnzable \/ fnzable' = fnzable \cup {o},
         NEW held \in SUBSET ref[o],
         ref' = [ref EXCEPT ![o] = held \cup {m}]
  PROVE  IInv'
<1> USE ObjectKinds DEF IInv
<1> DEFINE hit == IsBlack(o) /\ IsWhite(m)
<1>1. /\ o \in Usable /\ o # Main /\ m \in Usable /\ m \in Object /\ ~Leaf(m)
      /\ trun \in Object /\ trun \in Threads
  BY StackUsable, RunningIsThread, KindAssumption DEF Leaf, Usable, Alloc
<1>2. \A x \in Object : color'[x] = IF hit /\ Coloring /\ x = m THEN "gray"
                                    ELSE IF hit /\ ~Coloring /\ x = o THEN "gray"
                                    ELSE color[x]
  BY <1>1 DEF Barrier, MarkAll, TypeOK, IsWhite, WhiteSet
<1>3. gray' = (IF hit /\ Coloring THEN gray \cup {m} ELSE gray) /\ grayagain' = grayagain
  BY <1>1 DEF Barrier, MarkAll, IsWhite, WhiteSet
<1>4. \A x \in Object : ref'[x] = IF x = o THEN held \cup {m} ELSE ref[x]
  BY DEF TypeOK
<1>5. /\ Usable' = Usable /\ Dead' = Dead /\ Alloc' = Alloc
      /\ WhiteSet' \subseteq WhiteSet /\ (~Coloring => MarkedSet' = MarkedSet)
  <2>1. CASE ~hit
    BY <1>2, <2>1 DEF Usable, Alloc, Dead, IsDead, WhiteSet, MarkedSet
  <2>2. CASE hit /\ Coloring
    <3>1. Dead = {}
      BY <2>2 DEF DeadAwaitSweep, Coloring
    <3>2. Alloc' = Alloc /\ Dead' = {}
      BY <1>1, <1>2, <2>2, <3>1 DEF Alloc, Dead, IsDead, Other, IsWhite, WhiteSet, Whites
    <3>3. QED
      BY <1>2, <2>2, <3>1, <3>2 DEF Usable, WhiteSet, Whites
  <2>3. CASE hit /\ ~Coloring
    BY <1>2, <2>3
    DEF Usable, Alloc, Dead, IsDead, IsBlack, Other, WhiteSet, Whites, MarkedSet
  <2>4. QED
    BY <2>1, <2>2, <2>3
<1>6. TypeOK'
  <2>1. color' \in [Object -> Colors]
    BY DEF Barrier, MarkAll, TypeOK, Colors
  <2>2. ref' \in [Object -> SUBSET Object]
    BY <1>1 DEF TypeOK
  <2>3. gray' \subseteq Object /\ fnzable' \subseteq Object
    BY <1>1, <1>3 DEF TypeOK
  <2>4. QED
    BY <1>3, <2>1, <2>2, <2>3 DEF TypeOK
<1>7. StringsHoldNothing'
  BY <1>4 DEF StringsHoldNothing, Object
<1>8. \A x \in Usable' : ref'[x] \subseteq Usable'
  <2>1. SUFFICES ASSUME NEW x \in Usable' PROVE ref'[x] \subseteq Usable'
    OBVIOUS
  <2>2. x \in Object /\ ref[x] \subseteq Usable /\ ref'[x] \subseteq ref[x] \cup {m}
    BY <1>4, <1>5 DEF NoDangling, Usable, Alloc
  <2>3. QED
    BY <1>1, <1>5, <2>2
<1>9. ASSUME Coloring PROVE TriColor' /\ GrayLinked' /\ gray \subseteq gray'
  <2>1. ASSUME NEW x \in Object, color'[x] = "black"
        PROVE  x # trun /\ ref'[x] \cap WhiteSet' = {}
    <3>1. IsBlack(x) /\ x # trun /\ ref[x] \cap WhiteSet = {}
      BY <1>2, <1>9, <2>1 DEF TriColor, IsBlack
    <3>2. x = o => m \notin WhiteSet'
      <4>1. CASE hit
        BY <1>1, <1>2, <1>9, <4>1 DEF WhiteSet, Whites
      <4>2. CASE ~hit
        BY <1>5, <3>1, <4>2 DEF IsWhite
      <4>3. QED
        BY <4>1, <4>2
    <3>3. ref'[x] \subseteq ref[x] \cup (IF x = o THEN {m} ELSE {})
      BY <1>4
    <3>4. QED
      BY <1>5, <3>1, <3>2, <3>3
  <2>2. TriColor'
    BY <1>1, <2>1 DEF TriColor, IsBlack
  <2>3. hit => m \notin grayagain
    BY <1>1, <1>9 DEF GrayLinked, IsWhite, WhiteSet, Whites
  <2>4. gray' \cap grayagain' = {}
    BY <1>3, <1>9, <2>3 DEF GrayLinked
  <2>5. gray' \cup grayagain' = {x \in Object : color'[x] = "gray"}
    BY <1>1, <1>2, <1>3, <1>9 DEF GrayLinked
  <2>6. QED
    BY <1>3, <2>2, <2>4, <2>5 DEF GrayLinked
<1>10. Active' = Active
  BY DEF Active
<1>11. \A t \in Active \ {Main} : t \in ref'[caller[t]]
  <2>1. SUFFICES ASSUME NEW t \in Active \ {Main} PROVE t \in ref'[caller[t]]
    OBVIOUS
  <2>2. caller[t] \in Object /\ caller[t] # o /\ t \in ref[caller[t]]
    BY CallersRun
  <2>3. QED
    BY <1>4, <2>2
<1>12. fnzable' \subseteq Usable' \ {Main} /\ fnzable \subseteq fnzable'
  BY <1>1, <1>5 DEF ListsAllocated, Usable
<1>13. QED
  BY <1>5, <1>6, <1>7, <1>8, <1>9, <1>10, <1>11, <1>12, MutateInv DEF control

(* A new metatable with a finalizer, while sweeping: the object leaves the *)
(* list that is swept, white.                                              *)
LEMMA SweptMetatableInv ==
  ASSUME IInv, NEW o \in Object, o \in Accessible, o \notin Threads, o \notin Strings,
         NEW m \in Stack \cap Tables,
         UNCHANGED <<gcstep, whitebit, gray, grayagain, tobefnz, full, gckind,
                     trun, caller, status>>,
         Sweeping, fnzable' = fnzable \cup {o},
         color' = [color EXCEPT ![o] = whitebit], tosweep' = tosweep \ {o},
         NEW held \in SUBSET ref[o],
         ref' = [ref EXCEPT ![o] = held \cup {m}]
  PROVE  IInv'
<1> USE ObjectKinds DEF IInv
<1>1. o \in Usable /\ o # Main /\ m \in Usable /\ m \in Object /\ ~Coloring
  BY StackUsable, KindAssumption DEF Usable, Alloc, Sweeping, Coloring
<1>2. \A x \in Object : color'[x] = IF x = o THEN whitebit ELSE color[x]
  BY DEF TypeOK
<1>3. \A x \in Object : ref'[x] = IF x = o THEN held \cup {m} ELSE ref[x]
  BY DEF TypeOK
<1>4. whitebit \in {"white1", "white2"}
  BY DEF TypeOK, Whites
<1>5. /\ Usable' = Usable /\ Dead' = Dead /\ Alloc' = Alloc /\ o \notin Dead
      /\ MarkedSet' = MarkedSet \ {o}
  BY <1>1, <1>2, <1>4 DEF Usable, Alloc, Dead, IsDead, Other, MarkedSet
<1>6. TypeOK'
  <2>1. color' \in [Object -> Colors]
    BY <1>4 DEF TypeOK, Colors, Whites
  <2>2. ref' \in [Object -> SUBSET Object]
    BY <1>1 DEF TypeOK
  <2>3. QED
    BY <2>1, <2>2 DEF TypeOK
<1>7. StringsHoldNothing'
  BY <1>3 DEF StringsHoldNothing, Object
<1>8. \A x \in Usable' : ref'[x] \subseteq Usable'
  <2>1. SUFFICES ASSUME NEW x \in Usable' PROVE ref'[x] \subseteq Usable'
    OBVIOUS
  <2>2. x \in Object /\ ref[x] \subseteq Usable /\ ref'[x] \subseteq ref[x] \cup {m}
    BY <1>3, <1>5 DEF NoDangling, Usable, Alloc
  <2>3. QED
    BY <1>1, <1>5, <2>2
<1>9. Active' = Active
  BY DEF Active
<1>10. \A t \in Active \ {Main} : t \in ref'[caller[t]]
  <2>1. SUFFICES ASSUME NEW t \in Active \ {Main} PROVE t \in ref'[caller[t]]
    OBVIOUS
  <2>2. caller[t] \in Object /\ caller[t] # o /\ t \in ref[caller[t]]
    BY CallersRun
  <2>3. QED
    BY <1>3, <2>2
<1>11. fnzable' \subseteq Usable' \ {Main}
  BY <1>1, <1>5 DEF ListsAllocated, Usable
<1>12. (Dead' \cup MarkedSet') \cap tosweep \subseteq tosweep'
  BY <1>5
<1>13. QED
  BY <1>1, <1>5, <1>6, <1>7, <1>8, <1>9, <1>10, <1>11, <1>12, MutateInv DEF control

LEMMA SetMetatableInv ==
  ASSUME IInv, NEW o, NEW m, NEW del, SetMetatable(o, m, del) PROVE IInv'
<1> DEFINE held == IF o \in Raws THEN {} ELSE ref[o]
<1>1. /\ o \in Object /\ o \in Accessible /\ o \notin Threads /\ o \notin Strings
      /\ m \in Stack \cap Tables
  BY KindAssumption DEF SetMetatable, Object
<1>2. held \in SUBSET ref[o] /\ ref' = [ref EXCEPT ![o] = held \cup {m}]
  BY DEF SetMetatable
<1>3. UNCHANGED <<gcstep, whitebit, tobefnz, full, gckind, trun, caller, status>>
  BY DEF SetMetatable, control, switch
<1>4. CASE del /\ o \notin fnzable \cup tobefnz /\ Sweeping
  <2>1. /\ color' = [color EXCEPT ![o] = whitebit] /\ tosweep' = tosweep \ {o}
        /\ UNCHANGED <<gray, grayagain>> /\ fnzable' = fnzable \cup {o} /\ Sweeping
    BY <1>4 DEF SetMetatable
  <2>2. QED
    BY <1>1, <1>2, <1>3, <2>1, SweptMetatableInv
<1>5. CASE ~(del /\ o \notin fnzable \cup tobefnz /\ Sweeping)
  <2>1. /\ Barrier(o, m) /\ UNCHANGED tosweep
        /\ (fnzable' = fnzable \/ fnzable' = fnzable \cup {o})
    BY <1>5 DEF SetMetatable
  <2>2. QED
    BY <1>1, <1>2, <1>3, <2>1, BarrierMetatableInv
<1>6. QED
  BY <1>4, <1>5

-----------------------------------------------------------------------------
(* Finalizers and the switches between threads preserve the invariant.     *)

LEMMA CallFinInv == IInv /\ CallFin /\ FullAdvance => IInv'
<1> SUFFICES ASSUME IInv, CallFin, FullAdvance PROVE IInv'
  OBVIOUS
<1> USE ObjectKinds DEF IInv
<1>1. /\ UNCHANGED <<whitebit, tosweep, color, gray, grayagain, fnzable, trun, caller, status>>
      /\ gcstep = "CallFin" /\ gcstep' \in {"CallFin", "Pause"}
      /\ tobefnz' \subseteq tobefnz
  BY DEF CallFin, CallFinalizer, marks, switch
<1>2. trun \in Object /\ trun \in Threads /\ trun \notin Strings
  BY RunningIsThread
<1>3. PICK new \in SUBSET Usable : ref' = [ref EXCEPT ![trun] = @ \cup new]
  <2>1. CASE tobefnz # {} /\ gckind = "Normal"
    <3>1. PICK o \in tobefnz : CallFinalizer(o)
      BY <2>1 DEF CallFin
    <3>2. o \in Usable
      BY DEF ListsAllocated, Usable
    <3>3. ref' = [ref EXCEPT ![trun] = @ \cup {o}] \/ ref' = [ref EXCEPT ![trun] = @ \cup {}]
      BY <1>2, <3>1 DEF CallFinalizer, TypeOK
    <3>4. QED
      BY <3>2, <3>3
  <2>2. CASE ~(tobefnz # {} /\ gckind = "Normal")
    <3>1. ref' = ref
      BY <2>2 DEF CallFin
    <3>2. ref' = [ref EXCEPT ![trun] = @ \cup {}]
      BY <1>2, <3>1 DEF TypeOK
    <3>3. QED
      BY <3>2
  <2>3. QED
    BY <2>1, <2>2
<1>4. \A x \in Object : ref'[x] = IF x = trun THEN ref[x] \cup new ELSE ref[x]
  BY <1>3 DEF TypeOK
<1>5. Usable' = Usable /\ Dead' = Dead /\ Alloc' = Alloc /\ MarkedSet' = MarkedSet
  BY <1>1 DEF Usable, Alloc, Dead, IsDead, MarkedSet
<1>6. TypeOK'
  <2>1. new \subseteq Object
    BY DEF Usable, Alloc
  <2>2. ref' \in [Object -> SUBSET Object]
    BY <1>2, <1>3, <2>1 DEF TypeOK
  <2>3. QED
    BY <1>1, <2>2 DEF TypeOK, Steps, FullAdvance, GctillEnds
<1>7. StringsHoldNothing'
  BY <1>2, <1>4 DEF StringsHoldNothing, Object
<1>8. ListsAllocated'
  BY <1>1, <1>5 DEF ListsAllocated
<1>9. NoDangling'
  <2>1. ASSUME NEW x \in Usable PROVE ref'[x] \subseteq Usable
    <3>1. x \in Object /\ ref[x] \subseteq Usable
      BY DEF NoDangling, Usable, Alloc
    <3>2. ref'[x] \subseteq ref[x] \cup new
      BY <1>4, <3>1
    <3>3. QED
      BY <3>1, <3>2
  <2>2. QED
    BY <1>1, <1>5, <2>1 DEF NoDangling, Usable
<1>10. TriColor' /\ GrayLinked' /\ PropagateHasGray'
  BY <1>1 DEF TriColor, GrayLinked, PropagateHasGray, Coloring
<1>11. DeadAwaitSweep' /\ MarkedAwaitSweep'
  BY <1>1, <1>5 DEF DeadAwaitSweep, MarkedAwaitSweep
<1>12. ActiveChain'
  <2>1. \A t \in Active \ {Main} : t \in ref'[caller[t]]
    BY <1>4, CallersRun
  <2>2. QED
    BY <1>1, <2>1 DEF ActiveChain, Active
<1>13. QED
  BY <1>6, <1>7, <1>8, <1>9, <1>10, <1>11, <1>12

(* A switch to a thread that is not traversed yet keeps everything but the *)
(* chain of active threads.                                                *)
LEMMA SwitchInv ==
  ASSUME IInv, UNCHANGED <<cycle, marks, ref, fnz, control>>,
         NEW t \in Usable \cap Threads, trun' = t, ~HidesStack(t),
         caller' \in [Threads -> Threads \cup {NoThread}],
         status' \in [Threads -> {"run", "yield", "dead"}],
         ActiveChain'
  PROVE  IInv'
<1> USE DEF IInv, cycle, marks, fnz, control
<1>1. TypeOK'
  BY DEF TypeOK
<1>2. StringsHoldNothing' /\ ListsAllocated' /\ NoDangling'
  BY DEF StringsHoldNothing, ListsAllocated, NoDangling, Usable, Alloc, Dead, IsDead
<1>3. TriColor'
  BY DEF TriColor, IsBlack, WhiteSet, Coloring, HidesStack
<1>4. GrayLinked' /\ PropagateHasGray'
  BY DEF GrayLinked, PropagateHasGray, Coloring
<1>5. DeadAwaitSweep' /\ MarkedAwaitSweep'
  BY DEF DeadAwaitSweep, MarkedAwaitSweep, MarkedSet, Dead, IsDead
<1>6. QED
  BY <1>1, <1>2, <1>3, <1>4, <1>5

LEMMA ResumeInv == ASSUME IInv, NEW t \in Threads, ~HidesStack(t), Resume(t) PROVE IInv'
<1> USE ObjectKinds DEF IInv
<1>1. /\ UNCHANGED <<cycle, marks, ref, fnz, control>> /\ trun' = t
      /\ t \in Usable /\ t \in ref[trun] /\ t \notin Active /\ trun \in Threads
      /\ Main \in Active /\ trun \in Active
  BY StackUsable DEF Resume, Stack, Active, TypeOK, ActiveChain
<1>2. /\ caller' \in [Threads -> Threads \cup {NoThread}]
      /\ status' \in [Threads -> {"run", "yield", "dead"}]
  BY <1>1 DEF Resume, TypeOK
<1>3. Active' = Active \cup {t}
  BY DEF Resume, Active, TypeOK
<1>4. \A u \in Threads : caller'[u] = IF u = t THEN trun ELSE caller[u]
  BY DEF Resume, TypeOK
<1>5. ActiveChain'
  <2>1. ASSUME NEW u \in Active' \ {Main}
        PROVE  caller'[u] \in Active' \ {trun'} /\ u \in ref'[caller'[u]]
    <3>1. CASE u = t
      BY <1>1, <1>3, <1>4, <3>1
    <3>2. CASE u # t
      <4>1. u \in Active \ {Main} /\ u \in Threads
        BY <1>3, <3>2 DEF Active
      <4>2. caller[u] \in Active /\ u \in ref[caller[u]] /\ caller'[u] = caller[u]
        BY <1>4, <3>2, <4>1, CallersRun
      <4>3. QED
        BY <1>1, <1>3, <4>2
    <3>3. QED
      BY <3>1, <3>2
  <2>2. ASSUME NEW s \in Active' \ {Main}, NEW u \in Active' \ {Main},
               caller'[s] = caller'[u]
        PROVE  s = u
    <3>1. s \in Threads /\ u \in Threads
      BY <1>3 DEF Active
    <3>2. \A x \in Active \ {Main} : caller[x] # trun
      BY CallersRun
    <3>3. QED
      BY <1>3, <1>4, <2>2, <3>1, <3>2 DEF ActiveChain
  <2>3. ASSUME NEW S \in SUBSET Object, Main \in S,
               \A u \in Active' \ {Main} : caller'[u] \in S => u \in S
        PROVE  Active' \subseteq S
    <3>1. \A u \in Active \ {Main} : caller[u] \in S => u \in S
      <4>1. SUFFICES ASSUME NEW u \in Active \ {Main}, caller[u] \in S PROVE u \in S
        OBVIOUS
      <4>2. u \in Threads /\ u # t /\ u \in Active' \ {Main}
        BY <1>1, <1>3 DEF Active
      <4>3. QED
        BY <1>4, <2>3, <4>1, <4>2
    <3>2. Active \subseteq S
      BY <2>3, <3>1 DEF ActiveChain
    <3>3. t \in S
      BY <1>1, <1>3, <1>4, <2>3, <3>2
    <3>4. QED
      BY <1>3, <3>2, <3>3
  <2>4. {Main, trun'} \subseteq Active'
    BY <1>1, <1>3
  <2>5. QED
    BY <2>1, <2>2, <2>3, <2>4 DEF ActiveChain
<1>6. QED
  BY <1>1, <1>2, <1>5, SwitchInv

(* Control goes back to the caller of the running thread. *)
LEMMA ReturnInv ==
  ASSUME IInv, UNCHANGED <<cycle, marks, ref, fnz, control>>,
         trun # Main, trun' = caller[trun], ~HidesStack(caller[trun]),
         caller' \in [Threads -> Threads \cup {NoThread}],
         status' \in [Threads -> {"run", "yield", "dead"}],
         Active' = Active \ {trun},
         \A t \in Active \ {trun} : caller'[t] = caller[t]
  PROVE  IInv'
<1> USE ObjectKinds DEF IInv
<1>1. trun \in Active \ {Main} /\ Main \in Active
  BY DEF ActiveChain
<1>2. /\ caller[trun] \in Active \ {trun} /\ caller[trun] \in Threads
      /\ caller[trun] \in Usable
  BY <1>1, CallersRun, ActiveUsable
<1>3. ActiveChain'
  <2>1. ASSUME NEW u \in Active' \ {Main}
        PROVE  caller'[u] \in Active' \ {trun'} /\ u \in ref'[caller'[u]]
    <3>1. u \in Active \ {Main} /\ u # trun /\ caller'[u] = caller[u]
      OBVIOUS
    <3>2. caller[u] \in Active /\ caller[u] # trun /\ u \in ref[caller[u]]
      BY <3>1, CallersRun
    <3>3. caller[u] # caller[trun]
      BY <1>1, <3>1 DEF ActiveChain
    <3>4. QED
      BY <3>1, <3>2, <3>3
  <2>2. ASSUME NEW s \in Active' \ {Main}, NEW u \in Active' \ {Main},
               caller'[s] = caller'[u]
        PROVE  s = u
    BY <2>2 DEF ActiveChain
  <2>3. ASSUME NEW S \in SUBSET Object, Main \in S,
               \A u \in Active' \ {Main} : caller'[u] \in S => u \in S
        PROVE  Active' \subseteq S
    <3>1. S \cup {trun} \in SUBSET Object
      BY RunningIsThread
    <3>2. \A u \in Active \ {Main} : caller[u] \in S \cup {trun} => u \in S \cup {trun}
      BY <2>3, CallersRun
    <3>3. Active \subseteq S \cup {trun}
      BY <2>3, <3>1, <3>2 DEF ActiveChain
    <3>4. QED
      BY <3>3
  <2>4. {Main, trun'} \subseteq Active'
    BY <1>1, <1>2
  <2>5. QED
    BY <2>1, <2>2, <2>3, <2>4 DEF ActiveChain
<1>4. QED
  BY <1>2, <1>3, SwitchInv

LEMMA YieldInv ==
  ASSUME IInv, trun # Main, ~HidesStack(caller[trun]), Yield \/ Finish PROVE IInv'
<1> USE DEF IInv
<1>1. UNCHANGED <<cycle, marks, ref, fnz, control>> /\ trun' = caller[trun]
  BY DEF Yield, Finish
<1>2. /\ caller' \in [Threads -> Threads \cup {NoThread}]
      /\ status' \in [Threads -> {"run", "yield", "dead"}]
  BY DEF Yield, Finish, TypeOK
<1>3. Active' = Active \ {trun} /\ \A t \in Active \ {trun} : caller'[t] = caller[t]
  BY DEF Yield, Finish, TypeOK, Active
<1>4. QED
  BY <1>1, <1>2, <1>3, ReturnInv

-----------------------------------------------------------------------------
(* The invariant is inductive.                                             *)

LEMMA BarrieredInv == IInv /\ Barriered => IInv'
<1> SUFFICES ASSUME IInv, Barriered PROVE IInv'
  OBVIOUS
<1>1. ASSUME NEW o \in Object, NEW init \in SUBSET Stack, New(o, init) PROVE IInv'
  BY <1>1, NewInv
<1>2. ASSUME NEW t \in Threads, NewThread(t) PROVE IInv'
  BY <1>2, NewThreadInv
<1>3. ASSUME NEW s \in Strings, InternString(s) PROVE IInv'
  BY <1>3, InternStringInv
<1>4. ASSUME NEW o \in Object, NEW v \in Object,
             Load(o, v) \/ SetField(o, v) \/ RemoveField(o, v) \/ XMoveFrom(o, v)
      PROVE  IInv'
  BY <1>4, LoadInv, SetFieldInv, RemoveFieldInv, XMoveFromInv
<1>5. ASSUME NEW v \in Object, Pop(v) PROVE IInv'
  BY <1>5, PopInv
<1>6. ASSUME NEW o \in Object, NEW m \in Object, NEW del \in Finalizers,
             SetMetatable(o, m, del)
      PROVE  IInv'
  BY <1>6, SetMetatableInv
<1>7. QED
  BY <1>1, <1>2, <1>3, <1>4, <1>5, <1>6 DEF Barriered

LEMMA CollectorInv == IInv /\ Collector => IInv'
<1>1. IInv /\ GCStep => IInv'
  BY GCBeginInv, PropagateInv, AtomicInv, SweepStepInv, CallFinInv DEF GCStep
<1>2. QED
  BY <1>1, FullGCInv DEF Collector

LEMMA NextInv == IInv /\ [SafeNext]_vars => IInv'
<1> SUFFICES ASSUME IInv, [SafeNext]_vars PROVE IInv'
  OBVIOUS
<1>1. CASE Collector
  BY <1>1, CollectorInv
<1>2. CASE Barriered
  BY <1>2, BarrieredInv
<1>3. ASSUME NEW o \in Object, NEW v \in Object, ~Hides(o, v),
             ListAdd(o, v) \/ CaptureStore(o, v) \/ CloseCapture(o, v) \/ XMoveTo(o, v)
      PROVE  IInv'
  BY <1>3, ListAddInv, CaptureStoreInv, CloseCaptureInv, XMoveToInv
<1>4. ASSUME NEW t \in Threads, ~HidesStack(t), Resume(t) PROVE IInv'
  BY <1>4, ResumeInv
<1>5. ASSUME trun # Main, ~HidesStack(caller[trun]), Yield \/ Finish PROVE IInv'
  BY <1>5, YieldInv
<1>6. CASE UNCHANGED vars
  <2>1. UNCHANGED <<cycle, marks, ref, fnz, control, switch>>
    BY <1>6 DEF vars
  <2>2. /\ ref' \in [Object -> SUBSET Object]
        /\ \A s \in Strings : ref'[s] = {}
        /\ \A o \in Usable : ref'[o] \subseteq Usable
        /\ Coloring => \A o \in Object : IsBlack(o) => ref'[o] \cap WhiteSet = {}
        /\ \A t \in Active \ {Main} : t \in ref'[caller[t]]
    BY <2>1, CallersRun
    DEF IInv, TypeOK, StringsHoldNothing, NoDangling, Usable, TriColor
  <2>3. QED
    BY <2>1, <2>2, RewireInv
<1>7. QED
  BY <1>1, <1>2, <1>3, <1>4, <1>5, <1>6 DEF SafeNext

THEOREM Inductive == SafeSpec => []IInv
<1>1. QED
  BY InitInv, NextInv, PTL DEF SafeSpec

-----------------------------------------------------------------------------
(* What follows from it.  SafeSpec leaves out only the unbarriered stores  *)
(* and switches that hide something white behind something traversed.      *)

(* agc.c: the marks, lists, phases and threads keep their types. *)
THEOREM TypeCorrect == SafeSpec => []TypeOK
<1>1. IInv => TypeOK
  BY DEF IInv
<1>2. QED
  BY <1>1, Inductive, PTL

(* agc.c, gcatomic: nothing the program can reach is ever condemned or     *)
(* freed, however the collector and the program interleave.                *)
THEOREM NothingLiveDies == SafeSpec => []ReachableNotDead
<1>1. IInv => ReachableNotDead
  BY SafeReachable DEF IInv
<1>2. QED
  BY <1>1, Inductive, PTL

(* aobj.h, checklive: an object that is not condemned refers only to       *)
(* objects that are not.                                                   *)
THEOREM NoReferenceDangles == SafeSpec => []NoDangling
<1>1. IInv => NoDangling
  BY DEF IInv
<1>2. QED
  BY <1>1, Inductive, PTL

(* agc.h, the barriers: while marking, nothing traversed refers to         *)
(* something unmarked.                                                     *)
THEOREM TriColorKept == SafeSpec => []TriColor
<1>1. IInv => TriColor
  BY DEF IInv
<1>2. QED
  BY <1>1, Inductive, PTL

(* agc.c, propagate: it never takes an object off an empty gray list, and  *)
(* no object is in two of the lists that share gclist.                     *)
THEOREM GrayListsSound == SafeSpec => [](GrayLinked /\ PropagateHasGray)
<1>1. IInv => GrayLinked /\ PropagateHasGray
  BY DEF IInv
<1>2. QED
  BY <1>1, Inductive, PTL

-----------------------------------------------------------------------------
(* A full collection leaves no garbage.                                    *)
(*                                                                         *)
(* An emergency collection runs without the program in between.  From the  *)
(* third gctill on, which begins with a new cycle, an object that is       *)
(* marked, and after the atomic step one that is not condemned, is reached *)
(* from the roots through objects of which that is true as well.           *)

KeptSeeds == {Main, Registry, trun} \cup tobefnz
Found(U) == U \subseteq ReachVia(Object, AtomicEdges, KeptSeeds, U)

FullInv ==
  gckind = "Emergency" =>
    /\ full # 0
    /\ full = 2 => gcstep = "Pause"
    /\ full = 3 => gcstep \notin {"CallFin", "Pause"}
    /\ full = 4 => gcstep = "CallFin"
    /\ full = 3 /\ Coloring => Found(MarkedSet)
    /\ (full = 3 /\ Sweeping) \/ full = 4 => Found(Usable)

(* A traversal goes through the same objects as long as the edges that     *)
(* leave them are the same.                                                *)
LEMMA ReachSame ==
  ASSUME NEW N, NEW e, NEW f, NEW R, NEW U,
         R \subseteq U, U \subseteq N, \A x \in U : f[x] = e[x]
  PROVE  ReachVia(N, e, R, U) \subseteq ReachVia(N, f, R, U)
<1> DEFINE S == ReachVia(N, f, R, U) \cap U
<1>1. R \subseteq S /\ S \subseteq N
  BY ReachSeeds
<1>2. ClosedUnder(S, e, U)
  <2>1. ClosedUnder(ReachVia(N, f, R, U), f, U)
    BY ReachClosed
  <2>2. QED
    BY <2>1 DEF ClosedUnder
<1>3. QED
  <2> HIDE DEF S
  <2>1. ReachVia(N, e, R, U) \subseteq S
    BY <1>1, <1>2, ReachLeast
  <2>2. QED
    BY <2>1 DEF S

(* A traversal from more objects, or through more, reaches more.           *)
LEMMA ReachMore ==
  ASSUME NEW N, NEW e, NEW R, NEW Q, NEW U, NEW V,
         R \subseteq Q, U \subseteq V, V \subseteq N, Q \subseteq N
  PROVE  ReachVia(N, e, R, U) \subseteq ReachVia(N, e, Q, V)
<1>1. Q \subseteq ReachVia(N, e, Q, V) /\ ReachVia(N, e, Q, V) \subseteq N
  BY ReachSeeds, ReachNodes
<1>2. ClosedUnder(ReachVia(N, e, Q, V), e, V)
  BY ReachClosed
<1>3. ClosedUnder(ReachVia(N, e, Q, V), e, U)
  BY <1>2 DEF ClosedUnder
<1>4. R \subseteq ReachVia(N, e, Q, V)
  BY <1>1
<1>5. QED
  BY <1>1, <1>3, <1>4, ReachLeast

(* The seeds are allocated and not condemned.                              *)
LEMMA SeedsUsable == ASSUME IInv PROVE KeptSeeds \subseteq Usable /\ Usable \subseteq Object
BY DEF IInv, NoDangling, ListsAllocated, KeptSeeds, Usable, Alloc

(* Marking begins at the roots.                                            *)
LEMMA BeginFound == ASSUME IInv, GCBegin PROVE Found(MarkedSet)'
<1>1. MarkedSet' = {Main, Registry}
  <2>1. MarkedSet \subseteq {Main}
    BY DEF IInv, GCBegin, MarkedAwaitSweep
  <2>2. QED
    BY <2>1, ObjectKinds DEF IInv, GCBegin, MarkedSet, TypeOK, Whites, Colors
<1>2. {Main, Registry} \subseteq KeptSeeds' /\ KeptSeeds' \subseteq Object
  BY SeedsUsable DEF GCBegin, fnz, switch, KeptSeeds
<1>3. QED
  BY <1>1, <1>2, ReachSeeds DEF Found

(* What propagate marks, a marked object refers to.                        *)
LEMMA PropagateFound == ASSUME IInv, Propagate, Found(MarkedSet) PROVE Found(MarkedSet)'
<1>1. PICK g \in gray :
        MarkAll(ref[g], [color EXCEPT ![g] = IF g = trun THEN "gray" ELSE "black"], gray \ {g})
  BY DEF Propagate
<1>2. g \in Object /\ color[g] = "gray"
  BY DEF IInv, Propagate, GrayLinked, Coloring, TypeOK
<1>3. UNCHANGED <<ref, tobefnz, trun, caller>>
  BY DEF Propagate, fnz, switch
<1>4. AtomicEdges' = AtomicEdges /\ KeptSeeds' = KeptSeeds
  BY <1>3 DEF AtomicEdges, KeptSeeds
<1>5. /\ MarkedSet \subseteq MarkedSet' /\ MarkedSet' \subseteq MarkedSet \cup ref[g]
      /\ MarkedSet' \subseteq Object /\ g \in MarkedSet
  BY <1>1, <1>2 DEF IInv, TypeOK, MarkAll, MarkedSet, Whites
<1>6. PICK R : R = ReachVia(Object, AtomicEdges, KeptSeeds, MarkedSet')
  OBVIOUS
<1>7. MarkedSet \subseteq R
  <2>1. KeptSeeds \subseteq Object
    BY SeedsUsable
  <2>2. ReachVia(Object, AtomicEdges, KeptSeeds, MarkedSet) \subseteq R
    BY <1>5, <1>6, <2>1, ReachMore
  <2>3. QED
    BY <2>2 DEF Found
<1>8. AtomicEdges[g] \cap MarkedSet' \subseteq R
  <2>1. ClosedUnder(R, AtomicEdges, MarkedSet')
    BY <1>5, <1>6, ReachClosed
  <2>2. QED
    BY <1>5, <1>7, <2>1 DEF ClosedUnder
<1>9. ref[g] \subseteq AtomicEdges[g]
  BY <1>2 DEF AtomicEdges
<1>10. MarkedSet' \subseteq R
  BY <1>5, <1>7, <1>8, <1>9
<1>11. QED
  BY <1>4, <1>6, <1>10 DEF Found

(* gcatomic marks what is reached from the gray lists, the roots and the   *)
(* objects that get their finalizer, and condemns all others.              *)
LEMMA AtomicFound == ASSUME IInv, IInv', Atomic, Found(MarkedSet) PROVE Found(Usable)'
<1> DEFINE col == [o \in Object |-> IF o \notin Marked THEN color[o]
                                    ELSE IF o = trun THEN "gray" ELSE "black"]
<1>1. /\ gcstep = "Atomic" /\ tobefnz' = tobefnz \cup Unreached
      /\ whitebit' = Other(whitebit) /\ UNCHANGED <<trun, caller>>
  BY DEF Atomic, switch
<1>2. PICK S \in SUBSET Normal : SweepObjects(S, col, whitebit')
  BY DEF Atomic, SweepStart, AtMost
<1>3. Dead = {}
  BY <1>1 DEF IInv, DeadAwaitSweep
<1>4. WhiteSet \subseteq Object /\ Marked \subseteq Object /\ Strong \subseteq Object
      /\ MarkedSet \subseteq Object
  BY ReachNodes DEF WhiteSet, Marked, Strong, MarkedSet
<1>5. /\ Usable' \subseteq MarkedSet \cup Marked
      /\ \A o \in Usable' : ref'[o] = ref[o]
  <2>1. SUFFICES ASSUME NEW o \in Usable'
                 PROVE  o \in MarkedSet \cup Marked /\ ref'[o] = ref[o]
    OBVIOUS
  <2>2. whitebit \in Whites /\ color[o] \in Colors /\ o \in Object /\ color'[o] # "free"
        /\ color'[o] # whitebit
    BY <1>1, <2>1 DEF IInv, TypeOK, Usable, Alloc, Dead, IsDead, Other, Whites
  <2>3. ref'[o] = ref[o]
    BY <1>2, <2>2 DEF SweepObjects, IInv, TypeOK
  <2>4. CASE o \notin Marked
    <3>1. color[o] # whitebit
      <4>1. ASSUME color[o] = whitebit PROVE FALSE
        <5>1. col[o] = Other(whitebit')
          BY <1>1, <2>2, <2>4, <4>1 DEF Other, Whites
        <5>2. QED
          BY <1>2, <2>2, <2>4, <4>1, <5>1 DEF SweepObjects
      <4>2. QED
        BY <4>1
    <3>2. color[o] # Other(whitebit)
      BY <1>3, <2>2 DEF Dead, IsDead
    <3>3. color[o] # "free"
      <4>1. ASSUME color[o] = "free" PROVE FALSE
        <5>1. o \notin S
          BY <4>1 DEF Normal, Alloc
        <5>2. QED
          BY <1>2, <2>2, <2>4, <4>1, <5>1 DEF SweepObjects
      <4>2. QED
        BY <4>1
    <3>4. QED
      BY <2>2, <2>3, <3>1, <3>2, <3>3 DEF MarkedSet, Colors, Whites, Other
  <2>5. QED
    BY <2>3, <2>4
<1>6. PICK K : K = MarkedSet \cup Marked
  OBVIOUS
<1>17. K \subseteq Usable'
  <2>1. SUFFICES ASSUME NEW o \in K PROVE o \in Usable'
    OBVIOUS
  <2>2. o \in Object /\ col[o] \in {"gray", "black"} /\ whitebit' \in Whites
    BY <1>1, <1>4, <1>6 DEF MarkedSet, IInv, TypeOK
  <2>3. color'[o] \in {"gray", "black", whitebit'}
    <3> HIDE DEF col
    <3>1. QED
      BY <1>2, <2>2 DEF SweepObjects, Other, Whites
  <2>4. QED
    BY <2>2, <2>3 DEF Usable, Alloc, Dead, IsDead, Other, Whites
<1>7. PICK Q : Q = KeptSeeds'
  OBVIOUS
<1>8. PICK R : R = ReachVia(Object, AtomicEdges, Q, K)
  OBVIOUS
<1>9. KeptSeeds \subseteq Q /\ Q \subseteq Usable' /\ K \subseteq Object /\ Usable' \subseteq Object
      /\ Unreached \subseteq Q /\ tobefnz \subseteq Q
  <2>1. KeptSeeds \subseteq Q /\ Unreached \subseteq Q /\ tobefnz \subseteq Q
    BY <1>1, <1>7 DEF KeptSeeds
  <2>2. Q \subseteq Usable' /\ Usable' \subseteq Object
    BY <1>7 DEF IInv, NoDangling, ListsAllocated, KeptSeeds, Usable, Alloc
  <2>3. QED
    BY <1>4, <1>6, <2>1, <2>2
<1>10. Q \subseteq R /\ ClosedUnder(R, AtomicEdges, K) /\ R \subseteq Object
  BY <1>8, <1>9, ReachSeeds, ReachClosed, ReachNodes
<1>11. MarkedSet \subseteq R
  <2>1. MarkedSet \subseteq K /\ KeptSeeds \subseteq Q /\ Q \subseteq Object
    BY <1>6, <1>9
  <2>2. ReachVia(Object, AtomicEdges, KeptSeeds, MarkedSet) \subseteq R
    BY <1>8, <1>9, <2>1, ReachMore
  <2>3. QED
    BY <2>2 DEF Found
<1>12. Strong \subseteq Marked /\ WhiteSet \cap (tobefnz \cup Unreached) \subseteq Marked
  BY <1>4, ReachSeeds DEF Marked
<1>13. Strong \subseteq R
  <2> DEFINE X == R \cap Strong
  <2>1. AtomicSeeds \subseteq X
    <3>1. AtomicSeeds \subseteq Object
      BY DEF IInv, AtomicSeeds, TypeOK, WhiteSet
    <3>2. AtomicSeeds \subseteq Strong
      BY <1>4, <3>1, ReachSeeds DEF Strong
    <3>3. gray \cup grayagain \subseteq MarkedSet
      BY <1>1 DEF IInv, GrayLinked, Coloring, MarkedSet
    <3>4. {trun, Main, Registry} \subseteq Q
      BY <1>9 DEF KeptSeeds
    <3>5. QED
      BY <1>10, <1>11, <3>2, <3>3, <3>4 DEF AtomicSeeds
  <2>2. ClosedUnder(X, AtomicEdges, WhiteSet)
    <3>1. ClosedUnder(Strong, AtomicEdges, WhiteSet)
      BY <1>4, ReachClosed DEF Strong
    <3>2. QED
      BY <1>6, <1>10, <1>12, <3>1 DEF ClosedUnder
  <2>3. X \subseteq Object
    BY <1>4
  <2> HIDE DEF X
  <2>4. Strong \subseteq X
    BY <2>1, <2>2, <2>3, ReachLeast DEF Strong
  <2>5. QED
    BY <2>4 DEF X
<1>14. Marked \subseteq R
  <2> DEFINE X == R \cap Marked
  <2>1. Strong \cup (WhiteSet \cap (tobefnz \cup Unreached)) \subseteq X
    BY <1>9, <1>10, <1>12, <1>13
  <2>2. ClosedUnder(X, AtomicEdges, WhiteSet)
    <3>1. ClosedUnder(Marked, AtomicEdges, WhiteSet)
      BY <1>4, ReachClosed DEF Marked
    <3>2. QED
      BY <1>6, <1>10, <3>1 DEF ClosedUnder
  <2>3. X \subseteq Object
    BY <1>4
  <2> HIDE DEF X
  <2>4. Marked \subseteq X
    BY <2>1, <2>2, <2>3, ReachLeast DEF Marked
  <2>5. QED
    BY <2>4 DEF X
<1>15. K \subseteq R
  BY <1>6, <1>11, <1>14
<1>16. Found(Usable)'
  <2>1. K = Usable'
    BY <1>5, <1>6, <1>17
  <2>2. \A x \in K : AtomicEdges'[x] = AtomicEdges[x]
    BY <1>1, <1>5, <1>9, <2>1 DEF AtomicEdges
  <2>3. R \subseteq ReachVia(Object, AtomicEdges', Q, K)
    BY <1>8, <1>9, <2>1, <2>2, ReachSame
  <2>4. QED
    BY <1>7, <1>15, <2>1, <2>3 DEF Found
<1>18. QED
  BY <1>16

(* The sweep frees what is condemned and touches nothing else.             *)
LEMMA SweepFound ==
  ASSUME IInv, NEW S \in SUBSET Alloc, SweepObjects(S, color, whitebit),
         UNCHANGED <<whitebit, tobefnz, trun, caller>>, Found(Usable)
  PROVE  Found(Usable)'
<1>1. Usable' = Usable /\ \A o \in Usable : ref'[o] = ref[o]
  BY SweepKeeps DEF IInv
<1>2. KeptSeeds' = KeptSeeds /\ KeptSeeds \subseteq Usable /\ Usable \subseteq Object
  BY SeedsUsable DEF KeptSeeds
<1>3. \A x \in Usable : AtomicEdges'[x] = AtomicEdges[x]
  BY <1>1, <1>2 DEF AtomicEdges
<1>4. ReachVia(Object, AtomicEdges, KeptSeeds, Usable)
        \subseteq ReachVia(Object, AtomicEdges', KeptSeeds, Usable)
  BY <1>2, <1>3, ReachSame
<1>5. QED
  BY <1>1, <1>2, <1>4 DEF Found

(* Nothing is an emergency at first, and every step of the collector and   *)
(* of the program keeps FullInv.                                           *)
LEMMA FullInit == Init => FullInv
BY DEF Init, FullInv

LEMMA FullStep == ASSUME IInv, IInv', FullInv, [SafeNext]_vars PROVE FullInv'
<1>1. full \in 0..4 /\ gcstep \in Steps /\ gckind \in {"Normal", "Emergency"}
  BY DEF IInv, TypeOK
<1>2. CASE FullGC
  BY <1>2 DEF FullGC, FullInv
<1>3. ASSUME MutatorRuns, UNCHANGED control PROVE FullInv'
  BY <1>1, <1>3 DEF MutatorRuns, FullInv, control
<1>4. CASE UNCHANGED vars
  <2>1. UNCHANGED <<gcstep, whitebit, color, ref, tobefnz, full, gckind, trun, caller>>
    BY <1>4 DEF vars, cycle, marks, fnz, control, switch
  <2>2. UNCHANGED <<KeptSeeds, MarkedSet, Usable, AtomicEdges>>
    BY <2>1 DEF KeptSeeds, MarkedSet, Usable, Alloc, Dead, IsDead, AtomicEdges
  <2>3. QED
    BY <2>1, <2>2 DEF FullInv, Found, Coloring, Sweeping
<1>5. ASSUME FullAdvance, gckind' = "Emergency"
      PROVE  /\ gckind = "Emergency" /\ full' # 0
             /\ \/ full = 1 /\ full' = 1
                \/ full = 1 /\ full' = 2 /\ gcstep' = "Pause"
                \/ full = 2 /\ full' = 2 /\ gcstep' = "Pause"
                \/ full = 2 /\ full' = 3 /\ gcstep' # "Pause"
                \/ full = 3 /\ full' = 3 /\ gcstep' # "CallFin"
                \/ full = 3 /\ full' = 4 /\ gcstep' = "CallFin"
                \/ full = 4 /\ full' = 4 /\ gcstep' # "Pause"
  <2>1. gckind = "Emergency" /\ full # 0
    BY <1>1, <1>5 DEF FullAdvance, FullInv
  <2>2. full = 1 => (GctillEnds <=> gcstep' = "Pause")
    BY DEF GctillEnds
  <2>3. full = 2 => (GctillEnds <=> gcstep' # "Pause")
    BY DEF GctillEnds
  <2>4. full = 3 => (GctillEnds <=> gcstep' = "CallFin")
    BY DEF GctillEnds
  <2>5. full = 4 => (GctillEnds <=> gcstep' = "Pause")
    BY DEF GctillEnds
  <2>6. full' = IF GctillEnds THEN (full + 1) % 5 ELSE full
    BY <1>5 DEF FullAdvance
  <2>7. ~(full = 4 /\ full' = 0)
    BY <1>5 DEF FullAdvance
  <2>8. full \in {1, 2, 3, 4}
    BY <1>1, <2>1
  <2>14. (1 + 1) % 5 = 2 /\ (2 + 1) % 5 = 3 /\ (3 + 1) % 5 = 4 /\ (4 + 1) % 5 = 0
    OBVIOUS
  <2>9. CASE full = 1
    BY <2>14, <2>1, <2>2, <2>6, <2>9
  <2>10. CASE full = 2
    BY <2>14, <2>1, <2>3, <2>6, <2>10
  <2>11. CASE full = 3
    BY <2>14, <2>1, <2>4, <2>6, <2>11
  <2>12. CASE full = 4
    BY <2>14, <2>1, <2>5, <2>6, <2>7, <2>12
  <2>13. QED
    BY <2>8, <2>9, <2>10, <2>11, <2>12
<1>6. ASSUME GCBegin, FullAdvance PROVE FullInv'
  <2>1. gcstep = "Pause" /\ gcstep' = "Propagate"
    BY <1>6 DEF GCBegin
  <2>2. Found(MarkedSet)'
    BY <1>6, BeginFound
  <2>3. ~Sweeping'
    BY <2>1 DEF Sweeping
  <2>4. QED
    BY <1>5, <1>6, <2>1, <2>2, <2>3 DEF FullInv
<1>7. ASSUME Propagate, FullAdvance PROVE FullInv'
  <2>1. gcstep = "Propagate" /\ gcstep' \in {"Propagate", "Atomic"}
    BY <1>7 DEF Propagate
  <2>2. Coloring /\ ~Sweeping'
    BY <2>1 DEF Coloring, Sweeping
  <2>3. Found(MarkedSet) => Found(MarkedSet)'
    BY <1>7, PropagateFound
  <2>4. QED
    BY <1>5, <1>7, <2>1, <2>2, <2>3 DEF FullInv
<1>8. ASSUME Atomic, FullAdvance PROVE FullInv'
  <2>1. gcstep = "Atomic" /\ gcstep' = "SwpNorm"
    BY <1>8 DEF Atomic, SweepStart
  <2>2. Coloring /\ ~Coloring'
    BY <2>1 DEF Coloring
  <2>3. Found(MarkedSet) => Found(Usable)'
    BY <1>8, AtomicFound
  <2>4. QED
    BY <1>5, <1>8, <2>1, <2>2, <2>3 DEF FullInv
<1>9. ASSUME SweepStep, FullAdvance PROVE FullInv'
  <2>1. gcstep \in {"SwpNorm", "SwpFin", "SwpFnz"} /\ gcstep' \in {"SwpNorm", "SwpFin", "SwpFnz", "CallFin"}
    BY <1>9 DEF SweepStep, Sweeping, NextSweep
  <2>2. Sweeping /\ ~Coloring'
    BY <2>1 DEF Coloring, Sweeping
  <2>3. Found(Usable) => Found(Usable)'
    <3>1. PICK S \in SUBSET tosweep : SweepObjects(S, color, whitebit)
      BY <1>9 DEF SweepStep, AtMost
    <3>2. S \in SUBSET Alloc
      BY DEF IInv, ListsAllocated
    <3>3. UNCHANGED <<whitebit, tobefnz, trun, caller>>
      BY <1>9 DEF SweepStep, fnz, switch
    <3>4. QED
      BY <3>1, <3>2, <3>3, SweepFound
  <2>4. QED
    BY <1>5, <1>9, <2>1, <2>2, <2>3 DEF FullInv
<1>10. ASSUME CallFin, FullAdvance PROVE FullInv'
  <2>1. gcstep = "CallFin"
    BY <1>10 DEF CallFin
  <2>2. ~Coloring' /\ ~Sweeping' /\ gcstep' \in {"CallFin", "Pause"}
    BY <1>10, <2>1 DEF CallFin, CallFinalizer, Coloring, Sweeping
  <2>3. gckind = "Emergency" => gcstep' = "Pause"
    BY <1>10 DEF CallFin
  <2>4. QED
    BY <1>5, <1>10, <2>1, <2>2, <2>3 DEF FullInv
<1>11. QED
  <2>1. CASE Collector
    BY <1>2, <1>6, <1>7, <1>8, <1>9, <1>10, <2>1 DEF Collector, GCStep
  <2>2. CASE MutatorRuns /\ ~Collector /\ ~UNCHANGED vars
    <3>1. UNCHANGED control
      BY <2>2 DEF SafeNext, Barriered, New, NewThread, InternString, Load, SetField, RemoveField, XMoveFrom, Pop,
         SetMetatable, ListAdd, CaptureStore, CloseCapture, XMoveTo, Store, Resume, Yield, Finish
    <3>2. QED
      BY <1>3, <2>2, <3>1
  <2>3. QED
    BY <1>4, <2>1, <2>2 DEF SafeNext

(* aloG_fullgc, "to ensure all garbage are cycled": when an emergency      *)
(* collection returns, whatever is still allocated is reached from the     *)
(* roots or from what waits for its finalizer, whatever the program did    *)
(* before and in whatever phase the collection began.                      *)
THEOREM FullCollects == SafeSpec => FullCollectsAll
<1>1. ASSUME IInv, FullInv PROVE [full = 4 /\ full' = 0 /\ gckind = "Emergency" => Alloc \subseteq Kept]_vars
  <2>1. SUFFICES ASSUME full = 4, gckind = "Emergency" PROVE Alloc \subseteq Kept
    OBVIOUS
  <2>2. gcstep = "CallFin" /\ Found(Usable)
    BY <1>1, <2>1 DEF FullInv
  <2>3. Dead = {}
    BY <1>1, <2>2 DEF IInv, DeadAwaitSweep
  <2>4. KeptSeeds \subseteq Object /\ Usable \subseteq Object
    BY <1>1, SeedsUsable
  <2>5. ReachVia(Object, AtomicEdges, KeptSeeds, Usable) \subseteq Kept
    BY <2>4, ReachMore DEF Kept, Reach, KeptSeeds
  <2>6. QED
    BY <2>2, <2>3, <2>5 DEF Found, Usable
<1>2. Init => FullInv
  BY FullInit
<1>3. IInv /\ IInv' /\ FullInv /\ [SafeNext]_vars => FullInv'
  BY FullStep
<1>4. QED
  BY <1>1, <1>2, <1>3, Inductive, PTL DEF SafeSpec, FullCollectsAll

-----------------------------------------------------------------------------
(* The collector implements AbstractHeap.                                  *)

LEMMA LiveIsReachable == Heap!Live = Reachable
BY DEF Heap!Live, Heap!Reach, Heap!ReachVia, Heap!ClosedUnder,
       Reachable, Reach, ReachVia, ClosedUnder

LEMMA NoneDangling == IInv => Heap!NoLiveDangling
BY LiveIsReachable, ReachableUsable DEF IInv, Heap!NoLiveDangling, Usable

(* A step that frees nothing is a step of the abstract program. *)
LEMMA GrowIsProgram ==
  ASSUME IInv', Alloc \subseteq Alloc' PROVE Heap!Program
<1>1. Heap!NoLiveDangling'
  BY NoneDangling, PTL
<1>2. QED
  BY <1>1 DEF Heap!Program

(* A step that allocates nothing and leaves the references of the objects  *)
(* that stay alone frees no live one: what is usable after it is closed    *)
(* under the references there were before it.                              *)
LEMMA ShrinkIsFree ==
  ASSUME IInv', Alloc' \subseteq Alloc, \A o \in Alloc' : ref'[o] = ref[o],
         trun' = trun
  PROVE  Heap!Free
<1>1. Usable' \subseteq Object /\ Usable' \subseteq Alloc'
  BY DEF Usable, Alloc
<1>2. ClosedUnder(Usable', ref, Object)
  BY <1>1 DEF ClosedUnder, Usable, IInv, NoDangling
<1>3. {Main, Registry, trun} \subseteq Usable'
  BY DEF IInv, NoDangling, Usable
<1>4. Reachable \subseteq Usable'
  BY <1>1, <1>2, <1>3, ReachLeast DEF Reachable, Reach
<1>5. QED
  BY <1>1, <1>4, LiveIsReachable DEF Heap!Free

LEMMA AtomicIsFree == ASSUME IInv, IInv', Atomic PROVE Heap!Free
<1> DEFINE col == [o \in Object |-> IF o \notin Marked THEN color[o]
                                    ELSE IF o = trun THEN "gray" ELSE "black"]
<1>1. PICK S \in SUBSET Normal : SweepObjects(S, col, whitebit')
  BY DEF Atomic, SweepStart, AtMost
<1>2. trun' = trun /\ Marked \subseteq Alloc
  BY MarkedAllocated DEF Atomic, switch, Coloring
<1>3. \A o \in Object : color'[o] = "free" \/ (o \notin S /\ color'[o] = col[o]) \/ o \in S
  BY <1>1 DEF SweepObjects
<1>4. Alloc' \subseteq Alloc
  <2>1. SUFFICES ASSUME NEW o \in Object, color'[o] # "free" PROVE color[o] # "free"
    BY DEF Alloc
  <2>2. o \in S => o \in Alloc
    BY DEF Normal
  <2>3. QED
    BY <1>2, <1>3, <2>1, <2>2 DEF Alloc
<1>5. \A o \in Alloc' : ref'[o] = ref[o]
  BY <1>1 DEF SweepObjects, Alloc
<1>6. QED
  BY <1>2, <1>4, <1>5, ShrinkIsFree

LEMMA SweepIsFree ==
  ASSUME IInv, IInv', UNCHANGED <<whitebit, trun>>, NEW S \in SUBSET Alloc,
         SweepObjects(S, color, whitebit)
  PROVE  Heap!Free
<1>1. Alloc' \subseteq Alloc
  BY SweepKeeps DEF IInv
<1>2. \A o \in Alloc' : ref'[o] = ref[o]
  BY DEF SweepObjects, Alloc
<1>3. QED
  BY <1>1, <1>2, ShrinkIsFree

LEMMA CollectorRefines == ASSUME IInv, IInv', Collector PROVE Heap!HNext
<1>1. CASE GCBegin
  <2>1. \A o \in Object : color[o] # "free" => color'[o] # "free"
    BY <1>1 DEF GCBegin, IInv, TypeOK
  <2>2. QED
    BY <2>1, GrowIsProgram DEF Alloc, Heap!HNext
<1>2. CASE Propagate
  <2>1. PICK g \in gray :
          MarkAll(ref[g], [color EXCEPT ![g] = IF g = trun THEN "gray" ELSE "black"],
                  gray \ {g})
    BY <1>2 DEF Propagate
  <2>2. \A o \in Object : color[o] # "free" => color'[o] # "free"
    BY <2>1 DEF MarkAll, IInv, TypeOK
  <2>3. QED
    BY <2>2, GrowIsProgram DEF Alloc, Heap!HNext
<1>3. CASE Atomic
  BY <1>3, AtomicIsFree DEF Heap!HNext
<1>4. CASE SweepStep
  <2>1. PICK S \in SUBSET tosweep : SweepObjects(S, color, whitebit)
    BY <1>4 DEF SweepStep, AtMost
  <2>2. S \in SUBSET Alloc /\ UNCHANGED <<whitebit, trun>>
    BY <1>4 DEF SweepStep, switch, IInv, ListsAllocated
  <2>3. QED
    BY <2>1, <2>2, SweepIsFree DEF Heap!HNext
<1>5. CASE CallFin
  BY <1>5, GrowIsProgram DEF CallFin, marks, Alloc, Heap!HNext
<1>6. CASE FullGC
  <2>1. CASE Coloring
    <3>1. PICK S \in SUBSET Normal : SweepObjects(S, color, whitebit)
      BY <1>6, <2>1 DEF FullGC, SweepStart, AtMost
    <3>2. S \in SUBSET Alloc /\ UNCHANGED <<whitebit, trun>>
      BY <1>6 DEF FullGC, switch, Normal
    <3>3. QED
      BY <3>1, <3>2, SweepIsFree DEF Heap!HNext
  <2>2. CASE ~Coloring
    BY <1>6, <2>2, GrowIsProgram DEF FullGC, Alloc, Heap!HNext
  <2>3. QED
    BY <2>1, <2>2
<1>7. QED
  BY <1>1, <1>2, <1>3, <1>4, <1>5, <1>6 DEF Collector, GCStep

(* No operation of the program frees anything. *)
LEMMA NeverFrees ==
  ASSUME IInv,
         \/ Barriered
         \/ \E o, v \in Object : \/ ListAdd(o, v) \/ CaptureStore(o, v)
                                 \/ CloseCapture(o, v) \/ XMoveTo(o, v)
         \/ \E t \in Threads : Resume(t)
         \/ Yield \/ Finish
  PROVE  Alloc \subseteq Alloc'
<1>1. SUFFICES \A x \in Object : color[x] # "free" => color'[x] # "free"
  BY DEF Alloc
<1>2. whitebit # "free" /\ color \in [Object -> Colors]
  BY DEF IInv, TypeOK, Whites
<1>3. ASSUME NEW o \in Object, NEW init, New(o, init)
      PROVE  \A x \in Object : color[x] # "free" => color'[x] # "free"
  BY <1>2, <1>3 DEF New
<1>4. ASSUME NEW t \in Threads, NewThread(t)
      PROVE  \A x \in Object : color[x] # "free" => color'[x] # "free"
  BY <1>2, <1>4, ObjectKinds DEF NewThread
<1>5. ASSUME NEW s \in Strings, InternString(s)
      PROVE  \A x \in Object : color[x] # "free" => color'[x] # "free"
  BY <1>2, <1>5 DEF InternString
<1>6. ASSUME NEW o \in Object, NEW v \in Object, SetField(o, v)
      PROVE  \A x \in Object : color[x] # "free" => color'[x] # "free"
  BY <1>2, <1>6 DEF SetField, BarrierBack
<1>7. ASSUME NEW o \in Object, NEW m \in Object, NEW del, SetMetatable(o, m, del)
      PROVE  \A x \in Object : color[x] # "free" => color'[x] # "free"
  BY <1>2, <1>7 DEF SetMetatable, Barrier, MarkAll
<1>8. ASSUME NEW o, NEW v,
             \/ Load(o, v) \/ RemoveField(o, v) \/ XMoveFrom(o, v) \/ Pop(v)
             \/ ListAdd(o, v) \/ CaptureStore(o, v) \/ CloseCapture(o, v) \/ XMoveTo(o, v)
             \/ Resume(o) \/ Yield \/ Finish
      PROVE  color' = color
  BY <1>8 DEF Load, RemoveField, XMoveFrom, Pop, ListAdd, CaptureStore, Store,
              CloseCapture, XMoveTo, Resume, Yield, Finish, marks
<1>9. QED
  BY <1>3, <1>4, <1>5, <1>6, <1>7, <1>8 DEF Barriered

LEMMA NextRefines == ASSUME IInv, IInv', [SafeNext]_vars PROVE [Heap!HNext]_Heap!hvars
<1>1. CASE Collector
  BY <1>1, CollectorRefines
<1>2. CASE UNCHANGED vars
  BY <1>2 DEF vars, marks, switch, Heap!hvars, Alloc
<1>3. CASE SafeNext /\ ~Collector
  <2>1. Alloc \subseteq Alloc'
    BY <1>3, NeverFrees DEF SafeNext
  <2>2. QED
    BY <2>1, GrowIsProgram DEF Heap!HNext
<1>4. QED
  BY <1>1, <1>2, <1>3

(* agc.c as a whole: to the program, the collector is one that frees only  *)
(* objects which no chain of references from a root leads to, and touches  *)
(* no others.                                                              *)
THEOREM ImplementsHeap == SafeSpec => HeapSpec
<1>1. Init => Heap!HInit
  <2>1. Init => TypeOK /\ Heap!NoLiveDangling
    BY InitInv, NoneDangling DEF IInv
  <2>2. TypeOK => /\ Alloc \subseteq Object /\ ref \in [Object -> SUBSET Object]
                  /\ {Main, Registry, trun} \subseteq Object
    BY ObjectKinds DEF TypeOK, Alloc
  <2>3. QED
    BY <2>1, <2>2 DEF Heap!HInit
<1>2. IInv /\ IInv' /\ [SafeNext]_vars => [Heap!HNext]_Heap!hvars
  BY NextRefines
<1>3. QED
  BY <1>1, <1>2, Inductive, PTL DEF SafeSpec, HeapSpec, Heap!HSpec

=============================================================================
