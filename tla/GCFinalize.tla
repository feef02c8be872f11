----------------------------- MODULE GCFinalize -----------------------------
(***************************************************************************)
(* Finalizers inside the collector of Alopecurus (agc.c).  A finalizer is  *)
(* program code that callfin runs in the middle of a collection, so the    *)
(* collector can be entered from itself.  The state is the C stack, with   *)
(* the activations that matter, and the flags of the global state that     *)
(* aloG_step, aloG_fullgc, callfinimpl and alo_gcconf read and write.      *)
(*                                                                         *)
(* The objects are those that ever get a finalizer.  Marking and sweeping  *)
(* are one phase each: AloGC has their detail.                             *)
(***************************************************************************)
EXTENDS Naturals, Sequences, FiniteSets

CONSTANTS
  Object,       \* the objects that may have a finalizer
  CountLimit,   \* nfnzobj is a number modulo CountLimit (2^64 in the code)
  MaxWork,      \* bound: the work of one aloG_step
  MaxStack,     \* bound: the activations on the stack
  ProgramOps,   \* what the program does: see Operations
  FinalizerOps  \* what a finalizer does

Operations == {"register", "alloc", "fullgc", "emergency", "setstate", "throw", "close"}

ASSUME CountAssumption == CountLimit \in Nat \ {0} /\ MaxWork \in Nat /\ MaxStack \in Nat
ASSUME OpsAssumption == ProgramOps \subseteq Operations /\ FinalizerOps \subseteq Operations

VARIABLES
  gcstep,      \* G->gcstep
  gckind,      \* G->gckind
  gcrunning,   \* G->gcrunning
  fgc,         \* G->fgc
  nfnzobj,     \* G->nfnzobj
  final,       \* the objects with the bit aloG_final
  fnzable,     \* G->gfnzable, from its head
  tobefnz,     \* G->gtobefnz, from its head
  stack,       \* the C stack, top first
  setting,     \* what the program last set fgc to (history)
  did          \* what finalizers have done, other than allocate (history)

lists == <<final, fnzable, tobefnz>>
flags == <<gckind, gcrunning, fgc>>
history == <<setting, did>>
vars == <<gcstep, flags, nfnzobj, lists, stack, history>>

(* Activations.  The program is at the bottom; aloG_step and aloG_fullgc   *)
(* call gcstep, which calls callfin, which calls finalizers.               *)
Prog       == [fn |-> "prog"]
Step(w)    == [fn |-> "step", work |-> w]
Full(i, k) == [fn |-> "full", till |-> i, kind |-> k]
Callfin(c) == [fn |-> "callfin", c |-> c]
Fnz(o, g)  == [fn |-> "fnz", obj |-> o, oldgc |-> g]
Clear(i)   == [fn |-> "clear", pass |-> i]

Top == Head(stack)
Below == Tail(stack)
Running(f) == stack # <<>> /\ Top.fn = f
Members(s) == {s[i] : i \in DOMAIN s}

(* What is left of the list s, in its order, when only X is kept.          *)
Kept(s, X) ==
  LET I == {i \in DOMAIN s : s[i] \in X}
      Nth(n) == CHOOSE i \in I : Cardinality({j \in I : j <= i}) = n
  IN  [n \in 1..Cardinality(I) |-> s[Nth(n)]]

(* The code in control is the program or a finalizer, and does op. *)
Does(op) == \/ Running("prog") /\ op \in ProgramOps
            \/ Running("fnz") /\ op \in FinalizerOps
Record(op) == did' = IF Running("fnz") THEN did \cup {op} ELSE did
Room == Len(stack) + 3 <= MaxStack

-----------------------------------------------------------------------------
(* gcstep and the loops around it.                                         *)

(* Whether the loop of the activation top goes on, after a gcstep that did *)
(* the work w and led to `step`: aloG_step has a budget, and aloG_fullgc   *)
(* calls gctill four times.                                                *)
Again(top, step, w) ==
  IF top.fn = "step" THEN top.work >= w /\ step # "Pause"
  ELSE \/ top.till \in {1, 4} /\ step # "Pause"
       \/ top.till = 2 /\ step = "Pause"
       \/ top.till = 3 /\ step # "CallFin"

(* The end of aloG_step or aloG_fullgc. *)
EndLoop(stk) ==
  /\ stack' = Tail(stk) /\ gcrunning' = FALSE
  /\ gckind' = IF Head(stk).fn = "full" THEN "Normal" ELSE gckind

(* The loop on top of stk goes on, to its next gctill, or ends.            *)
Loop(stk, step, w) ==
  LET top == Head(stk)
  IN  IF Again(top, step, w) \/ (top.fn = "full" /\ top.till < 4)
      THEN /\ stack' = <<IF top.fn = "step" THEN Step(top.work - w)
                         ELSE IF Again(top, step, w) THEN top
                         ELSE [top EXCEPT !.till = @ + 1]>> \o Tail(stk)
           /\ UNCHANGED <<gcrunning, gckind>>
      ELSE EndLoop(stk)

InLoop == Running("step") \/ Running("full")

(* gcbegin. *)
Begin ==
  /\ gcstep = "Pause" /\ gcstep' = "Mark"
  /\ UNCHANGED lists

(* The objects whose finalizer is running are on the stack of the thread.  *)
Finalizing == {stack[i].obj : i \in {j \in DOMAIN stack : stack[j].fn = "fnz"}}

(* Marking up to the end of gcatomic and sweepstart: some finalizable      *)
(* objects are found unreachable, and splitfnz moves them.                 *)
SplitFnz ==
  /\ gcstep = "Mark" /\ gcstep' = "Sweep"
  /\ \E found \in SUBSET (Members(fnzable) \ Finalizing) :
       /\ tobefnz' = tobefnz \o Kept(fnzable, found)
       /\ fnzable' = Kept(fnzable, Members(fnzable) \ found)
  /\ UNCHANGED final

Sweep ==
  /\ gcstep = "Sweep" /\ gcstep' = "CallFin"
  /\ UNCHANGED lists

(* Fault: the step ends whether finalizers are left or not. *)
End_Early ==
  /\ gcstep = "CallFin" /\ gcstep' = "Pause"
  /\ UNCHANGED lists

(* Fault: an emergency collection waits for finalizers it does not call. *)
End_Waits ==
  /\ gcstep = "CallFin" /\ gcstep' = "Pause"
  /\ tobefnz = <<>>
  /\ UNCHANGED lists

(* GCStepCallFin when there is nothing to call. *)
End ==
  /\ gcstep = "CallFin" /\ gcstep' = "Pause"
  /\ tobefnz = <<>> \/ gckind = "Emergency"
  /\ UNCHANGED lists

(* gcstep, but for the calls of finalizers. *)
GCStep ==
  /\ InLoop
  /\ Begin \/ SplitFnz \/ Sweep \/ End
  /\ \E w \in {0, 1} : Loop(stack, gcstep', w)
  /\ UNCHANGED <<fgc, nfnzobj, history>>

(* GCStepCallFin: callfin reads nfnzobj. *)
CallfinBegin ==
  /\ InLoop /\ gcstep = "CallFin" /\ tobefnz # <<>> /\ gckind # "Emergency"
  /\ stack' = <<Callfin(nfnzobj)>> \o stack
  /\ UNCHANGED <<gcstep, flags, nfnzobj, lists, history>>

-----------------------------------------------------------------------------
(* callfin.                                                                *)

(* Fault: the collector is not stopped while a finalizer runs. *)
CallFinalizer_KeepGC(rest) ==
  LET o == Head(tobefnz)
  IN  /\ tobefnz' = Tail(tobefnz) /\ final' = final \ {o}
      /\ \/ stack' = rest /\ UNCHANGED fgc
         \/ stack' = <<Fnz(o, fgc)>> \o rest /\ UNCHANGED fgc
      /\ UNCHANGED <<fnzable, gcstep, gckind, gcrunning, nfnzobj, history>>

(* callfinimpl up to the call: the object goes back to gnormal; the        *)
(* metatable may have lost its finalizer since.                            *)
CallFinalizer(rest) ==
  LET o == Head(tobefnz)
  IN  /\ tobefnz' = Tail(tobefnz) /\ final' = final \ {o}
      /\ \/ stack' = rest /\ UNCHANGED fgc
         \/ stack' = <<Fnz(o, fgc)>> \o rest /\ fgc' = FALSE
      /\ UNCHANGED <<fnzable, gcstep, gckind, gcrunning, nfnzobj, history>>

CallfinNext ==
  /\ Running("callfin") /\ tobefnz # <<>> /\ Top.c > 0
  /\ CallFinalizer(<<Callfin(Top.c - 1)>> \o Below)

(* Fault: calls that call nothing cost nothing. *)
CallfinEnd_NoWork ==
  /\ Running("callfin") /\ (tobefnz = <<>> \/ Top.c = 0)
  /\ nfnzobj' = IF tobefnz = <<>> THEN 0 ELSE (nfnzobj * 2) % CountLimit
  /\ Loop(Below, gcstep, 0)
  /\ UNCHANGED <<gcstep, fgc, lists, history>>

(* The rest of callfin: the count for the next time.  The work is what the *)
(* loop took off nfnzobj; with nothing left a callfin of a finalizer may   *)
(* have set nfnzobj in between, and then it is any number.                 *)
CallfinEnd ==
  /\ Running("callfin") /\ (tobefnz = <<>> \/ Top.c = 0)
  /\ nfnzobj' = IF tobefnz = <<>> THEN 0 ELSE (nfnzobj * 2) % CountLimit
  /\ \E w \in IF tobefnz = <<>> THEN {0, 1} ELSE {1} : Loop(Below, gcstep, w)
  /\ UNCHANGED <<gcstep, fgc, lists, history>>

(* Fault: fgc is not restored when the finalizer failed. *)
Leave_OnlyOnSuccess(rest) ==
  /\ stack' = rest
  /\ fgc' = IF rest = Below THEN Top.oldgc ELSE fgc
  /\ UNCHANGED <<gcstep, gckind, gcrunning, nfnzobj, lists, setting>>

(* callfinimpl after the call, which leads back to the activations rest.   *)
Leave(rest) ==
  /\ stack' = rest
  /\ fgc' = Top.oldgc
  /\ UNCHANGED <<gcstep, gckind, gcrunning, nfnzobj, lists, setting>>

Return == Running("fnz") /\ Leave(Below) /\ UNCHANGED did

(* An error in a finalizer.  aloD_pcall catches it and callfinimpl throws  *)
(* it again, out of callfin and of the loop, to the code that allocated.   *)
(* callallfin does not throw.                                              *)
Throw ==
  /\ Running("fnz") /\ Does("throw") /\ Record("throw")
  /\ Leave(IF Head(Below).fn = "clear" THEN Below ELSE SubSeq(stack, 4, Len(stack)))

-----------------------------------------------------------------------------
(* The program and the finalizers.                                         *)

(* aloG_checkfnzobj. *)
Register(o) ==
  /\ Does("register") /\ Record("register") /\ o \notin final
  /\ final' = final \cup {o}
  /\ fnzable' = <<o>> \o fnzable
  /\ UNCHANGED <<tobefnz, gcstep, flags, nfnzobj, stack, setting>>

(* aloG_step, called at an allocation point; it does nothing when the      *)
(* collector is stopped or running.                                        *)
Alloc ==
  /\ Does("alloc") /\ Room /\ fgc /\ ~gcrunning
  /\ gcrunning' = TRUE
  /\ \E w \in 0..MaxWork : stack' = <<Step(w)>> \o stack
  /\ UNCHANGED <<gcstep, gckind, fgc, nfnzobj, lists, history>>

(* aloG_fullgc up to its first gctill, called by alo_fullgc, or by an      *)
(* allocation that failed.                                                 *)
FullGC(kind) ==
  /\ LET op == IF kind = "Normal" THEN "fullgc" ELSE "emergency" IN Does(op) /\ Record(op)
  /\ Room
  /\ gckind' = kind /\ gcrunning' = TRUE
  /\ gcstep' = IF gcstep = "Mark" THEN "Sweep" ELSE gcstep
  /\ stack' = <<Full(1, kind)>> \o stack
  /\ UNCHANGED <<fgc, nfnzobj, lists, setting>>

(* alo_gcconf with ALO_GCSTOP or ALO_GCRERUN. *)
SetState(on) ==
  /\ Does("setstate") /\ Record("setstate")
  /\ fgc' = on
  /\ setting' = IF Running("prog") THEN on ELSE setting
  /\ UNCHANGED <<gcstep, gckind, gcrunning, nfnzobj, lists, stack>>

-----------------------------------------------------------------------------
(* aloG_clear, when the state is closed: callallfin on gtobefnz, and again *)
(* on gfnzable.                                                            *)
Close ==
  /\ Does("close") /\ Running("prog") /\ Len(stack) = 1
  /\ stack' = <<Clear(1)>>
  /\ did' = {}
  /\ UNCHANGED <<gcstep, flags, nfnzobj, lists, setting>>

ClearNext ==
  /\ Running("clear") /\ tobefnz # <<>>
  /\ CallFinalizer(stack)

(* Fault: the second pass is skipped. *)
ClearPass_Once ==
  /\ Running("clear") /\ tobefnz = <<>>
  /\ stack' = <<>>
  /\ UNCHANGED <<gcstep, flags, nfnzobj, lists, history>>

ClearPass ==
  /\ Running("clear") /\ tobefnz = <<>>
  /\ IF Top.pass = 1
     THEN stack' = <<Clear(2)>> /\ tobefnz' = fnzable /\ fnzable' = <<>>
     ELSE stack' = <<>> /\ UNCHANGED <<tobefnz, fnzable>>
  /\ UNCHANGED <<gcstep, flags, nfnzobj, final, history>>

-----------------------------------------------------------------------------
(* alo_newstate does not set nfnzobj. *)
Init ==
  /\ gcstep = "Pause" /\ gckind = "Normal" /\ gcrunning = FALSE
  /\ fgc = TRUE /\ setting = TRUE
  /\ nfnzobj \in 0..(CountLimit - 1)
  /\ final = {} /\ fnzable = <<>> /\ tobefnz = <<>>
  /\ stack = <<Prog>>
  /\ did = {}

Collector == GCStep \/ CallfinBegin \/ CallfinNext \/ CallfinEnd
Closing == ClearNext \/ ClearPass
Operation ==
  \/ \E o \in Object : Register(o)
  \/ Alloc
  \/ \E kind \in {"Normal", "Emergency"} : FullGC(kind)
  \/ \E on \in BOOLEAN : SetState(on)
  \/ Close

Next == Collector \/ Closing \/ Return \/ Throw \/ Operation

Spec == Init /\ [][Next]_vars

(* The loops of the collector run when they are in control, and finalizers *)
(* return.                                                                 *)
FairSpec == Spec /\ WF_vars(Collector) /\ SF_vars(Return)

-----------------------------------------------------------------------------
(* Properties.                                                             *)

Activation ==
  {Prog} \cup {Step(w) : w \in 0..MaxWork} \cup {Callfin(c) : c \in 0..(CountLimit - 1)}
    \cup {Full(i, k) : i \in 1..4, k \in {"Normal", "Emergency"}}
    \cup {Fnz(o, g) : o \in Object, g \in BOOLEAN} \cup {Clear(i) : i \in {1, 2}}

TypeOK ==
  /\ gcstep \in {"Pause", "Mark", "Sweep", "CallFin"}
  /\ gckind \in {"Normal", "Emergency"}
  /\ gcrunning \in BOOLEAN /\ fgc \in BOOLEAN /\ setting \in BOOLEAN
  /\ nfnzobj \in 0..(CountLimit - 1)
  /\ final \subseteq Object
  /\ fnzable \in Seq(Object) /\ tobefnz \in Seq(Object)
  /\ stack \in Seq(Activation)
  /\ did \subseteq Operations

(* callfinimpl, "restore GC state": however a finalizer ends, and whatever *)
(* it and the finalizers under it did, the program finds the collector     *)
(* switched on or off as it left it.                                       *)
StateRestored == Running("prog") => fgc = setting

InEmergency ==
  \E i \in DOMAIN stack : stack[i].fn = "full" /\ stack[i].kind = "Emergency"

(* aloG_step, "stop re-run GC when it is running": the incremental         *)
(* collector is not entered from itself, unless a finalizer both met an    *)
(* emergency collection, which clears gcrunning, and switched the          *)
(* collector on, or asked for a full collection itself.                    *)
Entered == {i \in DOMAIN stack : stack[i].fn = "step"
                \/ (stack[i].fn = "full" /\ stack[i].kind = "Normal")}
NoReentry ==
  \/ {"emergency", "setstate"} \subseteq did \/ "fullgc" \in did
  \/ \A i, j \in Entered : i = j

(* aloG_fullgc, "to ensure all garbage are cycled": when a full collection *)
(* returns, no dead object still waits for its finalizer, unless one of    *)
(* the finalizers met an emergency collection.                             *)
FullReturns(was, is) ==
  was # <<>> /\ Head(was).fn = "full" /\ Head(was).kind = "Normal" /\ is = Tail(was)
FullFinalizes ==
  [][FullReturns(stack, stack') \/ (Running("callfin") /\ FullReturns(Below, stack'))
       => tobefnz' = <<>> \/ "emergency" \in did]_vars

(* aloG_clear, "still have finalizable object exists.": closing the state  *)
(* calls every finalizer, unless one of them makes another finalizable     *)
(* object.                                                                 *)
AllFinalized == stack = <<>> => (fnzable = <<>> /\ tobefnz = <<>>) \/ "register" \in did

(* The incremental collector gives control back to the code that allocated. *)
OnStack(f) == \E i \in DOMAIN stack : stack[i].fn = f
StepReturns == OnStack("step") ~> ~OnStack("step")

(* aloM_realloc, "collect some unused memory": a collection that a failing *)
(* allocation starts returns to it, whatever waits for its finalizer.      *)
EmergencyReturns == InEmergency ~> ~InEmergency

=============================================================================
