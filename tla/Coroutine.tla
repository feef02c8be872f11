----------------------------- MODULE Coroutine -----------------------------
(***************************************************************************)
(* Coroutines, calls and errors of Alopecurus (ado.c, acorolib.c, and the  *)
(* calls of aimpl.c): one C stack is shared by all threads, alo_resume     *)
(* stacks one thread on another, and yields and errors leave by longjmp,   *)
(* past the code that would restore the counters.                          *)
(*                                                                         *)
(* The state has both stacks: the frames of each thread (aframe_t), which  *)
(* outlive a yield, and the activations of the C stack, which do not.      *)
(* Values are left out, but for what the stack of a coroutine holds when   *)
(* it is in its base frame, which alo_resume looks at.                     *)
(***************************************************************************)
EXTENDS Naturals, Sequences, FiniteSets

CONSTANTS
  Thread,        \* the threads
  Main,          \* G->tmain
  NoThread,      \* a null pointer
  MaxCCall,      \* ALO_MAXCCALL, 200 in the code
  ExtraErrCall,  \* EXTRAERRCALL, MaxCCall >> 3 in the code
  MaxFrames,     \* bound: the frames of a thread, but for error handlers
  MaxArgs        \* bound: the values left on the stack of a coroutine

ASSUME ThreadAssumption == Main \in Thread /\ NoThread \notin Thread
ASSUME LimitAssumption ==
  /\ MaxCCall \in Nat \ {0} /\ ExtraErrCall \in Nat
  /\ MaxFrames \in Nat /\ MaxArgs \in Nat

VARIABLES
  trun,     \* G->trun
  status,   \* T->status: "Run", "Yield" or "Err"
  caller,   \* T->caller
  frames,   \* the frames of a thread from its top, without base_frame
  body,     \* whether the function of a coroutine is still to be called
  args,     \* how many other values are on the stack in the base frame
  nccall,   \* T->nccall
  nxyield,  \* T->nxyield
  errfun,   \* whether T->errfun is set
  cstack,   \* the activations on the C stack from its top
  ctl       \* what the code is doing

counters == <<nccall, nxyield>>
stacks == <<frames, cstack>>
vars == <<trun, status, caller, stacks, body, args, counters, errfun, ctl>>

(* ctl is "run" in a function, "enter" in resume_unsafe, "throw" in        *)
(* aloU_error, "jump" in aloD_throw.  The others are the end of the        *)
(* process: "abort", a C stack that is exhausted by errors in error        *)
(* handlers ("recursion"), a continuation that is not there ("badcont"),   *)
(* and an error passed to a thread that is not running ("lost").           *)
Ends == {"abort", "recursion", "badcont", "lost"}
Control == {"run", "enter", "throw", "jump"} \cup Ends

(* A frame is of a C function or a script function.  bare is history: the  *)
(* C function has called a metamethod and has not got its result yet.      *)
Kind == {"c", "alo"}
Frame(kind) ==
  [kind |-> kind, kfun |-> FALSE, ypc |-> FALSE, bare |-> FALSE]

Fs == frames[trun]
Bottom(fs, n) == SubSeq(fs, Len(fs) - n + 1, Len(fs))
TopKind == IF Fs = <<>> THEN "c" ELSE Head(Fs).kind
InC == ctl = "run" /\ TopKind = "c"
InScript == ctl = "run" /\ TopKind = "alo"
Room == Len(Fs) < MaxFrames

(* The top frame, changed by the function that runs in it.                 *)
Mark(fs, field, value) ==
  IF fs = <<>> THEN fs ELSE <<[fs[1] EXCEPT ![field] = value]>> \o Tail(fs)

(* An activation: what a function on the C stack has saved, in its locals  *)
(* or, as alo_pcallk errfun, in its frame.                                 *)
Act(fn, noyield) ==
  [fn |-> fn, thread |-> trun, from |-> trun, depth |-> Len(Fs), noyield |-> noyield,
   nccall |-> nccall[trun], nxyield |-> nxyield[trun], errfun |-> errfun[trun]]

-----------------------------------------------------------------------------
(* Calls.                                                                  *)

(* stackerror: from MaxCCall on it lets calls pass, for error handlers.    *)
Overflows(n) == n = MaxCCall \/ n >= MaxCCall + ExtraErrCall
StackError(n) == IF n = MaxCCall THEN "throw" ELSE "jump"

(* aloD_call and aloD_callnoyield from the activation act; fs are the      *)
(* frames as the caller has marked them.                                   *)
Call(act, fs, ef) ==
  /\ cstack' = <<act>> \o cstack
  /\ nxyield' = [nxyield EXCEPT ![trun] = IF act.noyield THEN @ + 1 ELSE @]
  /\ errfun' = [errfun EXCEPT ![trun] = ef]
  /\ IF Overflows(nccall[trun])
     THEN /\ ctl' = StackError(nccall[trun])
          /\ frames' = [frames EXCEPT ![trun] = fs]
          /\ UNCHANGED nccall
     ELSE /\ ctl' = "run"
          /\ \E kind \in Kind : frames' = [frames EXCEPT ![trun] = <<Frame(kind)>> \o fs]
          /\ nccall' = [nccall EXCEPT ![trun] = @ + 1]
  /\ UNCHANGED <<trun, status, caller, body, args>>

(* aloD_precall from OP_CALL: aloV_invoke goes on in the same activation.  *)
Precall ==
  /\ InScript /\ Room
  /\ \E kind \in Kind : frames' = [frames EXCEPT ![trun] = <<Frame(kind)>> \o @]
  /\ UNCHANGED <<trun, status, caller, body, args, counters, errfun, cstack, ctl>>

(* Fault: a call without a continuation may be yielded across. *)
Callk_Yieldable(k) ==
  LET cont == k /\ nxyield[trun] = 0
  IN  /\ InC /\ Room /\ (k => Fs # <<>>)
      /\ Call(Act("call", FALSE), IF cont THEN Mark(Fs, "kfun", TRUE) ELSE Fs, errfun[trun])

(* alo_callk; k: a continuation is given.                                  *)
Callk(k) ==
  LET cont == k /\ nxyield[trun] = 0
  IN  /\ InC /\ Room /\ (k => Fs # <<>>)
      /\ Call(Act("call", ~cont), IF cont THEN Mark(Fs, "kfun", TRUE) ELSE Fs, errfun[trun])

(* callbin, callunr, alo_setx, aloV_concat: aloD_call for a metamethod,    *)
(* from the interpreter or from a C function alike.                        *)
MetaCall ==
  /\ ctl = "run" /\ Fs # <<>> /\ Room
  /\ Call(Act("meta", FALSE), Mark(Fs, "bare", TRUE), errfun[trun])

(* alo_pcallk: aloD_pcall, or an unprotected call under a frame with fypc, *)
(* which alo_resume looks for.                                             *)
Pcallk(k, ef) ==
  /\ InC /\ Room /\ (k => Fs # <<>>)
  /\ IF ~k \/ nxyield[trun] > 0
     THEN Call(Act("pcall", TRUE), Fs, ef)
     ELSE Call(Act("pcallk", FALSE),
               Mark(Mark(Fs, "kfun", TRUE), "ypc", TRUE), ef)

-----------------------------------------------------------------------------
(* Returns.                                                                *)

(* The rest of the C function that made the call of act: alo_callk and     *)
(* alo_pcallk return to the C function of fs, aloU_error goes on to throw. *)
Leave(act, fs) ==
  /\ cstack' = Tail(cstack)
  /\ frames' = [frames EXCEPT ![trun] = IF act.fn = "pcallk" THEN Mark(fs, "ypc", FALSE)
                                        ELSE IF act.fn = "meta" THEN Mark(fs, "bare", FALSE)
                                        ELSE fs]
  /\ nccall' = [nccall EXCEPT ![trun] = @ - 1]
  /\ nxyield' = [nxyield EXCEPT ![trun] = IF act.noyield THEN @ - 1 ELSE @]
  /\ errfun' = [errfun EXCEPT ![trun] = IF act.fn \in {"pcall", "pcallk"} THEN act.errfun
                                        ELSE @]
  /\ ctl' = IF act.fn = "handler" THEN "jump" ELSE "run"
  /\ UNCHANGED <<trun, status, caller, body, args>>

(* Fault: the resumer does not become the running thread. *)
ResumeEnds_KeepRunning(act, below, st) ==
  /\ cstack' = below
  /\ status' = [status EXCEPT ![act.thread] = st]
  /\ nccall' = [nccall EXCEPT ![act.thread] = act.nccall - 1]
  /\ nxyield' = [nxyield EXCEPT ![act.thread] = act.nxyield]
  /\ UNCHANGED trun

(* The end of alo_resume, after aloD_prun has restored nccall.             *)
ResumeEnds(act, below, st) ==
  /\ cstack' = below
  /\ trun' = act.from
  /\ status' = [status EXCEPT ![act.thread] = st]
  /\ nccall' = [nccall EXCEPT ![act.thread] = act.nccall - 1]
  /\ nxyield' = [nxyield EXCEPT ![act.thread] = act.nxyield]

(* Control is back in the frames fs: at the call of the activation on top, *)
(* at the end of a coroutine, whose results aux_resume takes, or in a      *)
(* frame that unroll continues.                                            *)
BackTo(fs) ==
  LET act == Head(cstack)
  IN  IF act.fn # "resume" /\ act.depth = Len(fs) THEN Leave(act, fs)
      ELSE IF fs = <<>>
      THEN /\ ResumeEnds(act, Tail(cstack), "Yield")
           /\ frames' = [frames EXCEPT ![trun] = fs]
           /\ args' = [args EXCEPT ![trun] = 0]
           /\ ctl' = "run"
           /\ UNCHANGED <<caller, body, errfun>>
      ELSE /\ frames' = [frames EXCEPT ![trun] = fs]
           /\ ctl' = IF fs[1].kind = "c" /\ ~fs[1].kfun THEN "badcont" ELSE "run"
           /\ UNCHANGED <<trun, status, caller, body, args, counters, errfun, cstack>>

(* A function returns: aloD_postcall.                                      *)
Return ==
  /\ ctl = "run" /\ Fs # <<>>
  /\ BackTo(Tail(Fs))

-----------------------------------------------------------------------------
(* Long jumps.                                                             *)

(* T->label: the innermost aloD_prun of the running thread.                *)
Labels == {i \in DOMAIN cstack : cstack[i].thread = trun /\ cstack[i].fn \in {"pcall", "resume"}}
Label == CHOOSE i \in Labels : \A j \in Labels : i <= j

(* rewind_protector: how many frames are left.                             *)
Protectors(fs) == {i \in DOMAIN fs : fs[i].ypc}
Rewound(fs) == CHOOSE i \in Protectors(fs) : \A j \in Protectors(fs) : i <= j

(* Fault: aloD_pcall leaves nxyield as it is. *)
Caught_KeepNxyield(act, below, fs) ==
  /\ cstack' = below
  /\ frames' = [frames EXCEPT ![trun] = Bottom(fs, act.depth)]
  /\ nccall' = [nccall EXCEPT ![trun] = act.nccall]
  /\ errfun' = [errfun EXCEPT ![trun] = act.errfun]
  /\ ctl' = "run"
  /\ UNCHANGED <<trun, status, caller, body, args, nxyield>>

(* Fault: aloD_prun leaves nccall as it is. *)
Caught_KeepNccall(act, below, fs) ==
  /\ cstack' = below
  /\ frames' = [frames EXCEPT ![trun] = Bottom(fs, act.depth)]
  /\ nxyield' = [nxyield EXCEPT ![trun] = act.nxyield]
  /\ errfun' = [errfun EXCEPT ![trun] = act.errfun]
  /\ ctl' = "run"
  /\ UNCHANGED <<trun, status, caller, body, args, nccall>>

(* aloD_pcall after its aloD_prun has failed.                              *)
Caught(act, below, fs) ==
  /\ cstack' = below
  /\ frames' = [frames EXCEPT ![trun] = Bottom(fs, act.depth)]
  /\ nccall' = [nccall EXCEPT ![trun] = act.nccall]
  /\ nxyield' = [nxyield EXCEPT ![trun] = act.nxyield]
  /\ errfun' = [errfun EXCEPT ![trun] = act.errfun]
  /\ ctl' = "run"
  /\ UNCHANGED <<trun, status, caller, body, args>>

(* recover in alo_resume: the continuation of the protector found is       *)
(* called with the status of the error.                                    *)
Recover(act, below, fs) ==
  LET fr == Bottom(fs, Len(fs) - Rewound(fs) + 1)
  IN  /\ cstack' = <<act>> \o below
      /\ frames' = [frames EXCEPT ![trun] = fr]
      /\ nccall' = [nccall EXCEPT ![trun] = act.nccall]
      /\ nxyield' = [nxyield EXCEPT ![trun] = 0]
      /\ ctl' = IF fr[1].kfun THEN "run" ELSE "badcont"
      /\ UNCHANGED <<trun, status, caller, body, args, errfun>>

(* alo_resume returns the error; thread.resume raises it again, and        *)
(* thread.presume does not.                                                *)
Dies(act, below, fs) ==
  /\ ResumeEnds(act, below, "Err")
  /\ frames' = [frames EXCEPT ![trun] = fs]
  /\ ctl' \in {"run", "throw"} /\ (act.from = Main /\ act.depth = 0 => ctl' = "run")
  /\ UNCHANGED <<caller, body, args, errfun>>

(* aloD_throw: to the label, or to G->panic and abort.                     *)
Jump ==
  /\ ctl = "jump"
  /\ IF Labels = {}
     THEN /\ ctl' = "abort" /\ status' = [status EXCEPT ![trun] = "Err"]
          /\ UNCHANGED <<trun, caller, stacks, body, args, counters, errfun>>
     ELSE LET act == cstack[Label]
              below == SubSeq(cstack, Label + 1, Len(cstack))
          IN  IF act.fn = "pcall" THEN Caught(act, below, Fs)
              ELSE IF Protectors(Fs) # {} THEN Recover(act, below, Fs)
              ELSE Dies(act, below, Fs)

(* The code in control raises an error.                                    *)
Throw ==
  /\ ctl = "run" /\ Fs # <<>>
  /\ ctl' = "throw"
  /\ UNCHANGED <<trun, status, caller, stacks, body, args, counters, errfun>>

(* aloU_error: the error handler is called where the error is.  When that  *)
(* call overflows the C stack at MaxCCall, stackerror raises an error for  *)
(* which aloU_error calls the handler again, and so on for ever.           *)
Handle ==
  /\ ctl = "throw"
  /\ IF ~errfun[trun] \/ nccall[trun] = MaxCCall
     THEN /\ ctl' = IF errfun[trun] THEN "recursion" ELSE "jump"
          /\ UNCHANGED <<trun, status, caller, stacks, body, args, counters, errfun>>
     ELSE Call(Act("handler", TRUE), Fs, TRUE)

-----------------------------------------------------------------------------
(* Coroutines.                                                             *)

(* alo_yieldk from a C function; k: a continuation is given.  The frame    *)
(* left on top has none, and its function returns when resumed.            *)
Yieldk(k) ==
  /\ InC /\ Fs # <<>>
  /\ IF nxyield[trun] > 0
     THEN /\ ctl' = "throw"
          /\ UNCHANGED <<trun, status, caller, stacks, body, args, counters, errfun>>
     ELSE /\ Labels # {} /\ (k => Room)
          /\ LET act == cstack[Label]
                 below == SubSeq(cstack, Label + 1, Len(cstack))
                 fs == IF k THEN <<Frame("c")>> \o Mark(Mark(Fs, "kfun", TRUE), "ypc", TRUE)
                       ELSE Mark(Fs, "kfun", FALSE)
             IN  IF act.fn = "pcall" THEN Caught(act, below, fs)
                 ELSE /\ ResumeEnds(act, below, "Yield")
                      /\ frames' = [frames EXCEPT ![trun] = fs]
                      /\ caller' = [caller EXCEPT ![trun] = NoThread]
                      /\ UNCHANGED <<body, args, errfun, ctl>>

(* The checks of alo_resume, after aux_resume has moved n arguments.       *)
NotSuspended(t) == t = Main \/ status[t] = "Run"
Values(t) == IF body[t] THEN args[t] + 1 ELSE args[t]

(* Fault: the status is not looked at. *)
Dead_OnlyFinished(t, n) == frames[t] = <<>> /\ Values(t) + n # 1

(* "the coroutine is already dead."                                        *)
Dead(t, n) == status[t] = "Err" \/ (frames[t] = <<>> /\ Values(t) + n # 1)

(* resume_error: presume returns it, the others raise it.                  *)
Refuse ==
  /\ ctl' \in {"run", "throw"} /\ (Fs = <<>> => ctl' = "run")
  /\ UNCHANGED <<trun, status, caller, stacks, body, counters, errfun>>

(* stackerror on the thread t, which has no label; when it has returned    *)
(* once without a yield, it still has its last caller.                     *)
OverflowOn(t) ==
  /\ nccall' = [nccall EXCEPT ![t] = nccall[trun] + 1]
  /\ IF errfun[t] /\ nccall'[t] = MaxCCall
     THEN ctl' = "recursion" /\ UNCHANGED <<status, caller>>
     ELSE /\ status' = [status EXCEPT ![t] = "Err"]
          /\ caller' = [caller EXCEPT ![t] = NoThread]
          /\ ctl' = IF caller[t] = NoThread THEN "abort"
                    ELSE IF caller[t] = trun THEN "jump" ELSE "lost"
  /\ UNCHANGED <<trun, stacks, body, nxyield, errfun>>

(* alo_resume up to its aloD_prun.                                         *)
Resumed(t) ==
  LET act == [Act("resume", FALSE) EXCEPT !.thread = t, !.nccall = nccall[trun] + 1,
                                          !.nxyield = nxyield[t]]
  IN  /\ cstack' = <<act>> \o cstack
      /\ nccall' = [nccall EXCEPT ![t] = nccall[trun] + 1]
      /\ nxyield' = [nxyield EXCEPT ![t] = 0]
      /\ trun' = t
      /\ caller' = [caller EXCEPT ![t] = trun]
      /\ status' = [status EXCEPT ![t] = "Run"]
      /\ ctl' = "enter"
      /\ UNCHANGED <<frames, body, errfun>>

(* thread.resume, thread.presume and wrapped coroutines, with n arguments. *)
Resume(t, n) ==
  /\ InC
  /\ LET inbase == frames[t] = <<>> /\ t # Main
     IN  /\ inbase => args[t] + n <= MaxArgs
         /\ args' = [args EXCEPT ![t] = IF inbase THEN @ + n ELSE @]
  /\ IF NotSuspended(t) THEN Refuse
     ELSE IF Dead(t, n) THEN Refuse 
     ELSE IF Overflows(nccall[trun] + 1) THEN OverflowOn(t)
     ELSE Resumed(t)

(* resume_unsafe.  A coroutine that has ended is called again when it is   *)
(* given one argument: what is below that is nil.                          *)
Enter ==
  /\ ctl = "enter"
  /\ IF Fs # <<>> THEN BackTo(Tail(Fs))
     ELSE /\ \/ /\ body[trun] /\ ctl' = "run"
                /\ \E kind \in Kind : frames' = [frames EXCEPT ![trun] = <<Frame(kind)>>]
             \/ ~body[trun] /\ ctl' = "throw" /\ UNCHANGED frames
          /\ body' = [body EXCEPT ![trun] = FALSE]
          /\ UNCHANGED <<trun, status, caller, args, counters, errfun, cstack>>

-----------------------------------------------------------------------------
(* The main thread runs the host program, the others wait to be resumed    *)
(* with their function on the stack (alo_newthread, coro_create).          *)
Init ==
  /\ trun = Main
  /\ status = [t \in Thread |-> IF t = Main THEN "Run" ELSE "Yield"]
  /\ caller = [t \in Thread |-> NoThread]
  /\ frames = [t \in Thread |-> <<>>]
  /\ body = [t \in Thread |-> t # Main]
  /\ args = [t \in Thread |-> 0]
  /\ nccall = [t \in Thread |-> 0] /\ nxyield = [t \in Thread |-> 0]
  /\ errfun = [t \in Thread |-> FALSE]
  /\ cstack = <<>>
  /\ ctl = "run"

Program ==
  \/ Precall \/ MetaCall \/ Return \/ Throw
  \/ \E k \in BOOLEAN : Callk(k) \/ Yieldk(k)
  \/ \E k \in BOOLEAN, ef \in BOOLEAN : Pcallk(k, ef)
  \/ \E t \in Thread, n \in 0..MaxArgs : Resume(t, n)

Next == Program \/ Enter \/ Handle \/ Jump

Spec == Init /\ [][Next]_vars

-----------------------------------------------------------------------------
(* Properties.                                                             *)

FrameSet == [kind : Kind, kfun : BOOLEAN, ypc : BOOLEAN, bare : BOOLEAN]
ActSet ==
  [fn : {"call", "meta", "pcall", "pcallk", "handler", "resume"}, thread : Thread,
   from : Thread, depth : Nat, noyield : BOOLEAN, nccall : Nat, nxyield : Nat,
   errfun : BOOLEAN]

TypeOK ==
  /\ trun \in Thread
  /\ status \in [Thread -> {"Run", "Yield", "Err"}]
  /\ caller \in [Thread -> Thread \cup {NoThread}]
  /\ frames \in [Thread -> Seq(FrameSet)]
  /\ body \in [Thread -> BOOLEAN] /\ args \in [Thread -> 0..MaxArgs]
  /\ nccall \in [Thread -> 0..(MaxCCall + ExtraErrCall + 1)]
  /\ nxyield \in [Thread -> Nat]
  /\ errfun \in [Thread -> BOOLEAN]
  /\ cstack \in Seq(ActSet)
  /\ ctl \in Control

Alive == ctl \notin Ends
Resumes == {i \in DOMAIN cstack : cstack[i].fn = "resume"}

(* The threads in control: the running one, its caller, and so on.         *)
InControl == {Main} \cup {cstack[i].thread : i \in Resumes}

(* astate.h, caller and trun: the threads that have resumed one another    *)
(* are all in status Run, no other is, and each points to the one that     *)
(* gets control when it yields, ends or fails.  No thread is in the chain  *)
(* twice.                                                                  *)
ChainKept == Alive =>
  /\ \A t \in Thread : status[t] = "Run" <=> t \in InControl
  /\ \A i \in Resumes : caller[cstack[i].thread] = cstack[i].from
  /\ \A i, j \in Resumes : cstack[i].thread = cstack[j].thread => i = j
  /\ \A i \in DOMAIN cstack : (\A j \in 1..(i - 1) : j \notin Resumes) => cstack[i].thread = trun

(* astate.h, "C caller depth": however the activations above were left,    *)
(* the running thread counts exactly those on the C stack, its callers'    *)
(* included.                                                               *)
DepthCounted == ctl = "run" => nccall[trun] = Len(cstack)

(* astate.h, "nested non-yieldable depth": it is the number of             *)
(* activations of the thread that cannot be yielded across.                *)
NoYields(t) == {i \in DOMAIN cstack : cstack[i].thread = t /\ cstack[i].noyield}
BoundariesCounted ==
  ctl = "run" => \A t \in InControl : nxyield[t] = Cardinality(NoYields(t))

(* postpcc, "the continuation is not available.": when a coroutine is      *)
(* suspended, every C function in it but the one that yielded can be       *)
(* continued, unless it was calling a metamethod: callbin and its like     *)
(* (ameta.c) forbid no yield.                                              *)
Continuable(t, i) == frames[t][i].kind = "c" => frames[t][i].kfun
ContinuableUnlessBare ==
  \A t \in Thread : status[t] = "Yield" =>
    \A i \in 2..Len(frames[t]) : Continuable(t, i) \/ frames[t][i].bare

(* alo_resume, "the coroutine is already dead.": a coroutine that failed   *)
(* is never in control again, and one that returned never gets a frame,    *)
(* but for the error handler of a protected call that is long over.        *)
EndedStaysEnded ==
  [][\A t \in Thread \ {Main} :
       /\ status[t] = "Err" => status'[t] = "Err" /\ frames'[t] = frames[t]
       /\ ~body[t] /\ frames[t] = <<>> => frames'[t] = <<>> \/ errfun[t]]_vars

=============================================================================
