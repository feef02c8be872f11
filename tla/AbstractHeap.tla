--------------------------- MODULE AbstractHeap ---------------------------
(***************************************************************************)
(* What a garbage collector promises to the rest of the program.  The heap *)
(* is a set of allocated objects, the references they hold and the objects *)
(* the program can name directly (the roots).  The program allocates,      *)
(* stores, loads and drops; the collector may free objects, but only       *)
(* objects that no chain of references from a root leads to.               *)
(***************************************************************************)
EXTENDS Reachability

CONSTANT Object

VARIABLES alloc,  \* the allocated objects
          ref,    \* the references each object holds
          roots   \* the objects the program names directly

hvars == <<alloc, ref, roots>>

Live == Reach(Object, ref, roots)

(* Everything the program can get at is allocated. *)
NoLiveDangling == Live \subseteq alloc

HInit ==
  /\ alloc \subseteq Object
  /\ ref \in [Object -> SUBSET Object]
  /\ roots \subseteq Object
  /\ NoLiveDangling

(* The program's own steps: whatever it does, nothing disappears and it    *)
(* only gets at allocated objects.                                         *)
Program ==
  /\ alloc \subseteq alloc'
  /\ NoLiveDangling'

(* The collector frees objects that are not live, allocates nothing and    *)
(* leaves the roots and the references of the remaining objects alone.     *)
Free ==
  /\ alloc' \subseteq alloc
  /\ Live \cap (alloc \ alloc') = {}
  /\ \A o \in alloc' : ref'[o] = ref[o]
  /\ UNCHANGED roots

HNext == Program \/ Free

HSpec == HInit /\ [][HNext]_hvars

=============================================================================
