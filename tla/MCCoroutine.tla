---------------------------- MODULE MCCoroutine ----------------------------
(* Small instances of Coroutine. *)
EXTENDS Coroutine, TLC

(* Coroutines differ by nothing but their names. *)
Symmetry == Permutations(Thread \ {Main})
=============================================================================
