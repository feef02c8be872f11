------------------------------ MODULE MCAloGC ------------------------------
(* Small heaps for AloGC. *)
EXTENDS AloGC
=============================================================================
