---------------------------- MODULE MCGCFinalize ----------------------------
(* Small instances of GCFinalize. *)
EXTENDS GCFinalize
=============================================================================
