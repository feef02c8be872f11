----------------------------- MODULE MCAloTable -----------------------------
(* Small tables: three keys share a chain when the capacity is 4, one of   *)
(* them goes its own way when it is 8.                                     *)
EXTENDS AloTable, TLC
CONSTANTS k1, k2, k3, k4
MCKey == {k1, k2, k3, k4}
MCHash == (k1 :> 0 @@ k2 :> 8 @@ k3 :> 4 @@ k4 :> 3)
=============================================================================
