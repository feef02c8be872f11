----------------------------- MODULE AbstractMap -----------------------------
(***************************************************************************)
(* What a table promises: a finite map from keys to values, of which a     *)
(* pair is set, a key is removed, or all are.                              *)
(***************************************************************************)
CONSTANTS Key, Val

VARIABLE map   \* a function from the keys present to their values

MInit == map = <<>>   \* the function with the empty domain

(* How one operation changes the map m. *)
Set(m, k, v) == [j \in DOMAIN m \cup {k} |-> IF j = k THEN v ELSE m[j]]
Delete(m, k) == [j \in DOMAIN m \ {k} |-> m[j]]

MNext ==
  LET m == map
  IN  map' \in {Set(m, k, v) : k \in Key, v \in Val} \cup {Delete(m, k) : k \in DOMAIN m} \cup {<<>>}

MSpec == MInit /\ [][MNext]_map

=============================================================================
