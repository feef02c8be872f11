--------------------------- MODULE Reachability ---------------------------
(***************************************************************************)
(* Reachability in a finite directed graph, written without recursion so   *)
(* that the modules which use it can be proved about.  A graph over the    *)
(* nodes N is a function edge \in [N -> SUBSET N].                         *)
(***************************************************************************)

(* S is closed when every edge that leaves a member of S and ends in `via` *)
(* ends in S.                                                              *)
ClosedUnder(S, edge, via) == \A x \in S : edge[x] \cap via \subseteq S

(* The least set that contains `seeds` and is closed under the edges into  *)
(* `via`: what a traversal which starts at `seeds` and only enters nodes   *)
(* of `via` visits.                                                        *)
ReachVia(N, edge, seeds, via) ==
  {x \in N : \A S \in SUBSET N :
                (seeds \subseteq S /\ ClosedUnder(S, edge, via)) => x \in S}

Reach(N, edge, seeds) == ReachVia(N, edge, seeds, N)

=============================================================================
