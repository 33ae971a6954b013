------------------------- MODULE MCHostReservations -------------------------
(***************************************************************************)
(* HostReservations with declared costs: a heavy job and a costly control  *)
(* operation ask for two units, a normal job for one.  With three units of *)
(* capacity, both the class limits and the capacity refuse something.      *)
(***************************************************************************)
EXTENDS HostReservations, TLC

MCCost == [c \in Classes |-> IF c = "normal" THEN 1 ELSE 2]

Symmetry == Permutations(Jobs) \cup Permutations(Agents)
=============================================================================
