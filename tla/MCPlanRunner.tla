---------------------------- MODULE MCPlanRunner ----------------------------
(***************************************************************************)
(* PlanRunner on a document with two roots, of which the second has no     *)
(* action, followed by a level with a wait and one more node.              *)
(***************************************************************************)
EXTENDS PlanRunner, TLC

TwoByTwo == (1 :> {} @@ 2 :> {} @@ 3 :> {1} @@ 4 :> {1})
=============================================================================
