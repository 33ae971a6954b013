----------------------------- MODULE ToolCalls -----------------------------
(***************************************************************************)
(* The bound shared by the modules of the tool implementations: how many   *)
(* calls are made in all, and how many things go wrong outside the agent   *)
(* (a machine stops, a service restarts, a remote call is refused).        *)
(***************************************************************************)
EXTENDS Naturals

CONSTANTS MaxCalls, MaxTroubles
ASSUME BudgetAssumption == MaxCalls \in Nat /\ MaxTroubles \in Nat

VARIABLES calls, troubles
budget == <<calls, troubles>>

BudgetInit == calls = 0 /\ troubles = 0
BudgetTypeOK == calls \in 0..MaxCalls /\ troubles \in 0..MaxTroubles
Called == calls < MaxCalls /\ calls' = calls + 1 /\ UNCHANGED troubles
Trouble == troubles < MaxTroubles /\ troubles' = troubles + 1 /\ UNCHANGED calls
============================================================================
