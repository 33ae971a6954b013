---------------------------- MODULE MCHostPlanRun ----------------------------
(* HostPlanRun with interchangeable requests, resumers and answers. *)
EXTENDS HostPlanRun, TLC

Symmetry == Permutations(Launchers) \cup Permutations(Resumers)
            \cup Permutations(Updaters)
==============================================================================
