---------------------- MODULE MCProviderGenerations ----------------------
(* ProviderGenerations with interchangeable providers and clients. *)
EXTENDS ProviderGenerations, TLC

Symmetry == Permutations(Providers) \cup Permutations(Clients)
==========================================================================
