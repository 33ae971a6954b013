------------------------ MODULE MCProviderActivation ------------------------
\* Two providers that share a capability family.
EXTENDS ProviderActivation, TLC

CONSTANTS a, b, r1, r2, f1, f2, c1

MCServices == a :> <<f1, f2>> @@ b :> <<f1>>
MCRunProvider == [r \in Runs |-> {a, b}]
============================================================================
