------------------------- MODULE ServingGenerations -------------------------
(***************************************************************************)
(* What the provider lifecycle manager promises its callers: a provider    *)
(* has at most one serving generation, work begins on a generation that is *)
(* not retired, a generation is stopped only when no work is left on it,   *)
(* and a retired generation never serves again.  Candidates, readiness,    *)
(* draining, polling and counters are how the manager keeps the promise    *)
(* (module ProviderGenerations) and do not appear here.                    *)
(***************************************************************************)
CONSTANTS Providers, Generations, Clients, None

VARIABLES serving,   \* the generation of a provider that takes new work
          work,      \* the generation a client works on
          stopped,   \* generations retired in good order
          failed     \* generations retired by a failure

abstractVars == <<serving, work, stopped, failed>>

Init ==
  /\ serving = [p \in Providers |-> None]
  /\ work = [c \in Clients |-> None]
  /\ stopped = {} /\ failed = {}

Retired == stopped \cup failed
Idle(g) == \A c \in Clients : work[c] # g
Unserved(g) == [p \in Providers |-> IF serving[p] = g THEN None ELSE serving[p]]

\* New work of p goes to g.
Switch(p, g) ==
  /\ g \notin Retired
  /\ serving' = [serving EXCEPT ![p] = g]
  /\ UNCHANGED <<work, stopped, failed>>

\* The last switch of p failed: h, or nothing, serves again.
TakeBack(p, h) ==
  /\ serving[p] \in Generations /\ Idle(serving[p])
  /\ h = None \/ (h \in Generations \ Retired /\ h # serving[p])
  /\ failed' = failed \cup {serving[p]}
  /\ serving' = [serving EXCEPT ![p] = h]
  /\ UNCHANGED <<work, stopped>>

Stop(g) ==
  /\ Idle(g)
  /\ stopped' = stopped \cup {g} /\ failed' = failed \ {g}
  /\ serving' = Unserved(g)
  /\ UNCHANGED work

Fail(g) ==
  /\ failed' = failed \cup {g} /\ stopped' = stopped \ {g}
  /\ serving' = Unserved(g)
  /\ UNCHANGED work

Begin(c, g) ==
  /\ work[c] = None /\ g \notin Retired
  /\ work' = [work EXCEPT ![c] = g]
  /\ UNCHANGED <<serving, stopped, failed>>

End(c) ==
  /\ work' = [work EXCEPT ![c] = None]
  /\ UNCHANGED <<serving, stopped, failed>>

Next ==
  \/ \E p \in Providers, g \in Generations : Switch(p, g)
  \/ \E p \in Providers, h \in Generations \cup {None} : TakeBack(p, h)
  \/ \E g \in Generations : Stop(g) \/ Fail(g)
  \/ \E c \in Clients : End(c) \/ \E g \in Generations : Begin(c, g)

Spec == Init /\ [][Next]_abstractVars
============================================================================
