--------------------------- MODULE MCHostServices ---------------------------
(***************************************************************************)
(* The tool implementations of the host's domains, each with concurrent    *)
(* callers, outside interference and restarts.  They share no state, so a  *)
(* behaviour works in one domain, chosen at first, and the others rest in  *)
(* one of their initial states; calls starts so that each domain has the   *)
(* number of calls its own cases need.  The sets of model values are       *)
(* shared between the domains to keep the symmetry group small.            *)
(***************************************************************************)
EXTENDS K3sStorage, PostgresService, LocalLLMRelay, LocalLLMRuntimes, IncusInstances,
        PublicMCP, HostPolicy, OciImages, ServingAssignments, TLC

CONSTANTS a1, a2, b1, b2, c1, c2, c3
Callers == {a1, a2}
Pairs == {b1, b2}
Triples == {c1, c2, c3}
Symmetric == Permutations(Callers) \cup Permutations(Pairs) \cup Permutations(Triples)
OneDigest == [i \in Pairs |-> "digest"]
\* One list names a source twice; to the code the two lists are the same set.
RelayPolicies == {[sources |-> <<1, 1>>, upstream |-> 1], [sources |-> <<1, 2>>, upstream |-> 2]}

CallsIn == [storage |-> 2, postgres |-> 3, relay |-> 3, ollama |-> 3, llama |-> 3, incus |-> 2,
            public |-> 2, policy |-> 3, oci |-> 2, serving |-> 2]
VARIABLE domain
Rests(d, state) == domain # d => state

Init ==
  /\ domain \in DOMAIN CallsIn /\ calls = MaxCalls - CallsIn[domain]
  /\ StorageInit
  /\ PgInit /\ Rests("postgres", operator = "absent")
  /\ LlmRelayInit
  /\ LlmInit /\ Rests("ollama", ollamaApi = "none")
  /\ Rests("llama", portOwner = "none" /\ \A m \in LlmModels : artifact[m] = "absent")
  /\ IncusInit /\ Rests("incus", poolEnforces /\ OwnershipMode = "audit" /\ \A n \in IncusNames : instances[n] = NoInstance)
  /\ troubles = IF domain = "incus" /\ OwnershipMode = "audit" THEN MaxTroubles - 1 ELSE 0
  /\ PublicInit /\ Rests("public", quickUnit = NoFile /\ tokenFile = NoFile)
  /\ HostPolicyInit /\ Rests("policy", sliceFile = "absent")
  /\ OciInit /\ Rests("oci", \A i \in OciImageIds : ~ociImages[i].present)
  /\ ServingInit /\ Rests("serving", stray = "none")

Next ==
  \/ /\ domain = "storage" /\ StorageNext
     /\ UNCHANGED <<domain, pgVars, llmRelayVars, llmVars, incusVars, publicVars, hostPolicyVars, ociVars, servingVars>>
  \/ /\ domain = "postgres" /\ PgNext
     /\ UNCHANGED <<domain, storageVars, llmRelayVars, llmVars, incusVars, publicVars, hostPolicyVars, ociVars, servingVars>>
  \/ /\ domain = "relay" /\ LlmRelayNext
     /\ UNCHANGED <<domain, storageVars, pgVars, llmVars, incusVars, publicVars, hostPolicyVars, ociVars, servingVars>>
  \/ /\ domain = "ollama" /\ OllamaNext
     /\ UNCHANGED <<domain, storageVars, pgVars, llmRelayVars, incusVars, publicVars, hostPolicyVars, ociVars, servingVars>>
  \/ /\ domain = "llama" /\ LlamaNext
     /\ UNCHANGED <<domain, storageVars, pgVars, llmRelayVars, incusVars, publicVars, hostPolicyVars, ociVars, servingVars>>
  \/ /\ domain = "incus" /\ IncusNext
     /\ UNCHANGED <<domain, storageVars, pgVars, llmRelayVars, llmVars, publicVars, hostPolicyVars, ociVars, servingVars>>
  \/ /\ domain = "public" /\ PublicNext
     /\ UNCHANGED <<domain, storageVars, pgVars, llmRelayVars, llmVars, incusVars, hostPolicyVars, ociVars, servingVars>>
  \/ /\ domain = "policy" /\ HostPolicyNext
     /\ UNCHANGED <<domain, storageVars, pgVars, llmRelayVars, llmVars, incusVars, publicVars, ociVars, servingVars>>
  \/ /\ domain = "oci" /\ OciNext
     /\ UNCHANGED <<domain, storageVars, pgVars, llmRelayVars, llmVars, incusVars, publicVars, hostPolicyVars, servingVars>>
  \/ /\ domain = "serving" /\ ServingNext
     /\ UNCHANGED <<domain, storageVars, pgVars, llmRelayVars, llmVars, incusVars, publicVars, hostPolicyVars, ociVars>>

vars == <<budget, domain, storageVars, pgVars, llmRelayVars, llmVars, incusVars, publicVars, hostPolicyVars, ociVars, servingVars>>
Spec == Init /\ [][Next]_vars
=============================================================================
