--------------------- MODULE ProviderGenerationsProofs ---------------------
(***************************************************************************)
(* ProviderGenerations and ProviderActivation are correct for every set of *)
(* providers, clients and runs and every bound on the sequence counter.    *)
(* The manager comes first, then the activations that call it.             *)
(*                                                                         *)
(* Two inductive invariants are used.  ActiveInv is about the active map   *)
(* and the states alone.  SessionInv adds the session counters: that a     *)
(* stopped generation carries nothing needs the counter to be the number   *)
(* of sessions held, and resetting the counter of a new candidate is       *)
(* harmless only because its sequence number was never used before.        *)
(*                                                                         *)
(* An activation has two invariants as well.  ActivationInv holds whatever *)
(* runs overlap.  ApartInv says how far each run has come, which another   *)
(* run about the same provider, or about one that shares a capability      *)
(* family, can undo: it is kept while no two such runs are in progress.    *)
(***************************************************************************)
EXTENDS ProviderActivation, FiniteSetTheorems, TLAPS

\* A session is only ever held on a generation that exists.
HeldExists ==
  \A c \in Clients : session[c] # None => state[session[c]] # "absent"

\* Only a generation that exists is ever drained.
DrainedExists ==
  \A g \in GenerationIds : drain[g] # "none" => state[g] # "absent"

ActiveInv ==
  /\ SequenceCovers
  /\ DrainedExists
  /\ ActiveMapIsSound
  /\ OneActive

SessionInv ==
  /\ HeldExists
  /\ SessionsCounted
  /\ StoppedCarriesNothing

\* A generation identifier names a provider and a sequence number.
LEMMA IdParts ==
  ASSUME NEW g \in GenerationIds
  PROVE  provider(g) \in Providers /\ g[2] \in 1..MaxSequence
BY DEF GenerationIds, provider

\* The variables keep their types (all actions of generation.go).
LEMMA TypeInduction ==
  ASSUME TypeOK, [Next]_vars
  PROVE  TypeOK'
<1> USE DEF TypeOK
<1>1. CASE Serve
  BY <1>1 DEF Serve
<1>2. CASE \E p \in Providers : CreateCandidate(p)
  <2>1. PICK p \in Providers : CreateCandidate(p)
    BY <1>2
  <2>2. sequence' \in 0..MaxSequence
    BY <2>1, SequenceAssumption DEF CreateCandidate
  <2> QED
    BY <2>1, <2>2 DEF CreateCandidate, States
<1>3. ASSUME NEW g \in GenerationIds, NEW s \in States, Restore(g, s)
      PROVE  TypeOK'
  <2>1. provider(g) \in Providers /\ g[2] \in 1..MaxSequence
    BY IdParts
  <2>2. sequence' \in 0..MaxSequence
    BY <1>3, <2>1, SequenceAssumption DEF Restore
  <2> QED
    BY <1>3, <2>1, <2>2 DEF Restore
<1>4. ASSUME NEW g \in GenerationIds,
             MarkReady(g) \/ DrainStarts(g) \/ DrainPolls(g) \/ DrainWaits(g)
      PROVE  TypeOK'
  BY <1>4 DEF MarkReady, DrainStarts, DrainPolls, DrainWaits, States
<1>5. ASSUME NEW g \in GenerationIds, Activate(g)
      PROVE  TypeOK'
  BY <1>5 DEF Activate, States
<1>6. ASSUME NEW g \in GenerationIds, NEW h \in GenerationIds \cup {None},
             RollbackActivation(g, h)
      PROVE  TypeOK'
  BY <1>6 DEF RollbackActivation, States
<1>7. ASSUME NEW g \in GenerationIds, Dispose(g) \/ Fail(g) \/ DrainDisposes(g)
      PROVE  TypeOK'
  BY <1>7 DEF Dispose, Fail, DrainDisposes, Disposed, DeleteActive, States
<1>8. ASSUME NEW c \in Clients, NEW p \in Providers, OpenSession(c, p)
      PROVE  TypeOK'
  BY <1>8 DEF OpenSession, Opened
<1>9. ASSUME NEW c \in Clients, NEW g \in GenerationIds,
             OpenSessionForGeneration(c, g)
      PROVE  TypeOK'
  BY <1>9 DEF OpenSessionForGeneration, Opened
<1>10. ASSUME NEW c \in Clients, CloseSession(c)
       PROVE  TypeOK'
  BY <1>10 DEF CloseSession
<1>11. CASE UNCHANGED vars
  BY <1>11 DEF vars
<1> QED
  BY <1>1, <1>2, <1>3, <1>4, <1>5, <1>6, <1>7, <1>8, <1>9, <1>10, <1>11
  DEF Next

\* Every reachable state of the lifecycle manager is well typed; in particular
\* Restore and CreateCandidate keep the sequence counter within its bound.
THEOREM TypeCorrect == Spec => []TypeOK
<1>1. Init => TypeOK
  BY SequenceAssumption DEF Init, TypeOK
<1> QED
  BY <1>1, TypeInduction, PTL DEF Spec

----------------------------------------------------------------------------
\* Retiring a generation (Dispose, Fail, the end of a Drain) takes it out of
\* the active map in the same critical section.
LEMMA RetireKeepsActive ==
  ASSUME TypeOK, ActiveInv, DrainedExists', NEW g \in GenerationIds,
         NEW s \in {"stopped", "failed"},
         state[g] # "absent", state' = [state EXCEPT ![g] = s],
         DeleteActive(g), UNCHANGED <<boot, sequence>>
  PROVE  ActiveInv'
<1> USE DEF ActiveInv
<1>1. provider(g) \in Providers
  BY IdParts
<1>2. ActiveMapIsSound'
  BY <1>1, NoneAssumption DEF TypeOK, ActiveMapIsSound, DeleteActive
<1>3. OneActive'
  <2>1. SUFFICES ASSUME boot' # "refused", NEW h \in GenerationIds,
                        state'[h] = "active"
                 PROVE  active'[provider(h)] = h
    BY DEF OneActive
  <2>2. h # g /\ state[h] = "active"
    BY <2>1 DEF TypeOK
  <2>3. active[provider(h)] = h /\ provider(h) \in Providers
    BY <2>1, <2>2, IdParts DEF OneActive
  <2> QED
    BY <1>1, <2>2, <2>3 DEF TypeOK, DeleteActive
<1>4. SequenceCovers'
  BY DEF SequenceCovers, TypeOK
<1> QED
  BY <1>2, <1>3, <1>4

\* No step makes a generation disappear, and Drain checks that its argument
\* is known before it polls.
LEMMA DrainedInduction ==
  ASSUME TypeOK, DrainedExists, [Next]_vars
  PROVE  DrainedExists'
<1> USE DEF DrainedExists, TypeOK
<1>1. ASSUME UNCHANGED <<state, drain>>
      PROVE  DrainedExists'
  BY <1>1
<1>2. ASSUME NEW p \in Providers, CreateCandidate(p)
      PROVE  DrainedExists'
  BY <1>2 DEF CreateCandidate
<1>3. ASSUME NEW g \in GenerationIds, NEW s \in States, Restore(g, s)
      PROVE  DrainedExists'
  BY <1>3 DEF Restore, States
<1>4. ASSUME NEW g \in GenerationIds,
             MarkReady(g) \/ Activate(g) \/ Dispose(g) \/ Fail(g)
      PROVE  DrainedExists'
  BY <1>4 DEF MarkReady, Activate, Dispose, Fail, Disposed
<1>5. ASSUME NEW g \in GenerationIds, NEW h \in GenerationIds \cup {None},
             RollbackActivation(g, h)
      PROVE  DrainedExists'
  BY <1>5 DEF RollbackActivation
<1>6. ASSUME NEW g \in GenerationIds,
             \/ DrainStarts(g) \/ DrainPolls(g) \/ DrainWaits(g)
             \/ DrainDisposes(g)
      PROVE  DrainedExists'
  BY <1>6 DEF DrainStarts, DrainPolls, DrainWaits, DrainDisposes, Disposed
<1>7. ASSUME NEW c \in Clients,
             \/ \E p \in Providers : OpenSession(c, p)
             \/ \E g \in GenerationIds : OpenSessionForGeneration(c, g)
             \/ CloseSession(c)
      PROVE  DrainedExists'
  BY <1>1, <1>7 DEF OpenSession, OpenSessionForGeneration, Opened, CloseSession
<1> QED
  BY <1>1, <1>2, <1>3, <1>4, <1>5, <1>6, <1>7 DEF Next, Serve, vars

\* Every step keeps the active map and the active states in agreement.
LEMMA ActiveInduction ==
  ASSUME TypeOK, ActiveInv, [Next]_vars
  PROVE  ActiveInv'
<1> USE DEF ActiveInv
<1>0. DrainedExists'
  BY DrainedInduction
<1> USE <1>0
<1>1. CASE UNCHANGED <<boot, state, active, sequence>>
  BY <1>1 DEF ActiveMapIsSound, OneActive, SequenceCovers
<1>2. CASE Serve
  BY <1>2 DEF Serve, ActiveMapIsSound, OneActive, SequenceCovers
<1>3. ASSUME NEW p \in Providers, CreateCandidate(p)
      PROVE  ActiveInv'
  <2> DEFINE n == <<p, sequence + 1>>
  <2>1. n \in GenerationIds /\ n[2] = sequence + 1
    BY <1>3, SequenceAssumption DEF CreateCandidate, GenerationIds, TypeOK
  <2>2. /\ state' = [state EXCEPT ![n] = "candidate"]
        /\ sequence' = sequence + 1
        /\ UNCHANGED <<boot, active>>
    BY <1>3 DEF CreateCandidate
  <2>3. state[n] = "absent"
    BY <2>1 DEF SequenceCovers, TypeOK
  <2>4. SequenceCovers'
    BY <2>1, <2>2, IdParts, SequenceAssumption DEF SequenceCovers, TypeOK
  <2>5. ActiveMapIsSound'
    BY <2>1, <2>2, <2>3 DEF ActiveMapIsSound, TypeOK
  <2>6. OneActive'
    BY <2>1, <2>2 DEF OneActive, TypeOK
  <2> QED
    BY <2>4, <2>5, <2>6
<1>4. ASSUME NEW g \in GenerationIds, NEW s \in States, Restore(g, s)
      PROVE  ActiveInv'
  <2>1. provider(g) \in Providers /\ g[2] \in 1..MaxSequence
    BY IdParts
  <2>2. SequenceCovers'
    BY <1>4, <2>1, IdParts, SequenceAssumption DEF Restore, SequenceCovers, TypeOK
  <2>3. ActiveMapIsSound'
    BY <1>4, <2>1, NoneAssumption DEF Restore, ActiveMapIsSound, TypeOK
  <2>4. OneActive'
    <3>1. SUFFICES ASSUME boot' # "refused", NEW h \in GenerationIds,
                          state'[h] = "active"
                   PROVE  active'[provider(h)] = h
      BY DEF OneActive
    <3>2. provider(h) \in Providers
      BY IdParts
    <3>3. CASE h = g
      BY <1>4, <2>1, <3>1, <3>3 DEF Restore, TypeOK
    <3>4. CASE h # g
      <4>1. active[provider(h)] = h
        BY <1>4, <3>1, <3>4 DEF Restore, TypeOK, OneActive
      <4> QED
        BY <1>4, <2>1, <3>1, <3>2, <3>4, <4>1, NoneAssumption
        DEF Restore, TypeOK
    <3> QED
      BY <3>3, <3>4
  <2> QED
    BY <2>2, <2>3, <2>4
<1>5. ASSUME NEW g \in GenerationIds, MarkReady(g)
      PROVE  ActiveInv'
  BY <1>5 DEF MarkReady, ActiveMapIsSound, OneActive, SequenceCovers, TypeOK
<1>6. ASSUME NEW g \in GenerationIds, Activate(g)
      PROVE  ActiveInv'
  <2>1. provider(g) \in Providers
    BY IdParts
  <2>2. SequenceCovers'
    BY <1>6 DEF Activate, SequenceCovers, TypeOK
  <2>3. ActiveMapIsSound'
    BY <1>6, <2>1 DEF Activate, ActiveMapIsSound, TypeOK
  <2>4. OneActive'
    BY <1>6, <2>1, IdParts DEF Activate, OneActive, TypeOK
  <2> QED
    BY <2>2, <2>3, <2>4
<1>7. ASSUME NEW g \in GenerationIds, NEW h \in GenerationIds \cup {None},
             RollbackActivation(g, h)
      PROVE  ActiveInv'
  <2>1. provider(g) \in Providers
    BY IdParts
  <2>2. SequenceCovers'
    BY <1>7 DEF RollbackActivation, SequenceCovers, TypeOK
  <2>3. ActiveMapIsSound'
    BY <1>7, <2>1, NoneAssumption DEF RollbackActivation, ActiveMapIsSound, TypeOK
  <2>4. OneActive'
    BY <1>7, <2>1, IdParts, NoneAssumption DEF RollbackActivation, OneActive, TypeOK
  <2> QED
    BY <2>2, <2>3, <2>4
<1>8. ASSUME NEW g \in GenerationIds, Dispose(g) \/ Fail(g)
      PROVE  ActiveInv'
  BY <1>8, RetireKeepsActive DEF Dispose, Fail, Disposed
<1>9. ASSUME NEW g \in GenerationIds, DrainDisposes(g)
      PROVE  ActiveInv'
  BY <1>1, <1>9, RetireKeepsActive DEF DrainDisposes, Disposed, DrainedExists
<1>10. ASSUME NEW g \in GenerationIds,
              DrainStarts(g) \/ DrainPolls(g) \/ DrainWaits(g)
       PROVE  ActiveInv'
  BY <1>1, <1>10 DEF DrainStarts, DrainPolls, DrainWaits
<1>11. ASSUME NEW c \in Clients,
              \/ \E p \in Providers : OpenSession(c, p)
              \/ \E g \in GenerationIds : OpenSessionForGeneration(c, g)
              \/ CloseSession(c)
       PROVE  ActiveInv'
  BY <1>1, <1>11 DEF OpenSession, OpenSessionForGeneration, Opened, CloseSession
<1>12. CASE UNCHANGED vars
  BY <1>1, <1>12 DEF vars
<1> QED
  BY <1>2, <1>3, <1>4, <1>5, <1>6, <1>7, <1>8, <1>9, <1>10, <1>11, <1>12
  DEF Next

----------------------------------------------------------------------------
Holders(g) == {c \in Clients : session[c] = g}

\* The counter of a generation is zero only when nobody holds a session on it.
LEMMA NoSessionNoHolder ==
  ASSUME TypeOK, SessionsCounted, NEW g \in GenerationIds
  PROVE  /\ IsFiniteSet(Holders(g))
         /\ sessions[g] = Cardinality(Holders(g))
         /\ sessions[g] = 0 <=> Holders(g) = {}
<1>1. IsFiniteSet(Holders(g))
  BY ClientsAssumption, FS_Subset DEF Holders
<1>2. sessions[g] = Cardinality(Holders(g))
  BY DEF SessionsCounted, Holders
<1> QED
  BY <1>1, <1>2, FS_EmptySet

\* Opening a session adds its client to the holders of one generation.
LEMMA OpenKeepsSessions ==
  ASSUME TypeOK, SessionInv, NEW c \in Clients, NEW g \in GenerationIds,
         session[c] = None, state[g] \notin {"absent", "stopped"}, Opened(c, g)
  PROVE  SessionInv'
<1> USE DEF Opened, TypeOK
<1>1. HeldExists'
  BY DEF SessionInv, HeldExists
<1>2. StoppedCarriesNothing'
  BY DEF SessionInv, StoppedCarriesNothing
<1>3. ASSUME NEW h \in GenerationIds
      PROVE  sessions'[h] = Cardinality({d \in Clients : session'[d] = h})
  <2>1. SessionsCounted
    BY DEF SessionInv
  <2>2. CASE h = g
    <3>1. {d \in Clients : session'[d] = h} = Holders(g) \cup {c}
      BY <2>2 DEF Holders
    <3>2. c \notin Holders(g)
      BY NoneAssumption DEF Holders
    <3>3. Cardinality(Holders(g) \cup {c}) = Cardinality(Holders(g)) + 1
      BY <2>1, <3>2, NoSessionNoHolder, FS_AddElement
    <3>4. sessions'[g] = sessions[g] + 1
      OBVIOUS
    <3> QED
      BY <2>1, <2>2, <3>1, <3>3, <3>4, NoSessionNoHolder
  <2>3. CASE h # g
    <3>1. {d \in Clients : session'[d] = h} = Holders(h)
      BY <2>3, NoneAssumption DEF Holders
    <3> QED
      BY <2>1, <2>3, <3>1, NoSessionNoHolder
  <2> QED
    BY <2>2, <2>3
<1> QED
  BY <1>1, <1>2, <1>3 DEF SessionInv, SessionsCounted

\* Closing a session takes its client out of the holders.
LEMMA CloseKeepsSessions ==
  ASSUME TypeOK, SessionInv, NEW c \in Clients, CloseSession(c)
  PROVE  SessionInv'
<1> USE DEF CloseSession, TypeOK
<1> DEFINE g == session[c]
<1>0. g \in GenerationIds /\ SessionsCounted
  BY DEF SessionInv
<1>1. HeldExists'
  BY DEF SessionInv, HeldExists
<1>2. StoppedCarriesNothing'
  BY DEF SessionInv, StoppedCarriesNothing
<1>3. ASSUME NEW h \in GenerationIds
      PROVE  sessions'[h] = Cardinality({d \in Clients : session'[d] = h})
  <2>1. CASE h = g
    <3>1. {d \in Clients : session'[d] = h} = Holders(h) \ {c}
      BY <2>1, NoneAssumption DEF Holders
    <3>2. c \in Holders(h)
      BY <2>1 DEF Holders
    <3>3. sessions[h] > 0
      BY <1>0, <3>2, NoSessionNoHolder
    <3>4. sessions'[h] = sessions[h] - 1
      BY <2>1, <3>3
    <3> QED
      BY <1>0, <3>1, <3>2, <3>4, NoSessionNoHolder, FS_RemoveElement
  <2>2. CASE h # g
    <3>1. {d \in Clients : session'[d] = h} = Holders(h)
      BY <2>2, NoneAssumption DEF Holders
    <3>2. sessions'[h] = sessions[h]
      BY <1>0, <2>2
    <3> QED
      BY <1>0, <3>1, <3>2, NoSessionNoHolder
  <2> QED
    BY <2>1, <2>2
<1> QED
  BY <1>1, <1>2, <1>3 DEF SessionInv, SessionsCounted

\* A step that leaves the sessions alone keeps the invariant when it stops
\* nothing but generations that nobody holds.
LEMMA StatesKeepSessions ==
  ASSUME TypeOK, SessionInv, UNCHANGED <<sessions, session>>,
         \A h \in GenerationIds : Holders(h) # {} =>
           /\ state'[h] = "stopped" => state[h] = "stopped"
           /\ state'[h] = "absent" => state[h] = "absent"
  PROVE  SessionInv'
<1>1. SessionsCounted'
  BY DEF SessionInv, SessionsCounted
<1>2. ASSUME NEW c \in Clients, session'[c] # None
      PROVE  state'[session'[c]] \notin {"absent", "stopped"}
  <2>1. session[c] \in GenerationIds /\ c \in Holders(session[c])
    BY <1>2 DEF TypeOK, Holders
  <2>2. state[session[c]] \notin {"absent", "stopped"}
    BY <1>2 DEF SessionInv, HeldExists, StoppedCarriesNothing
  <2> QED
    BY <2>1, <2>2
<1> QED
  BY <1>1, <1>2 DEF SessionInv, HeldExists, StoppedCarriesNothing

\* Every step keeps the counters equal to the sessions held.
LEMMA SessionInduction ==
  ASSUME TypeOK, ActiveInv, SessionInv, [Next]_vars
  PROVE  SessionInv'
<1>0. SessionsCounted /\ HeldExists
  BY DEF SessionInv
<1>1. ASSUME NEW p \in Providers, CreateCandidate(p)
      PROVE  SessionInv'
  <2> DEFINE n == <<p, sequence + 1>>
  <2>1. n \in GenerationIds /\ n[2] = sequence + 1
    BY <1>1, SequenceAssumption DEF CreateCandidate, GenerationIds, TypeOK
  <2>2. state[n] = "absent"
    BY <2>1 DEF ActiveInv, SequenceCovers, TypeOK
  <2>3. Holders(n) = {}
    BY <1>0, <2>1, <2>2, NoneAssumption DEF Holders, HeldExists
  <2>4. sessions[n] = 0
    BY <1>0, <2>1, <2>3, NoSessionNoHolder
  <2>5. UNCHANGED <<sessions, session>>
    BY <1>1, <2>4 DEF CreateCandidate, TypeOK
  <2> QED
    BY <1>1, <2>1, <2>5, StatesKeepSessions DEF CreateCandidate, TypeOK
<1>2. ASSUME NEW g \in GenerationIds, NEW s \in States, Restore(g, s)
      PROVE  SessionInv'
  <2>1. Holders(g) = {}
    BY <1>0, <1>2, NoneAssumption DEF Holders, HeldExists, Restore
  <2> QED
    BY <1>2, <2>1, StatesKeepSessions DEF Restore, TypeOK
<1>3. ASSUME NEW g \in GenerationIds, MarkReady(g) \/ Activate(g) \/ Fail(g)
      PROVE  SessionInv'
  BY <1>3, StatesKeepSessions DEF MarkReady, Activate, Fail, TypeOK
<1>4. ASSUME NEW g \in GenerationIds, NEW h \in GenerationIds \cup {None},
             RollbackActivation(g, h)
      PROVE  SessionInv'
  BY <1>4, StatesKeepSessions DEF RollbackActivation, TypeOK
<1>5. ASSUME NEW g \in GenerationIds, Dispose(g) \/ DrainDisposes(g)
      PROVE  SessionInv'
  BY <1>0, <1>5, NoSessionNoHolder, StatesKeepSessions
  DEF Dispose, DrainDisposes, Disposed, TypeOK
<1>6. ASSUME UNCHANGED <<state, sessions, session>>
      PROVE  SessionInv'
  BY <1>6, StatesKeepSessions
<1>7. ASSUME NEW c \in Clients, NEW p \in Providers, OpenSession(c, p)
      PROVE  SessionInv'
  BY <1>7, OpenKeepsSessions DEF OpenSession, TypeOK
<1>8. ASSUME NEW c \in Clients, NEW g \in GenerationIds,
             OpenSessionForGeneration(c, g)
      PROVE  SessionInv'
  BY <1>8, OpenKeepsSessions DEF OpenSessionForGeneration
<1>9. ASSUME NEW g \in GenerationIds,
             DrainStarts(g) \/ DrainPolls(g) \/ DrainWaits(g)
      PROVE  SessionInv'
  BY <1>6, <1>9 DEF DrainStarts, DrainPolls, DrainWaits
<1>10. CASE Serve \/ UNCHANGED vars
  BY <1>6, <1>10 DEF Serve, vars
<1> QED
  BY <1>1, <1>2, <1>3, <1>4, <1>5, <1>7, <1>8, <1>9, <1>10, CloseKeepsSessions
  DEF Next

\* Both invariants hold of every reachable state.
LEMMA Invariants == Spec => [](TypeOK /\ ActiveInv /\ SessionInv)
<1>1. Init => ActiveInv
  BY DEF Init, ActiveInv, SequenceCovers, DrainedExists, ActiveMapIsSound,
         OneActive
<1>2. Init => SessionInv
  <2>1. SUFFICES ASSUME Init PROVE SessionInv
    OBVIOUS
  <2>2. ASSUME NEW g \in GenerationIds
        PROVE  sessions[g] = Cardinality({c \in Clients : session[c] = g})
    <3>1. {c \in Clients : session[c] = g} = {}
      BY <2>1, NoneAssumption DEF Init
    <3> QED
      BY <2>1, <3>1, FS_EmptySet DEF Init
  <2> QED
    BY <2>1, <2>2
    DEF Init, SessionInv, SessionsCounted, HeldExists, StoppedCarriesNothing
<1> QED
  BY <1>1, <1>2, ActiveInduction, SessionInduction, TypeCorrect, PTL DEF Spec

\* From the moment the manager exists, the active map names only active
\* generations of the right provider: no way out of the active state (Activate
\* of a successor, RollbackActivation, Fail, Dispose, Drain) forgets it.
THEOREM ActiveMapCorrect == Spec => []ActiveMapIsSound
BY Invariants, PTL DEF ActiveInv

\* An agent that started never has two active generations of one provider,
\* whatever its stored rows said.
THEOREM OneActiveGeneration == Spec => []OneActive
BY Invariants, PTL DEF ActiveInv

\* The counter read by Drain and Dispose is the number of sessions held.
THEOREM SessionsAreCounted == Spec => []SessionsCounted
BY Invariants, PTL DEF SessionInv

\* No generation is stopped under a caller, for any number of callers, although
\* Drain releases the lock between its poll and its call of Dispose.
THEOREM NoSessionOnStopped == Spec => []StoppedCarriesNothing
BY Invariants, PTL DEF SessionInv

\* CreateCandidate never reuses the identifier of a generation that exists,
\* restored ones included.
THEOREM CandidatesAreFresh == Spec => CandidateIsFresh
<1> DEFINE Fresh == \A g \in GenerationIds :
                      state[g] \notin {"absent", "candidate"} =>
                        state'[g] # "candidate"
<1>1. ASSUME TypeOK, ActiveInv, [Next]_vars
      PROVE  Fresh
  <2> USE <1>1 DEF TypeOK
  <2>1. ASSUME NEW p \in Providers, CreateCandidate(p)
        PROVE  Fresh
    <3>1. <<p, sequence + 1>> \in GenerationIds
      BY <2>1, SequenceAssumption DEF CreateCandidate, GenerationIds
    <3>2. state[<<p, sequence + 1>>] = "absent"
      BY <3>1 DEF ActiveInv, SequenceCovers
    <3> QED
      BY <2>1, <3>1, <3>2 DEF CreateCandidate
  <2>2. ASSUME NEW g \in GenerationIds,
               \/ \E s \in States : Restore(g, s)
               \/ MarkReady(g) \/ Activate(g) \/ Dispose(g) \/ Fail(g)
               \/ DrainDisposes(g)
        PROVE  Fresh
    BY <2>2 DEF Restore, MarkReady, Activate, Dispose, Fail, DrainDisposes,
                Disposed
  <2>3. ASSUME NEW g \in GenerationIds, NEW h \in GenerationIds \cup {None},
               RollbackActivation(g, h)
        PROVE  Fresh
    BY <2>3 DEF RollbackActivation
  <2>4. CASE UNCHANGED state
    BY <2>4
  <2> QED
    BY <2>1, <2>2, <2>3, <2>4
    DEF Next, vars, Serve, DrainStarts, DrainPolls, DrainWaits, OpenSession,
        OpenSessionForGeneration, Opened, CloseSession
<1> QED
  BY <1>1, Invariants, PTL DEF Spec, CandidateIsFresh

\* The manager's tables agree in every reachable state, for any providers,
\* clients and number of generations.
THEOREM ManagerCorrect == Spec => []ManagerConsistent
  BY TypeCorrect, ActiveMapCorrect, OneActiveGeneration, SessionsAreCounted,
     NoSessionOnStopped, PTL DEF ManagerConsistent

\* Once stopped or failed, a generation is never made ready, activated or
\* restored again.
THEOREM RetirementIsFinal == Spec => RetiredStaysRetired
<1> DEFINE Kept == \A g \in GenerationIds :
                     state[g] \in {"stopped", "failed"} =>
                       state'[g] \in {"stopped", "failed"}
<1>1. ASSUME TypeOK, ActiveInv, [Next]_vars
      PROVE  Kept
  <2> USE <1>1 DEF TypeOK
  <2>1. ASSUME NEW p \in Providers, CreateCandidate(p)
        PROVE  Kept
    <3>1. <<p, sequence + 1>> \in GenerationIds
      BY <2>1, SequenceAssumption DEF CreateCandidate, GenerationIds
    <3>2. state[<<p, sequence + 1>>] = "absent"
      BY <3>1 DEF ActiveInv, SequenceCovers
    <3> QED
      BY <2>1, <3>1, <3>2 DEF CreateCandidate
  <2>2. ASSUME NEW g \in GenerationIds,
               \/ \E s \in States : Restore(g, s)
               \/ MarkReady(g) \/ Activate(g) \/ Dispose(g) \/ Fail(g)
               \/ DrainDisposes(g)
        PROVE  Kept
    BY <2>2 DEF Restore, MarkReady, Activate, Dispose, Fail, DrainDisposes,
                Disposed
  <2>3. ASSUME NEW g \in GenerationIds, NEW h \in GenerationIds \cup {None},
               RollbackActivation(g, h)
        PROVE  Kept
    BY <2>3 DEF RollbackActivation
  <2>4. CASE UNCHANGED state
    BY <2>4
  <2> QED
    BY <2>1, <2>2, <2>3, <2>4
    DEF Next, vars, Serve, DrainStarts, DrainPolls, DrainWaits, OpenSession,
        OpenSessionForGeneration, Opened, CloseSession
<1> QED
  BY <1>1, Invariants, PTL DEF Spec, RetiredStaysRetired

----------------------------------------------------------------------------
\* Each step of the manager is one step of the promise it makes its callers,
\* or none: ServingGenerations sees the active map, the sessions and which
\* generations are retired.
AbstractStep == [Serving!Next]_(Serving!abstractVars)

\* A step that changes neither the active map nor the sessions, and retires or
\* revives nothing, is invisible to callers.
LEMMA InvisibleStep ==
  ASSUME UNCHANGED <<active, session>>,
         \A g \in GenerationIds :
           /\ state'[g] = "stopped" <=> state[g] = "stopped"
           /\ state'[g] = "failed" <=> state[g] = "failed"
  PROVE  AbstractStep
BY DEF AbstractStep, Serving!abstractVars

\* Work that nobody counts is work nobody does.
LEMMA UncountedIsIdle ==
  ASSUME TypeOK, SessionsCounted, NEW g \in GenerationIds, sessions[g] = 0
  PROVE  Serving!Idle(g)
BY NoSessionNoHolder DEF Holders, Serving!Idle

\* delete(m.active, provider) removes every entry that names g.
LEMMA DeletedIsUnserved ==
  ASSUME TypeOK, ActiveInv, NEW g \in GenerationIds, DeleteActive(g)
  PROVE  active' = Serving!Unserved(g)
<1>1. provider(g) \in Providers
  BY IdParts
<1>2. \A p \in Providers : active[p] = g => p = provider(g)
  BY NoneAssumption DEF ActiveInv, ActiveMapIsSound
<1> QED
  BY <1>1, <1>2 DEF DeleteActive, Serving!Unserved, TypeOK

\* Disposing a generation that carries nothing is a stop of the abstract
\* manager.
LEMMA StopIsAbstract ==
  ASSUME TypeOK, ActiveInv, SessionsCounted, NEW g \in GenerationIds,
         sessions[g] = 0, Disposed(g), UNCHANGED session
  PROVE  Serving!Stop(g)
BY UncountedIsIdle, DeletedIsUnserved DEF Disposed, TypeOK, Serving!Stop

\* Failing a generation is a failure of the abstract manager.
LEMMA FailIsAbstract ==
  ASSUME TypeOK, ActiveInv, NEW g \in GenerationIds, Fail(g)
  PROVE  Serving!Fail(g)
BY DeletedIsUnserved DEF Fail, TypeOK, Serving!Fail

\* Restoring a row: an active one starts to serve, a retired one is retired in
\* the abstract state too, any other is not seen.
LEMMA RestoreIsAbstract ==
  ASSUME TypeOK, ActiveInv, SessionInv, NEW g \in GenerationIds, NEW s \in States,
         Restore(g, s)
  PROVE  AbstractStep
<1>1. provider(g) \in Providers
  BY IdParts
<1>2. Serving!Idle(g)
  BY NoneAssumption DEF Restore, SessionInv, HeldExists, Serving!Idle
<1>3. \A p \in Providers : active[p] # g
  BY NoneAssumption DEF Restore, ActiveInv, ActiveMapIsSound
<1>4. active = Serving!Unserved(g)
  BY <1>3 DEF Serving!Unserved, TypeOK
<1>5. CASE s = "active"
  <2>1. CASE active[provider(g)] # None
    BY <1>5, <2>1, InvisibleStep DEF Restore, TypeOK
  <2>2. CASE active[provider(g)] = None
    <3>1. Serving!Switch(provider(g), g)
      BY <1>5, <2>2 DEF Restore, TypeOK, Serving!Switch, Serving!Retired
    <3> QED
      BY <1>1, <3>1 DEF AbstractStep, Serving!Next
  <2> QED
    BY <2>1, <2>2
<1>6. CASE s = "stopped"
  <2>1. Serving!Stop(g)
    BY <1>2, <1>4, <1>6 DEF Restore, TypeOK, Serving!Stop
  <2> QED
    BY <2>1 DEF AbstractStep, Serving!Next
<1>7. CASE s = "failed"
  <2>1. Serving!Fail(g)
    BY <1>4, <1>7 DEF Restore, TypeOK, Serving!Fail
  <2> QED
    BY <2>1 DEF AbstractStep, Serving!Next
<1>8. CASE s \in {"candidate", "ready", "draining"}
  BY <1>8, InvisibleStep DEF Restore, TypeOK
<1> QED
  BY <1>5, <1>6, <1>7, <1>8 DEF States

\* Taking an activation back fails the generation that serves and puts one of
\* its predecessors, or nothing, in its place.
LEMMA RollbackIsAbstract ==
  ASSUME TypeOK, ActiveInv, SessionsCounted, NEW g \in GenerationIds,
         NEW h \in GenerationIds \cup {None}, RollbackActivation(g, h)
  PROVE  Serving!TakeBack(provider(g), h)
<1>1. provider(g) \in Providers
  BY IdParts
<1>2. Serving!Idle(g)
  BY UncountedIsIdle DEF RollbackActivation
<1>3. active[provider(g)] = g /\ g \in GenerationIds
  BY DEF RollbackActivation
<1>4. h = None \/ (/\ h \in GenerationIds \ Serving!Retired
                   /\ h # g)
  BY DEF RollbackActivation, Serving!Retired
<1>5. \A k \in GenerationIds :
        /\ state'[k] = "stopped" <=> state[k] = "stopped"
        /\ state'[k] = "failed" <=> state[k] = "failed" \/ k = g
  BY DEF RollbackActivation, TypeOK
<1> QED
  BY <1>1, <1>2, <1>3, <1>4, <1>5 DEF RollbackActivation, Serving!TakeBack

\* Every action of generation.go maps to a step of ServingGenerations or to
\* none.
LEMMA StepIsAbstract ==
  ASSUME TypeOK, ActiveInv, SessionInv, [Next]_vars
  PROVE  AbstractStep
<1>0. SessionsCounted
  BY DEF SessionInv
<1>1. CASE Serve \/ UNCHANGED vars
  BY <1>1, InvisibleStep DEF Serve, vars
<1>2. ASSUME NEW p \in Providers, CreateCandidate(p)
      PROVE  AbstractStep
  <2>1. <<p, sequence + 1>> \in GenerationIds
    BY <1>2, SequenceAssumption DEF CreateCandidate, GenerationIds, TypeOK
  <2>2. state[<<p, sequence + 1>>] = "absent"
    BY <2>1 DEF ActiveInv, SequenceCovers, TypeOK
  <2> QED
    BY <1>2, <2>1, <2>2, InvisibleStep DEF CreateCandidate, TypeOK
<1>3. ASSUME NEW g \in GenerationIds, MarkReady(g)
      PROVE  AbstractStep
  BY <1>3, InvisibleStep DEF MarkReady, TypeOK
<1>4. ASSUME NEW g \in GenerationIds, Activate(g)
      PROVE  AbstractStep
  <2>1. provider(g) \in Providers
    BY IdParts
  <2>2. Serving!Switch(provider(g), g)
    BY <1>4 DEF Activate, TypeOK, Serving!Switch, Serving!Retired
  <2> QED
    BY <2>1, <2>2 DEF AbstractStep, Serving!Next
<1>5. ASSUME NEW g \in GenerationIds, NEW h \in GenerationIds \cup {None},
             RollbackActivation(g, h)
      PROVE  AbstractStep
  <2>1. provider(g) \in Providers
    BY IdParts
  <2> QED
    BY <1>0, <1>5, <2>1, RollbackIsAbstract DEF AbstractStep, Serving!Next
<1>6. ASSUME NEW g \in GenerationIds, Dispose(g)
      PROVE  AbstractStep
  BY <1>0, <1>6, StopIsAbstract DEF Dispose, AbstractStep, Serving!Next
<1>7. ASSUME NEW g \in GenerationIds, Fail(g)
      PROVE  AbstractStep
  BY <1>7, FailIsAbstract DEF AbstractStep, Serving!Next
<1>8. ASSUME NEW g \in GenerationIds, DrainDisposes(g)
      PROVE  AbstractStep
  <2>1. CASE sessions[g] = 0
    BY <1>0, <1>8, <2>1, StopIsAbstract
    DEF DrainDisposes, AbstractStep, Serving!Next
  <2>2. CASE sessions[g] # 0
    BY <1>8, <2>2, InvisibleStep DEF DrainDisposes
  <2> QED
    BY <2>1, <2>2
<1>9. ASSUME NEW g \in GenerationIds,
             DrainStarts(g) \/ DrainPolls(g) \/ DrainWaits(g)
      PROVE  AbstractStep
  BY <1>9, InvisibleStep DEF DrainStarts, DrainPolls, DrainWaits
<1>10. ASSUME NEW c \in Clients, NEW g \in GenerationIds, session[c] = None,
              state[g] \notin {"stopped", "failed"}, Opened(c, g)
       PROVE  AbstractStep
  <2>1. Serving!Begin(c, g)
    BY <1>10 DEF Opened, Serving!Begin, Serving!Retired
  <2> QED
    BY <2>1 DEF AbstractStep, Serving!Next
<1>11. ASSUME NEW c \in Clients, NEW p \in Providers, OpenSession(c, p)
       PROVE  AbstractStep
  BY <1>10, <1>11 DEF OpenSession, TypeOK
<1>12. ASSUME NEW c \in Clients, NEW g \in GenerationIds,
              OpenSessionForGeneration(c, g)
       PROVE  AbstractStep
  BY <1>10, <1>12 DEF OpenSessionForGeneration
<1>13. ASSUME NEW c \in Clients, CloseSession(c)
       PROVE  AbstractStep
  <2>1. Serving!End(c)
    BY <1>13 DEF CloseSession, Serving!End
  <2> QED
    BY <2>1 DEF AbstractStep, Serving!Next
<1> QED
  BY <1>1, <1>2, <1>3, <1>4, <1>5, <1>6, <1>7, <1>8, <1>9, <1>11, <1>12, <1>13,
     RestoreIsAbstract DEF Next

\* The lifecycle manager keeps the promise of ServingGenerations for any
\* providers, callers and number of generations: what callers see of Activate,
\* RollbackActivation, Drain, Dispose, Fail, Restore and the sessions are
\* switches of work, never work begun on a retired generation or a generation
\* stopped under a caller.
THEOREM ManagerServes == Spec => ImplementsServing
<1>1. Init => Serving!Init
  BY DEF Init, Serving!Init
<1>2. TypeOK /\ ActiveInv /\ SessionInv /\ [Next]_vars => AbstractStep
  BY StepIsAbstract
<1> QED
  BY <1>1, <1>2, Invariants, PTL
  DEF Spec, ImplementsServing, Serving!Spec, AbstractStep

----------------------------------------------------------------------------
\* Activation.  What holds whatever runs overlap.
RunRecord == [pc : Labels, gen : GenerationIds \cup {None}, prev : GenerationIds \cup {None},
              known : BOOLEAN, replay : BOOLEAN, forced : BOOLEAN]

Overlays == [Providers -> [generation : GenerationIds \cup {None},
                           families : SUBSET Families]]

ActivationTypes ==
  /\ boot \in {"restoring", "serving", "refused"}
  /\ state \in [GenerationIds -> States \cup {"absent"}]
  /\ active \in [Providers -> GenerationIds \cup {None}]
  /\ sequence \in 0..MaxSequence
  /\ row \in [GenerationIds -> States \cup {"absent"}]
  /\ mounted \in [GenerationIds -> SUBSET Families]
  /\ candidates \subseteq GenerationIds
  /\ overlay \in Overlays
  /\ unit \in [Providers -> {"up", "disabled", "removed", "down"}]
  /\ run \in [Runs -> RunRecord]

\* Runs exist only in an agent that serves, and then every stored row was restored.
RowsRestored ==
  /\ boot # "serving" => \A r \in Runs : run[r].pc = "idle"
  /\ boot = "restoring" => \A g \in GenerationIds : state[g] \in {"absent", row[g]}
  /\ boot = "serving" => \A g \in GenerationIds : row[g] # "absent" => state[g] # "absent"

Unborn == {"absent", "candidate", "ready"}

\* Only what was made active is mounted, in the families of its provider.
MountedServes ==
  \A g \in GenerationIds :
    /\ mounted[g] # {} => state[g] \notin Unborn
    /\ mounted[g] \subseteq families(provider(g))

\* A family is published for one provider.
Exclusive(o) ==
  \A p, q \in Providers : p # q => o[p].families \cap o[q].families = {}
OverlayExclusive == Exclusive(overlay)

\* A run knows its generation and a predecessor of the same provider, and has
\* made its generation active before it stores and mounts it.
Switched == {"switched", "drained", "saved", "displaced"}
RunKnows(r) ==
  run[r].pc # "idle" =>
    /\ run[r].gen \in GenerationIds /\ state[run[r].gen] # "absent"
    /\ run[r].prev # None =>
         /\ provider(run[r].prev) = provider(run[r].gen)
         /\ state[run[r].prev] # "absent"
    /\ run[r].pc \in Switched => state[run[r].gen] \notin Unborn

ActivationInv ==
  /\ ActivationTypes /\ RowsRestored /\ SequenceCovers /\ ActiveMapIsSound
  /\ MountedServes /\ OverlayExclusive
  /\ \A r \in Runs : RunKnows(r)

----------------------------------------------------------------------------
\* Runs in progress are about unrelated providers.
Unrelated(p, q) == p # q /\ families(p) \cap families(q) = {}
RunsApart ==
  \A r, s \in Runs : r # s /\ run[r].pc # "idle" /\ run[s].pc # "idle" =>
    Unrelated(provider(run[r].gen), provider(run[s].gen))

MountedExclusive ==
  \A g, h \in GenerationIds :
    provider(g) # provider(h) => mounted[g] \cap mounted[h] = {}

\* How far the run at work on a provider has come.
RunHas(r) ==
  LET g == run[r].gen  p == provider(g) IN
  /\ run[r].pc \in {"recipe", "activating", "ready", "admission", "published"}
     /\ g \in candidates => state[g] # "active"
  /\ run[r].pc = "displaced" =>
       \A h \in GenerationIds : provider(h) # p => mounted[h] \cap families(p) = {}
  /\ run[r].pc \in {"drain", "stopped", "retire", "tornDown"} => unit[p] = "down"
  /\ run[r].pc \in {"stopped", "retire", "tornDown"} => state[g] = "stopped"
  /\ run[r].pc \in {"retire", "tornDown"} => row[g] = "stopped"
  /\ run[r].pc = "tornDown" => mounted[g] = {} /\ overlay[p].generation # g

ApartInv == MountedExclusive /\ \A r \in Runs : RunHas(r)

----------------------------------------------------------------------------
\* The families of a provider are families.
LEMMA FamiliesTyped ==
  ASSUME NEW p \in Providers
  PROVE  families(p) \subseteq Families
BY ServicesAssumption DEF families

\* What an operation of the manager on the generations of provider p keeps:
\* nothing that exists is forgotten, nothing that served is a candidate again.
ManagerKept(p) ==
  /\ boot' = boot
  /\ state' \in [GenerationIds -> States \cup {"absent"}]
  /\ active' \in [Providers -> GenerationIds \cup {None}]
  /\ sequence' \in 0..MaxSequence
  /\ SequenceCovers' /\ ActiveMapIsSound'
  /\ \A g \in GenerationIds :
       /\ state[g] # "absent" => state'[g] # "absent"
       /\ state[g] \notin Unborn => state'[g] \notin Unborn
       /\ provider(g) # p => state'[g] = state[g]

ManagerTypes ==
  /\ state \in [GenerationIds -> States \cup {"absent"}]
  /\ active \in [Providers -> GenerationIds \cup {None}]
  /\ sequence \in 0..MaxSequence

\* The operations that activateProviderGeneration and its rollback call.
LEMMA SwitchKept ==
  ASSUME ManagerTypes, SequenceCovers, ActiveMapIsSound,
         NEW g \in GenerationIds, NEW h \in GenerationIds \cup {None},
         MarkReady(g) \/ Activate(g) \/ RollbackActivation(g, h)
  PROVE  ManagerKept(provider(g))
<1> USE DEF ManagerTypes, States, Unborn
<1>1. provider(g) \in Providers
  BY IdParts
<1>2. CASE MarkReady(g)
  BY <1>2 DEF MarkReady, ManagerKept, SequenceCovers, ActiveMapIsSound
<1>3. CASE Activate(g)
  <2>1. SequenceCovers'
    BY <1>3 DEF Activate, SequenceCovers
  <2>2. ActiveMapIsSound'
    BY <1>1, <1>3 DEF Activate, ActiveMapIsSound
  <2>3. ASSUME NEW k \in GenerationIds, provider(k) # provider(g)
        PROVE  state'[k] = state[k]
    BY <1>1, <1>3, <2>3, NoneAssumption DEF Activate, ActiveMapIsSound
  <2> QED
    BY <1>3, <2>1, <2>2, <2>3 DEF Activate, ManagerKept
<1>4. CASE RollbackActivation(g, h)
  <2>1. SequenceCovers'
    BY <1>4 DEF RollbackActivation, SequenceCovers
  <2>2. ActiveMapIsSound'
    BY <1>1, <1>4, NoneAssumption DEF RollbackActivation, ActiveMapIsSound
  <2> QED
    BY <1>4, <2>1, <2>2 DEF RollbackActivation, ManagerKept
<1> QED
  BY <1>2, <1>3, <1>4

\* Dispose and Fail.
LEMMA RetireKept ==
  ASSUME ManagerTypes, SequenceCovers, ActiveMapIsSound,
         NEW g \in GenerationIds, Dispose(g) \/ Fail(g)
  PROVE  ManagerKept(provider(g))
<1> USE DEF ManagerTypes, States, Unborn
<1>1. provider(g) \in Providers
  BY IdParts
<1>2. PICK s \in {"stopped", "failed"} :
        /\ state' = [state EXCEPT ![g] = s]
        /\ DeleteActive(g) /\ UNCHANGED <<boot, sequence>> /\ state[g] # "absent"
  BY DEF Dispose, Fail, Disposed
<1>3. ActiveMapIsSound'
  BY <1>1, <1>2, NoneAssumption DEF ActiveMapIsSound, DeleteActive
<1>4. SequenceCovers'
  BY <1>2 DEF SequenceCovers
<1> QED
  BY <1>1, <1>2, <1>3, <1>4 DEF ManagerKept, DeleteActive

\* A new generation, whatever state it starts in.
LEMMA BirthKept ==
  ASSUME ManagerTypes, SequenceCovers, ActiveMapIsSound, NEW p \in Providers,
         NEW s \in States, sequence < MaxSequence, sequence' = sequence + 1,
         state' = [state EXCEPT ![<<p, sequence + 1>>] = s],
         UNCHANGED <<boot, active>>
  PROVE  /\ <<p, sequence + 1>> \in GenerationIds
         /\ provider(<<p, sequence + 1>>) = p
         /\ state[<<p, sequence + 1>>] = "absent"
         /\ ManagerKept(p)
<1> USE DEF ManagerTypes
<1> DEFINE n == <<p, sequence + 1>>
<1>1. n \in GenerationIds /\ n[2] = sequence + 1 /\ provider(n) = p
  BY SequenceAssumption DEF GenerationIds, provider
<1>2. state[n] = "absent"
  BY <1>1 DEF SequenceCovers
<1>3. SequenceCovers'
  BY <1>1, IdParts, SequenceAssumption DEF SequenceCovers
<1>4. ActiveMapIsSound'
  BY <1>1, <1>2 DEF ActiveMapIsSound
<1>5. sequence' \in 0..MaxSequence
  BY SequenceAssumption
<1> QED
  BY <1>1, <1>2, <1>3, <1>4, <1>5 DEF ManagerKept, Unborn

\* A step that leaves the manager's tables alone.
LEMMA QuietKept ==
  ASSUME ManagerTypes, SequenceCovers, ActiveMapIsSound, NEW p,
         UNCHANGED <<boot, state, active, sequence>>
  PROVE  ManagerKept(p)
BY DEF ManagerTypes, ManagerKept, SequenceCovers, ActiveMapIsSound

----------------------------------------------------------------------------
\* What a step of a run about provider p may do to the rest of the agent.  Its
\* own generations apart, it only takes away.
RowsKept(p) ==
  /\ row' \in [GenerationIds -> States \cup {"absent"}]
  /\ \A g \in GenerationIds :
       /\ provider(g) # p => row'[g] = row[g]
       /\ row'[g] = row[g] \/ state'[g] # "absent"
MountsKept(p) ==
  /\ mounted' \in [GenerationIds -> SUBSET Families]
  /\ \A g \in GenerationIds :
       \/ mounted'[g] \subseteq mounted[g]
       \/ provider(g) = p /\ state'[g] \notin Unborn /\ mounted'[g] = families(p)
CandidatesKept(p) ==
  /\ candidates' \subseteq GenerationIds
  /\ \A g \in GenerationIds : provider(g) # p => (g \in candidates' <=> g \in candidates)
OverlayKept(p) ==
  /\ overlay' \in Overlays
  /\ OverlayExclusive'
  /\ \A q \in Providers : q # p => overlay'[q].generation = overlay[q].generation
UnitKept(p) ==
  /\ unit' \in [Providers -> {"up", "disabled", "removed", "down"}]
  /\ \A q \in Providers : q # p => unit'[q] = unit[q]
LocalStep(r, p) ==
  /\ ManagerKept(p) /\ RowsKept(p) /\ MountsKept(p) /\ CandidatesKept(p)
  /\ OverlayKept(p) /\ UnitKept(p)
  /\ \E new \in RunRecord : run' = [run EXCEPT ![r] = new]

\* Such a step keeps everything that holds whatever runs overlap.
LEMMA LocalKeeps ==
  ASSUME ActivationInv, boot = "serving", NEW r \in Runs, NEW p \in Providers,
         LocalStep(r, p), RunKnows(r)'
  PROVE  ActivationInv'
<1> USE DEF ActivationInv, LocalStep, ManagerKept, RowsKept, MountsKept,
            CandidatesKept, OverlayKept, UnitKept
<1>1. ActivationTypes'
  BY DEF ActivationTypes
<1>2. RowsRestored'
  BY DEF RowsRestored, ActivationTypes
<1>3. MountedServes'
  BY IdParts DEF MountedServes, ActivationTypes
<1>4. ASSUME NEW s \in Runs, s # r
      PROVE  RunKnows(s)'
  <2>1. run'[s] = run[s]
    BY <1>4 DEF ActivationTypes
  <2>2. RunKnows(s) /\ run[s] \in RunRecord
    BY DEF ActivationTypes
  <2> QED
    BY <2>1, <2>2 DEF RunKnows, RunRecord
<1> QED
  BY <1>1, <1>2, <1>3, <1>4

\* And what a run about another provider has reached, if no capability family
\* is common to both.
LEMMA LocalKeepsOthers ==
  ASSUME ActivationInv, NEW r \in Runs, NEW s \in Runs, s # r, NEW p \in Providers,
         LocalStep(r, p), RunHas(s),
         run[s].pc # "idle" => Unrelated(provider(run[s].gen), p)
  PROVE  RunHas(s)'
<1> USE DEF ActivationInv, LocalStep, ManagerKept, RowsKept, MountsKept,
            CandidatesKept, OverlayKept, UnitKept
<1>1. run'[s] = run[s]
  BY DEF ActivationTypes
<1>2. CASE run[s].pc = "idle"
  BY <1>1, <1>2 DEF RunHas
<1>3. CASE run[s].pc # "idle"
  <2> DEFINE g == run[s].gen
             q == provider(g)
  <2>1. g \in GenerationIds /\ q \in Providers /\ q # p /\ families(q) \cap families(p) = {}
    BY <1>3, IdParts DEF RunKnows, Unrelated
  <2>2. /\ state'[g] = state[g] /\ row'[g] = row[g] /\ (g \in candidates' <=> g \in candidates)
        /\ mounted'[g] \subseteq mounted[g]
        /\ overlay'[q].generation = overlay[q].generation
        /\ unit'[q] = unit[q]
    BY <2>1
  <2>3. run[s].pc = "displaced" =>
          \A h \in GenerationIds : provider(h) # q => mounted'[h] \cap families(q) = {}
    BY <2>1 DEF RunHas
  <2> QED
    BY <1>1, <2>2, <2>3 DEF RunHas
<1> QED
  BY <1>2, <1>3
\* A step that leaves a part of the agent alone.
LEMMA UnchangedKept ==
  ASSUME ActivationInv, NEW p \in Providers
  PROVE  /\ UNCHANGED <<boot, state, active, sequence>> => ManagerKept(p)
         /\ UNCHANGED row => RowsKept(p)
         /\ UNCHANGED mounted => MountsKept(p)
         /\ UNCHANGED candidates => CandidatesKept(p)
         /\ UNCHANGED overlay => OverlayKept(p)
         /\ UNCHANGED unit => UnitKept(p)
<1> USE DEF ActivationInv, ActivationTypes
<1>1. UNCHANGED <<boot, state, active, sequence>> => ManagerKept(p)
  BY QuietKept DEF ManagerTypes
<1>2. UNCHANGED overlay => OverlayKept(p)
  BY DEF OverlayKept, OverlayExclusive
<1> QED
  BY <1>1, <1>2 DEF RowsKept, MountsKept, CandidatesKept, UnitKept

\* Storing a generation of p that exists, disposing the plugins of any
\* generation and completing a candidate of p.
LEMMA PartsKept ==
  ASSUME ActivationInv, NEW g \in GenerationIds, ManagerKept(provider(g)),
         state[g] # "absent"
  PROVE  /\ \A s \in States : row' = [row EXCEPT ![g] = s] => RowsKept(provider(g))
         /\ candidates' = candidates \ {g} => CandidatesKept(provider(g))
         /\ \A p \in Providers : unmountProviderGeneration(g) => MountsKept(p)
         /\ /\ mounted' = [mounted EXCEPT ![g] = families(provider(g))]
            /\ state'[g] \notin Unborn
            => MountsKept(provider(g))
<1> USE DEF ActivationInv, ActivationTypes
<1>1. provider(g) \in Providers /\ families(provider(g)) \subseteq Families
  BY IdParts, FamiliesTyped
<1>2. \A s \in States : row' = [row EXCEPT ![g] = s] => RowsKept(provider(g))
  BY DEF RowsKept, ManagerKept
<1>3. candidates' = candidates \ {g} => CandidatesKept(provider(g))
  BY DEF CandidatesKept
<1>4. \A p \in Providers : unmountProviderGeneration(g) => MountsKept(p)
  BY DEF unmountProviderGeneration, Unmounted, MountsKept
<1>5. mounted' = [mounted EXCEPT ![g] = families(provider(g))] /\ state'[g] \notin Unborn
      => MountsKept(provider(g))
  BY <1>1 DEF MountsKept
<1> QED
  BY <1>2, <1>3, <1>4, <1>5

\* The catalog: displacing, replacing and restoring keep one provider per
\* family, and touch the generation of no other provider.
OthersKept(o, n, p) ==
  /\ n \in Overlays /\ Exclusive(n)
  /\ \A q \in Providers : q # p => n[q].generation = o[q].generation

\* Displacing clears the families of p, and no other part of the catalog.
LEMMA DisplacedCatalog ==
  ASSUME NEW o \in Overlays, Exclusive(o), NEW p \in Providers
  PROVE  /\ OthersKept(o, DisplaceCapabilityFamilies(o, p), p)
         /\ \A q \in Providers : q # p =>
              DisplaceCapabilityFamilies(o, p)[q].families \cap families(p) = {}
<1>1. DisplaceCapabilityFamilies(o, p) \in Overlays
  BY DEF DisplaceCapabilityFamilies, Overlays
<1>2. ASSUME NEW q \in Providers
      PROVE  /\ DisplaceCapabilityFamilies(o, p)[q].generation = o[q].generation
             /\ DisplaceCapabilityFamilies(o, p)[q].families
                  = IF q = p THEN o[q].families ELSE o[q].families \ families(p)
  BY DEF DisplaceCapabilityFamilies, Overlays
<1>3. Exclusive(DisplaceCapabilityFamilies(o, p))
  BY <1>2 DEF Exclusive
<1> QED
  BY <1>1, <1>2, <1>3 DEF OthersKept

\* Registering a generation clears its families first, so one provider has each.
LEMMA ReplacedCatalog ==
  ASSUME NEW o \in Overlays, Exclusive(o), NEW g \in GenerationIds
  PROVE  OthersKept(o, ReplaceGeneration(DisplaceCapabilityFamilies(o, provider(g)), g),
                    provider(g))
<1> DEFINE p == provider(g)
           d == DisplaceCapabilityFamilies(o, p)
           n == ReplaceGeneration(d, g)
<1>1. p \in Providers /\ families(p) \subseteq Families
  BY IdParts, FamiliesTyped
<1>2. /\ OthersKept(o, d, p)
      /\ \A q \in Providers : q # p => d[q].families \cap families(p) = {}
  BY <1>1, DisplacedCatalog
<1>3. d \in Overlays /\ Exclusive(d)
  BY <1>2 DEF OthersKept
<1> HIDE DEF d
<1>4. n \in Overlays
  BY <1>1, <1>3 DEF ReplaceGeneration, Overlays
<1>5. \A q \in Providers :
        n[q] = IF q = p THEN [generation |-> g, families |-> families(p)] ELSE d[q]
  BY <1>1, <1>3 DEF ReplaceGeneration, Overlays
<1>6. Exclusive(n)
  BY <1>1, <1>2, <1>3, <1>5 DEF Exclusive
<1> QED
  BY <1>2, <1>4, <1>5, <1>6 DEF OthersKept, d

\* Retiring takes everything a provider published.
LEMMA UnpublishedCatalog ==
  ASSUME NEW o \in Overlays, Exclusive(o), NEW p \in Providers
  PROVE  OthersKept(o, [o EXCEPT ![p] = Unpublished], p)
<1>1. [o EXCEPT ![p] = Unpublished] \in Overlays
  BY DEF Overlays, Unpublished
<1>2. \A q \in Providers :
        [o EXCEPT ![p] = Unpublished][q]
          = IF q = p THEN [generation |-> None, families |-> {}] ELSE o[q]
  BY DEF Overlays, Unpublished
<1>3. Exclusive([o EXCEPT ![p] = Unpublished])
  BY <1>2 DEF Exclusive
<1> QED
  BY <1>1, <1>2, <1>3 DEF OthersKept

\* Registration, retirement and the restoration after a failed activation.
LEMMA CatalogKept ==
  ASSUME ActivationInv, NEW g \in GenerationIds, NEW had
  PROVE  /\ registerProviderServicesForGeneration(g) => OverlayKept(provider(g))
         /\ retireProviderCapabilities(provider(g), g) => OverlayKept(provider(g))
         /\ restoreProviderManifest(overlay, provider(g), had, active)
              => OverlayKept(provider(g))
         /\ restoreProviderManifest(DisplaceCapabilityFamilies(overlay, provider(g)),
                                    provider(g), had, active)
              => OverlayKept(provider(g))
<1> DEFINE p == provider(g)
<1> USE DEF ActivationInv
<1>1. p \in Providers /\ overlay \in Overlays /\ Exclusive(overlay)
  BY IdParts DEF ActivationTypes, OverlayExclusive
<1>2. OthersKept(overlay, overlay', p) => OverlayKept(p)
  BY DEF OthersKept, OverlayKept, OverlayExclusive
<1>3. registerProviderServicesForGeneration(g) => OverlayKept(p)
  BY <1>1, <1>2, ReplacedCatalog DEF registerProviderServicesForGeneration
<1>4. retireProviderCapabilities(p, g) => OverlayKept(p)
  BY <1>1, <1>2, UnpublishedCatalog, UnchangedKept DEF retireProviderCapabilities
<1>5. ASSUME NEW o \in Overlays, Exclusive(o), OthersKept(overlay, o, p),
             restoreProviderManifest(o, p, had, active)
      PROVE  OverlayKept(p)
  <2>1. CASE ~had
    <3>1. overlay' = [o EXCEPT ![p] = Unpublished]
      BY <1>5, <2>1 DEF restoreProviderManifest
    <3>2. OthersKept(o, overlay', p)
      BY <1>1, <1>5, <3>1, UnpublishedCatalog
    <3> QED
      BY <1>2, <1>5, <3>2 DEF OthersKept
  <2>2. CASE had /\ active[p] = None
    BY <1>2, <1>5, <2>2 DEF restoreProviderManifest
  <2>3. CASE had /\ active[p] # None
    <3>1. active[p] \in GenerationIds /\ provider(active[p]) = p
      BY <1>1, <2>3 DEF ActivationTypes, ActiveMapIsSound
    <3>2. overlay' = ReplaceGeneration(DisplaceCapabilityFamilies(o, p), active[p])
      BY <1>5, <2>3 DEF restoreProviderManifest
    <3>3. OthersKept(o, overlay', p)
      BY <3>1, <3>2, <1>5, ReplacedCatalog
    <3> QED
      BY <1>2, <1>5, <3>3 DEF OthersKept
  <2> QED
    BY <2>1, <2>2, <2>3
<1>6. OthersKept(overlay, overlay, p)
  BY <1>1 DEF OthersKept
<1>7. LET d == DisplaceCapabilityFamilies(overlay, p) IN
      d \in Overlays /\ Exclusive(d) /\ OthersKept(overlay, d, p)
  BY <1>1, DisplacedCatalog DEF OthersKept
<1> QED
  BY <1>1, <1>3, <1>4, <1>5, <1>6, <1>7
----------------------------------------------------------------------------
\* A run in progress is that of an agent that serves.
LEMMA RunAt ==
  ASSUME ActivationInv, NEW r \in Runs
  PROVE  /\ ManagerTypes /\ run[r] \in RunRecord
         /\ run[r].pc # "idle" =>
              /\ boot = "serving"
              /\ run[r].gen \in GenerationIds /\ provider(run[r].gen) \in Providers
              /\ state[run[r].gen] # "absent"
BY IdParts DEF ActivationInv, ActivationTypes, ManagerTypes, RowsRestored, RunKnows

\* The records of a run that goes on, ends or begins.
LEMMA RunMoves ==
  ASSUME ActivationInv, NEW r \in Runs, NEW label \in Labels
  PROVE  /\ Goto(r, label) =>
              /\ \E new \in RunRecord : run' = [run EXCEPT ![r] = new]
              /\ run'[r].pc = label
              /\ label # "idle" => /\ run'[r].gen = run[r].gen
                                   /\ run'[r].prev = run[r].prev
         /\ \A g \in GenerationIds, again \in BOOLEAN : Begin(r, label, g, again) =>
              /\ \E new \in RunRecord : run' = [run EXCEPT ![r] = new]
              /\ run'[r].pc = label /\ run'[r].gen = g /\ run'[r].prev = None
<1> USE DEF ActivationInv, ActivationTypes
<1>1. run[r] \in RunRecord /\ Idle \in RunRecord /\ Idle.pc = "idle"
  BY DEF Idle, Labels, RunRecord
<1>2. ASSUME Goto(r, label), label = "idle"
      PROVE  run' = [run EXCEPT ![r] = Idle] /\ run'[r].pc = label
  BY <1>1, <1>2 DEF Goto, RunRecord
<1>3. ASSUME Goto(r, label), label # "idle"
      PROVE  /\ run' = [run EXCEPT ![r] = [run[r] EXCEPT !.pc = label]]
             /\ [run[r] EXCEPT !.pc = label] \in RunRecord
             /\ run'[r].pc = label
             /\ run'[r].gen = run[r].gen /\ run'[r].prev = run[r].prev
  BY <1>1, <1>3 DEF Goto, RunRecord
<1>4. ASSUME NEW g \in GenerationIds, NEW again \in BOOLEAN, Begin(r, label, g, again)
      PROVE  LET new == [Idle EXCEPT !.pc = label, !.gen = g, !.replay = again] IN
             /\ run' = [run EXCEPT ![r] = new] /\ new \in RunRecord
             /\ run'[r].pc = label /\ run'[r].gen = g /\ run'[r].prev = None
  BY <1>4 DEF Begin, Idle, RunRecord
<1> QED
  BY <1>1, <1>2, <1>3, <1>4

\* A step of run r that is a step about its provider, and after which it still
\* knows its generation.
RunKept(r) ==
  \E p \in Providers :
    /\ boot = "serving"
    /\ LocalStep(r, p) /\ RunKnows(r)'
    /\ run[r].pc # "idle" => provider(run[r].gen) = p
    /\ run'[r].pc # "idle" => provider(run'[r].gen) = p
    /\ run[r].pc # "idle" \/ run'[r].pc # "idle"

\* What the steps of a run in progress have in common.
LEMMA Going ==
  ASSUME ActivationInv, NEW r \in Runs, NEW p, p = provider(run[r].gen),
         run[r].pc # "idle", ManagerKept(p), RowsKept(p), MountsKept(p),
         CandidatesKept(p), OverlayKept(p), UnitKept(p),
         \E new \in RunRecord : run' = [run EXCEPT ![r] = new],
         run'[r].pc # "idle" =>
           /\ run'[r].gen = run[r].gen
           /\ run'[r].prev \in {run[r].prev, None, active[p]}
           /\ run'[r].pc \in Switched =>
                run[r].pc \in Switched \/ state'[run[r].gen] \notin Unborn
  PROVE  RunKept(r)
<1>1. /\ boot = "serving" /\ p \in Providers /\ run[r].gen \in GenerationIds
      /\ state[run[r].gen] # "absent"
  BY RunAt
<1>2. active[p] # None =>
        /\ active[p] \in GenerationIds /\ provider(active[p]) = p
        /\ state[active[p]] # "absent"
  BY <1>1 DEF ActivationInv, ActivationTypes, ActiveMapIsSound
<1>3. RunKnows(r)
  BY DEF ActivationInv
<1>4. run[r].prev = None \/ run[r].prev \in GenerationIds
  BY RunAt DEF RunRecord
<1>5. RunKnows(r)'
  BY <1>1, <1>2, <1>3, <1>4 DEF RunKnows, ManagerKept
<1> QED
  BY <1>1, <1>5 DEF RunKept, LocalStep
\* A run that only moves on, besides what its step does to the agent.
LEMMA GoesOn ==
  ASSUME ActivationInv, NEW r \in Runs, run[r].pc # "idle", NEW p, p = provider(run[r].gen),
         NEW label \in Labels, Goto(r, label), ManagerKept(p), RowsKept(p), MountsKept(p),
         CandidatesKept(p), OverlayKept(p), UnitKept(p),
         label \in Switched => run[r].pc \in Switched \/ state'[run[r].gen] \notin Unborn
  PROVE  RunKept(r)
BY RunMoves, Going

\* Install, ResumeRun and Teardown begin a run about a generation of p.
LEMMA BeginKept ==
  ASSUME ActivationInv, NEW r \in Runs, NEW p \in Providers,
         \/ \E again \in BOOLEAN : Install(r, p, again)
         \/ \E g \in GenerationIds : provider(g) = p /\ ResumeRun(r, g)
         \/ \E forced \in BOOLEAN : Teardown(r, p, forced)
  PROVE  RunKept(r)
<1> USE DEF ActivationInv
<1>0. ManagerTypes
  BY RunAt
<1>1. ASSUME NEW again \in BOOLEAN, Install(r, p, again)
      PROVE  RunKept(r)
  <2> DEFINE g == <<p, sequence + 1>>
             label == IF again THEN "activating" ELSE "recipe"
  <2>1. /\ g \in GenerationIds /\ provider(g) = p /\ state[g] = "absent" /\ ManagerKept(p)
    BY <1>0, <1>1, BirthKept DEF Install, CreateCandidate, States
  <2>2. state'[g] = "candidate" /\ boot = "serving" /\ run[r].pc = "idle"
    BY <1>0, <1>1, <2>1 DEF Install, CreateCandidate, ManagerTypes
  <2>3. label \in Labels /\ label \notin Switched /\ label # "idle"
    BY DEF Labels, Switched
  <2>4. Begin(r, label, g, again)
    BY <1>1 DEF Install
  <2>5. /\ \E new \in RunRecord : run' = [run EXCEPT ![r] = new]
        /\ run'[r].pc = label /\ run'[r].gen = g /\ run'[r].prev = None
    BY <2>1, <2>3, <2>4, RunMoves
  <2>6. row' = [row EXCEPT ![g] = "candidate"]
        /\ candidates' = candidates \cup {g}
        /\ UNCHANGED <<mounted, overlay, unit>>
    BY <1>1 DEF Install, Saved
  <2>7. RowsKept(p) /\ CandidatesKept(p)
    BY <2>1, <2>2, <2>6 DEF RowsKept, CandidatesKept, ActivationTypes, States
  <2>8. MountsKept(p) /\ OverlayKept(p) /\ UnitKept(p)
    BY <2>6, UnchangedKept
  <2>9. RunKnows(r)'
    BY <2>1, <2>2, <2>3, <2>5 DEF RunKnows
  <2> QED
    BY <2>1, <2>2, <2>3, <2>5, <2>7, <2>8, <2>9 DEF RunKept, LocalStep
<1>2. ASSUME NEW g \in GenerationIds, provider(g) = p, state[g] # "absent",
             NEW label \in {"recipe", "teardown"}, boot = "serving", run[r].pc = "idle",
             \E new \in RunRecord : run' = [run EXCEPT ![r] = new],
             run'[r].pc = label, run'[r].gen = g, run'[r].prev = None,
             UNCHANGED <<vars, world>>
      PROVE  RunKept(r)
  <2>1. RunKnows(r)'
    BY <1>2 DEF RunKnows, Switched, vars
  <2> QED
    BY <1>2, <2>1, UnchangedKept DEF RunKept, LocalStep, vars, world
<1>3. ASSUME NEW g \in GenerationIds, provider(g) = p, ResumeRun(r, g)
      PROVE  RunKept(r)
  <2>1. state[g] # "absent"
    BY <1>3 DEF ResumeRun, RowsRestored
  <2>2. /\ \E new \in RunRecord : run' = [run EXCEPT ![r] = new]
        /\ run'[r].pc = "recipe" /\ run'[r].gen = g /\ run'[r].prev = None
    BY <1>3, RunMoves DEF ResumeRun, Labels
  <2> QED
    BY <1>2, <1>3, <2>1, <2>2 DEF ResumeRun
<1>4. ASSUME NEW forced \in BOOLEAN, Teardown(r, p, forced)
      PROVE  RunKept(r)
  <2> DEFINE new == [Idle EXCEPT !.pc = "teardown", !.gen = active[p], !.forced = forced]
  <2>1. /\ active[p] \in GenerationIds /\ provider(active[p]) = p
        /\ state[active[p]] # "absent"
    BY <1>4 DEF Teardown, ActivationTypes, ActiveMapIsSound
  <2>2. /\ new \in RunRecord /\ new.pc = "teardown" /\ new.gen = active[p]
        /\ new.prev = None
    BY <2>1 DEF Idle, RunRecord, Labels
  <2>3. run' = [run EXCEPT ![r] = new] /\ run'[r] = new
    BY <1>4 DEF Teardown, ActivationTypes
  <2> HIDE DEF new
  <2> QED
    BY <1>2, <1>4, <2>1, <2>2, <2>3 DEF Teardown
<1> QED
  BY <1>1, <1>3, <1>4

\* Steps that only move the run.
LEMMA MoveKept ==
  ASSUME ActivationInv, NEW r \in Runs,
         \/ InstallAbandoned(r) \/ RecipeFails(r) \/ RecipeValidated(r)
         \/ NothingToPublish(r) \/ TeardownFails(r) \/ TeardownReported(r)
  PROVE  RunKept(r)
<1>1. PICK label \in {"idle", "failing", "activating"} : Goto(r, label)
  BY DEF InstallAbandoned, RecipeFails, RecipeValidated, NothingToPublish,
         TeardownFails, TeardownReported, Failed
<1>2. run[r].pc # "idle" /\ UNCHANGED <<vars, world>>
  BY DEF InstallAbandoned, RecipeFails, RecipeValidated, NothingToPublish,
         TeardownFails, TeardownReported
<1>3. label \in Labels /\ label \notin Switched
  BY DEF Labels, Switched
<1> QED
  BY <1>1, <1>2, <1>3, RunAt, GoesOn, UnchangedKept DEF vars, world
\* Steps that store a row, or are refused the write.
LEMMA StoreKept ==
  ASSUME ActivationInv, NEW r \in Runs,
         \/ ActivationReadySaved(r) \/ PredecessorSaved(r) \/ ActiveSaved(r)
         \/ CleanupSaved(r) \/ StoppedSaved(r)
  PROVE  RunKept(r)
<1> DEFINE g == run[r].gen
           p == provider(g)
<1>1. run[r].pc # "idle"
  BY DEF ActivationReadySaved, PredecessorSaved, ActiveSaved, CleanupSaved, StoppedSaved
<1>2. /\ g \in GenerationIds /\ p \in Providers /\ state[g] # "absent" /\ state[g] \in States
  BY <1>1, RunAt DEF ManagerTypes
<1>3. run[r].prev # None =>
        /\ run[r].prev \in GenerationIds /\ provider(run[r].prev) = p
        /\ state[run[r].prev] # "absent"
  BY <1>1, RunAt DEF ActivationInv, RunKnows, RunRecord
<1>4. /\ UNCHANGED <<vars, mounted, candidates, overlay, unit>>
      /\ \/ UNCHANGED row
         \/ \E s \in States : row' = [row EXCEPT ![g] = s]
         \/ run[r].prev # None /\ \E s \in States : row' = [row EXCEPT ![run[r].prev] = s]
  BY <1>2 DEF ActivationReadySaved, PredecessorSaved, ActiveSaved, CleanupSaved, StoppedSaved,
         Saved, StoreFails, States
<1>5. /\ ManagerKept(p) /\ MountsKept(p) /\ CandidatesKept(p)
      /\ OverlayKept(p) /\ UnitKept(p) /\ (UNCHANGED row => RowsKept(p))
  BY <1>2, <1>4, UnchangedKept DEF vars
<1>6. RowsKept(p)
  BY <1>2, <1>3, <1>4, <1>5, PartsKept
<1>7. PICK label \in Labels :
        Goto(r, label) /\ (label \in Switched => run[r].pc \in Switched)
  BY DEF ActivationReadySaved, PredecessorSaved, ActiveSaved, CleanupSaved, StoppedSaved,
         Failed, Labels, Switched
<1> QED
  BY <1>1, <1>5, <1>6, <1>7, GoesOn

\* Steps that change the manager's tables, or the catalog, but no mount.
LEMMA CatalogStepKept ==
  ASSUME ActivationInv, NEW r \in Runs,
         \/ AdmissionDenied(r) \/ RegistrationRefused(r) \/ ActivationPublished(r)
         \/ RollbackSaved(r)
  PROVE  RunKept(r)
<1> DEFINE g == run[r].gen
           p == provider(g)
<1>1. run[r].pc # "idle"
  BY DEF AdmissionDenied, RegistrationRefused, ActivationPublished, RollbackSaved
<1>2. /\ g \in GenerationIds /\ p \in Providers /\ state[g] # "absent"
      /\ ManagerTypes /\ SequenceCovers /\ ActiveMapIsSound
      /\ state[g] \in States
  BY <1>1, RunAt DEF ActivationInv, ManagerTypes
<1>3. MountsKept(p) /\ UnitKept(p) /\ CandidatesKept(p)
  BY <1>2, UnchangedKept
  DEF AdmissionDenied, RegistrationRefused, ActivationPublished, RollbackSaved
<1>4. ManagerKept(p)
  <2>1. CASE AdmissionDenied(r) \/ RegistrationRefused(r)
    BY <1>2, <2>1, RetireKept DEF AdmissionDenied, RegistrationRefused
  <2>2. CASE ActivationPublished(r) \/ RollbackSaved(r)
    BY <1>2, <2>2, UnchangedKept DEF ActivationPublished, RollbackSaved, vars
  <2> QED
    BY <2>1, <2>2
<1>5. OverlayKept(p)
  BY <1>2, CatalogKept, UnchangedKept
  DEF AdmissionDenied, RegistrationRefused, ActivationPublished, RollbackSaved
<1>6. RowsKept(p)
  <2>1. CASE AdmissionDenied(r) \/ RegistrationRefused(r) \/ ActivationPublished(r)
    BY <1>2, <2>1, UnchangedKept DEF AdmissionDenied, RegistrationRefused, ActivationPublished
  <2>2. CASE RollbackSaved(r)
    <3>1. run[r].prev # None =>
            /\ run[r].prev \in GenerationIds /\ provider(run[r].prev) = p
            /\ state[run[r].prev] # "absent" /\ state[run[r].prev] \in States
      BY <1>1, <1>2, RunAt DEF ActivationInv, RunKnows, RunRecord, ManagerTypes
    <3>2. \/ UNCHANGED row
          \/ run[r].prev # None /\ row' = [row EXCEPT ![run[r].prev] = state[run[r].prev]]
      BY <2>2 DEF RollbackSaved, Saved, StoreFails
    <3> QED
      BY <1>2, <1>4, <3>1, <3>2, UnchangedKept, PartsKept
  <2> QED
    BY <2>1, <2>2
<1>7. PICK label \in Labels : Goto(r, label) /\ label \notin Switched
  BY DEF AdmissionDenied, RegistrationRefused, ActivationPublished, RollbackSaved,
         Failed, Labels, Switched
<1> QED
  BY <1>1, <1>3, <1>4, <1>5, <1>6, <1>7, GoesOn

\* CompleteUnactivated, Cleanup and Reaffirm complete a candidate.
LEMMA CompleteKept ==
  ASSUME ActivationInv, NEW r \in Runs,
         CompleteUnactivated(r) \/ Cleanup(r) \/ Reaffirm(r)
  PROVE  RunKept(r)
<1> DEFINE g == run[r].gen
           p == provider(g)
<1>1. run[r].pc # "idle"
  BY DEF CompleteUnactivated, Cleanup, Reaffirm
<1>2. /\ g \in GenerationIds /\ p \in Providers /\ state[g] # "absent"
      /\ ManagerTypes /\ SequenceCovers /\ ActiveMapIsSound
  BY <1>1, RunAt DEF ActivationInv
<1>3. RowsKept(p) /\ UnitKept(p)
  BY <1>2, UnchangedKept DEF CompleteUnactivated, Cleanup, Reaffirm
<1>4. ManagerKept(p)
  BY <1>2, UnchangedKept, RetireKept DEF CompleteUnactivated, Cleanup, Reaffirm, vars
<1>5. CandidatesKept(p)
  BY <1>2, <1>4, PartsKept DEF CompleteUnactivated, Cleanup, Reaffirm
<1>6. OverlayKept(p)
  BY <1>2, CatalogKept, UnchangedKept DEF CompleteUnactivated, Cleanup, Reaffirm
<1>7. MountsKept(p)
  <2>1. CASE UNCHANGED mounted
    BY <1>2, <2>1, UnchangedKept
  <2>2. CASE Reaffirm(r) /\ mounted' = [mounted EXCEPT ![g] = families(p)]
    <3>1. state'[g] \notin Unborn
      BY <1>2, <2>2, NoneAssumption DEF Reaffirm, vars, ActiveMapIsSound, Unborn
    <3> QED
      BY <1>2, <1>4, <2>2, <3>1, PartsKept
  <2> QED
    BY <2>1, <2>2 DEF CompleteUnactivated, Cleanup, Reaffirm
<1>8. PICK label \in Labels : Goto(r, label) /\ label \notin Switched
  BY DEF CompleteUnactivated, Cleanup, Reaffirm, Labels, Switched
<1> QED
  BY <1>1, <1>3, <1>4, <1>5, <1>6, <1>7, <1>8, GoesOn
\* ActivationReady and ActivationSwitched change the local variables too.
LEMMA SwitchStepKept ==
  ASSUME ActivationInv, NEW r \in Runs, ActivationReady(r) \/ ActivationSwitched(r)
  PROVE  RunKept(r)
<1> DEFINE g == run[r].gen
           p == provider(g)
<1>1. run[r].pc # "idle"
  BY DEF ActivationReady, ActivationSwitched
<1>2. /\ g \in GenerationIds /\ p \in Providers /\ state[g] # "absent"
      /\ ManagerTypes /\ SequenceCovers /\ ActiveMapIsSound /\ run[r] \in RunRecord
      /\ run \in [Runs -> RunRecord] /\ active[p] \in GenerationIds \cup {None}
  BY <1>1, RunAt DEF ActivationInv, ActivationTypes
<1>3. RowsKept(p) /\ UnitKept(p) /\ MountsKept(p) /\ CandidatesKept(p)
  BY <1>2, UnchangedKept DEF ActivationReady, ActivationSwitched, world
<1>4. CASE ActivationReady(r)
  <2>1. OverlayKept(p)
    BY <1>2, <1>4, UnchangedKept DEF ActivationReady, world
  <2>2. ManagerKept(p)
    BY <1>2, <1>4, SwitchKept, UnchangedKept DEF ActivationReady, vars
  <2>3. CASE state[g] \in {"candidate", "ready"}
    <3> DEFINE had == g \in candidates /\ p \in manifests
               new == [run[r] EXCEPT !.pc = "ready", !.known = had]
    <3>1. run' = [run EXCEPT ![r] = new]
      BY <1>2, <1>4, <2>3 DEF ActivationReady, RunRecord
    <3>2. new \in RunRecord /\ new.pc = "ready" /\ new.gen = g /\ new.prev = run[r].prev
      BY <1>2 DEF RunRecord, Labels
    <3>3. run'[r] = new
      BY <1>2, <3>1
    <3> HIDE DEF new
    <3>4. \E n \in RunRecord : run' = [run EXCEPT ![r] = n]
      BY <3>1, <3>2
    <3> QED
      BY <1>1, <1>3, <2>1, <2>2, <3>2, <3>3, <3>4, Going DEF Switched
  <2>4. CASE state[g] \notin {"candidate", "ready"}
    <3>1. PICK label \in Labels : Goto(r, label) /\ label \notin Switched
      BY <1>4, <2>4 DEF ActivationReady, Failed, Labels, Switched
    <3> QED
      BY <1>1, <1>3, <2>1, <2>2, <3>1, GoesOn
  <2> QED
    BY <2>3, <2>4
<1>5. CASE ActivationSwitched(r) /\ state[g] = "ready"
  <2>1. ManagerKept(p)
    BY <1>2, <1>5, SwitchKept DEF ActivationSwitched
  <2>2. OverlayKept(p)
    BY <1>2, <1>5, UnchangedKept DEF ActivationSwitched
  <2>3. state'[g] \notin Unborn
    BY <1>2, <1>5 DEF ActivationSwitched, Activate, Unborn
  <2> DEFINE new == [run[r] EXCEPT !.pc = "switched", !.prev = active[p]]
  <2>4. run' = [run EXCEPT ![r] = new]
    BY <1>2, <1>5 DEF ActivationSwitched, RunRecord
  <2>5. new \in RunRecord /\ new.pc = "switched" /\ new.gen = g /\ new.prev = active[p]
    BY <1>2 DEF RunRecord, Labels
  <2>6. run'[r] = new
    BY <1>2, <2>4
  <2> HIDE DEF new
  <2>7. \E n \in RunRecord : run' = [run EXCEPT ![r] = n]
    BY <2>4, <2>5
  <2> QED
    BY <1>1, <1>3, <2>1, <2>2, <2>3, <2>5, <2>6, <2>7, Going
<1>6. CASE ActivationSwitched(r) /\ state[g] # "ready"
  <2>1. ManagerKept(p)
    BY <1>2, <1>6, UnchangedKept DEF ActivationSwitched, vars
  <2>2. OverlayKept(p)
    BY <1>2, <1>6, CatalogKept, UnchangedKept DEF ActivationSwitched
  <2>3. PICK label \in Labels : Goto(r, label) /\ label \notin Switched
    BY <1>6 DEF ActivationSwitched, Failed, Labels, Switched
  <2> QED
    BY <1>1, <1>3, <2>1, <2>2, <2>3, GoesOn
<1> QED
  BY <1>4, <1>5, <1>6

\* Mounting and unmounting, the rollback of an activation.
LEMMA MountStepKept ==
  ASSUME ActivationInv, NEW r \in Runs,
         FamiliesDisplaced(r) \/ GenerationMounted(r) \/ Rollback(r)
  PROVE  RunKept(r)
<1> DEFINE g == run[r].gen
           p == provider(g)
<1>1. run[r].pc # "idle"
  BY DEF FamiliesDisplaced, GenerationMounted, Rollback
<1>2. /\ g \in GenerationIds /\ p \in Providers /\ state[g] # "absent"
      /\ ManagerTypes /\ SequenceCovers /\ ActiveMapIsSound /\ run[r] \in RunRecord
      /\ mounted \in [GenerationIds -> SUBSET Families]
  BY <1>1, RunAt DEF ActivationInv, ActivationTypes
<1>3. RowsKept(p) /\ UnitKept(p) /\ CandidatesKept(p) /\ OverlayKept(p)
  BY <1>2, UnchangedKept DEF FamiliesDisplaced, GenerationMounted, Rollback
<1>4. ManagerKept(p)
  <2>1. run[r].prev \in GenerationIds \cup {None}
    BY <1>2 DEF RunRecord
  <2> QED
    BY <1>2, <2>1, SwitchKept, UnchangedKept DEF FamiliesDisplaced, GenerationMounted, Rollback, vars
<1>5. MountsKept(p)
  <2>1. CASE FamiliesDisplaced(r)
    <3>1. \/ UNCHANGED mounted
          \/ /\ mounted' \in [GenerationIds -> SUBSET Families]
             /\ \A h \in GenerationIds : mounted'[h] \subseteq mounted[h]
      BY <1>2, <2>1 DEF FamiliesDisplaced, displaceCordisCapabilityFamilies
    <3> QED
      BY <1>2, <3>1, UnchangedKept DEF MountsKept
  <2>2. CASE GenerationMounted(r)
    <3>1. state'[g] \notin Unborn
      BY <1>2, <2>2 DEF GenerationMounted, vars, ActivationInv, RunKnows, Switched
    <3> QED
      BY <1>2, <1>4, <2>2, <3>1, PartsKept, UnchangedKept DEF GenerationMounted
  <2>3. CASE Rollback(r)
    BY <1>2, <1>4, <2>3, PartsKept DEF Rollback
  <2> QED
    BY <2>1, <2>2, <2>3
<1>6. PICK label \in Labels :
        Goto(r, label) /\ (label \in Switched => run[r].pc \in Switched)
  BY DEF FamiliesDisplaced, GenerationMounted, Rollback, Labels, Switched
<1> QED
  BY <1>1, <1>3, <1>4, <1>5, <1>6, GoesOn

\* ActivationFinished completes the candidate and disposes the predecessor.
LEMMA FinishKept ==
  ASSUME ActivationInv, NEW r \in Runs, ActivationFinished(r)
  PROVE  RunKept(r)
<1> DEFINE g == run[r].gen
           p == provider(g)
<1>1. run[r].pc # "idle"
  BY DEF ActivationFinished
<1>2. /\ g \in GenerationIds /\ p \in Providers /\ state[g] # "absent"
      /\ run[r].prev \in GenerationIds \cup {None}
  BY <1>1, RunAt DEF RunRecord
<1>3. RowsKept(p) /\ UnitKept(p) /\ OverlayKept(p) /\ ManagerKept(p)
  BY <1>2, UnchangedKept DEF ActivationFinished, vars
<1>4. CandidatesKept(p)
  BY <1>2, <1>3, PartsKept DEF ActivationFinished
<1>5. MountsKept(p)
  <2>1. CASE run[r].prev = None
    BY <1>2, <2>1, UnchangedKept DEF ActivationFinished
  <2>2. CASE run[r].prev # None
    <3>1. /\ run[r].prev \in GenerationIds /\ provider(run[r].prev) = p
          /\ state[run[r].prev] # "absent"
      BY <1>1, <1>2, <2>2 DEF ActivationInv, RunKnows
    <3> QED
      BY <1>2, <1>3, <2>2, <3>1, PartsKept DEF ActivationFinished
  <2> QED
    BY <2>1, <2>2
<1>6. \/ Goto(r, "idle")
      \/ Begin(r, "recipe", g, FALSE)
  BY DEF ActivationFinished
<1>7. /\ \E new \in RunRecord : run' = [run EXCEPT ![r] = new]
      /\ \/ run'[r].pc = "idle"
         \/ run'[r].pc = "recipe" /\ run'[r].gen = g /\ run'[r].prev = None
  BY <1>2, <1>6, RunMoves DEF Labels
<1> QED
  BY <1>1, <1>3, <1>4, <1>5, <1>7, Going DEF Switched

\* The teardown of a provider.
LEMMA TeardownKept ==
  ASSUME ActivationInv, NEW r \in Runs,
         \/ TeardownFinalized(r) \/ HostServiceCleaned(r) \/ TeardownDrained(r)
         \/ TeardownRetired(r)
  PROVE  RunKept(r)
<1> DEFINE g == run[r].gen
           p == provider(g)
<1>1. run[r].pc # "idle"
  BY DEF TeardownFinalized, HostServiceCleaned, TeardownDrained, TeardownRetired
<1>2. /\ g \in GenerationIds /\ p \in Providers /\ state[g] # "absent"
      /\ ManagerTypes /\ SequenceCovers /\ ActiveMapIsSound /\ run[r] \in RunRecord
      /\ unit \in [Providers -> {"up", "disabled", "removed", "down"}]
      /\ run \in [Runs -> RunRecord]
  BY <1>1, RunAt DEF ActivationInv, ActivationTypes
<1>3. RowsKept(p) /\ CandidatesKept(p)
  BY <1>2, UnchangedKept
  DEF TeardownFinalized, HostServiceCleaned, TeardownDrained, TeardownRetired, world
<1>4. ManagerKept(p)
  BY <1>2, RetireKept, UnchangedKept
  DEF TeardownFinalized, HostServiceCleaned, TeardownDrained, TeardownRetired,
      SessionsOf, vars
<1>5. OverlayKept(p)
  BY <1>2, CatalogKept, UnchangedKept
  DEF TeardownFinalized, HostServiceCleaned, TeardownDrained, TeardownRetired, world
<1>6. MountsKept(p)
  BY <1>2, <1>4, PartsKept, UnchangedKept
  DEF TeardownFinalized, HostServiceCleaned, TeardownDrained, TeardownRetired, world
<1>7. UnitKept(p)
  <2>1. CASE UNCHANGED unit
    BY <1>2, <2>1, UnchangedKept
  <2>2. CASE HostServiceCleaned(r) /\ unit[p] # "down"
    BY <1>2, <2>2 DEF HostServiceCleaned, UnitKept
  <2> QED
    BY <2>1, <2>2
    DEF TeardownFinalized, HostServiceCleaned, TeardownDrained, TeardownRetired, world
<1>8. CASE UNCHANGED run
  <2>1. run' = [run EXCEPT ![r] = run[r]] /\ run'[r] = run[r]
    BY <1>2, <1>8
  <2> QED
    BY <1>1, <1>2, <1>3, <1>4, <1>5, <1>6, <1>7, <2>1, Going
<1>9. ASSUME NEW label \in Labels, Goto(r, label), label \notin Switched
      PROVE  RunKept(r)
  BY <1>1, <1>3, <1>4, <1>5, <1>6, <1>7, <1>9, GoesOn
<1> QED
  BY <1>8, <1>9
  DEF TeardownFinalized, HostServiceCleaned, TeardownDrained, TeardownRetired, Labels, Switched
\* Every step of a run is about its provider; only a candidate whose row is
\* refused leaves no run behind.
LEMMA RunStepKept ==
  ASSUME ActivationInv, NEW r \in Runs, RunStep(r)
  PROVE  RunKept(r) \/ \E p \in Providers : InstallUnsaved(r, p)
<1>1. ASSUME NEW g \in GenerationIds, ResumeRun(r, g)
      PROVE  RunKept(r)
  BY <1>1, BeginKept, IdParts
<1> QED
  BY <1>1, BeginKept, MoveKept, StoreKept, CatalogStepKept, CompleteKept, SwitchStepKept,
     MountStepKept, FinishKept, TeardownKept DEF RunStep

\* A generation whose row is refused is known to no run, stored nowhere and
\* mounted nowhere.
LEMMA UnsavedKeeps ==
  ASSUME ActivationInv, NEW r \in Runs, NEW p \in Providers, InstallUnsaved(r, p)
  PROVE  /\ ActivationInv' /\ ManagerKept(p)
         /\ UNCHANGED <<row, mounted, candidates, overlay, unit, run>>
         /\ \A g \in GenerationIds : state[g] # "absent" => state'[g] = state[g]
<1> DEFINE n == <<p, sequence + 1>>
<1>1. /\ ManagerTypes /\ SequenceCovers /\ ActiveMapIsSound
  BY RunAt DEF ActivationInv
<1>2. n \in GenerationIds /\ state[n] = "absent" /\ ManagerKept(p)
  BY <1>1, BirthKept DEF InstallUnsaved, States
<1>3. UNCHANGED <<row, mounted, candidates, overlay, unit, run>>
  BY DEF InstallUnsaved, StoreFails
<1>4. \A g \in GenerationIds : state[g] # "absent" => state'[g] = state[g]
  BY <1>1, <1>2 DEF InstallUnsaved, ManagerTypes
<1> USE DEF ActivationInv, ManagerKept
<1>5. ActivationTypes'
  BY <1>2, <1>3 DEF ActivationTypes
<1>6. RowsRestored'
  BY <1>2, <1>3 DEF RowsRestored, InstallUnsaved
<1>7. MountedServes'
  BY <1>2, <1>3 DEF MountedServes
<1>8. OverlayExclusive'
  BY <1>3 DEF OverlayExclusive
<1>9. ASSUME NEW s \in Runs
      PROVE  RunKnows(s)'
  <2>1. RunKnows(s) /\ run[s] \in RunRecord
    BY DEF ActivationTypes
  <2> QED
    BY <1>2, <1>3, <2>1 DEF RunKnows, RunRecord
<1> QED
  BY <1>2, <1>3, <1>4, <1>5, <1>6, <1>7, <1>8, <1>9

\* Restoring a row and reconnecting an active generation, before any run.
LEMMA RestoreKeeps ==
  ASSUME ActivationInv, NEW g \in GenerationIds, RestoreRow(g)
  PROVE  ActivationInv' /\ UNCHANGED <<mounted, run>> /\ boot = "restoring"
<1> USE DEF ActivationInv, ActivationTypes
<1>1. /\ boot = "restoring" /\ state[g] = "absent" /\ row[g] \in States
      /\ state' = [state EXCEPT ![g] = row[g]] /\ UNCHANGED <<world, run>>
      /\ Restore(g, row[g]) /\ boot' \in {"restoring", "refused"}
  BY DEF RestoreRow, Restore
<1>2. provider(g) \in Providers /\ g[2] \in 1..MaxSequence
  BY IdParts
<1>3. /\ active' \in [Providers -> GenerationIds \cup {None}]
      /\ sequence' \in 0..MaxSequence
  BY <1>1, <1>2, SequenceAssumption DEF Restore
<1>4. SequenceCovers'
  BY <1>1, <1>2, IdParts, SequenceAssumption DEF Restore, SequenceCovers
<1>5. ActiveMapIsSound'
  BY <1>1, <1>2, NoneAssumption DEF Restore, ActiveMapIsSound
<1>6. ActivationTypes'
  BY <1>1, <1>3 DEF world
<1>7. RowsRestored'
  BY <1>1 DEF RowsRestored, world
<1>8. MountedServes'
  BY <1>1 DEF MountedServes, Unborn, world
<1>9. OverlayExclusive'
  BY <1>1 DEF OverlayExclusive, world
<1>10. \A s \in Runs : RunKnows(s)'
  BY <1>1 DEF RowsRestored, RunKnows
<1> QED
  BY <1>1, <1>4, <1>5, <1>6, <1>7, <1>8, <1>9, <1>10 DEF world

\* The families of the generation that is reconnected are taken from the others.
LEMMA ReconnectKeeps ==
  ASSUME ActivationInv, NEW g \in GenerationIds, NEW ok \in BOOLEAN, Reconnect(g, ok)
  PROVE  /\ ActivationInv' /\ UNCHANGED run /\ boot = "restoring"
         /\ \A h \in GenerationIds :
              \/ mounted'[h] \subseteq mounted[h]
                 /\ (provider(h) # provider(g) => mounted'[h] \cap families(provider(g)) = {})
              \/ h = g /\ mounted'[h] = families(provider(g))
<1> USE DEF ActivationInv, ActivationTypes
<1> DEFINE p == provider(g)
<1>1. p \in Providers /\ families(p) \subseteq Families
  BY IdParts, FamiliesTyped
<1>2. /\ boot = "restoring" /\ UNCHANGED <<vars, row, candidates, unit, run>>
      /\ state[g] = "active"
  BY DEF Reconnect, Restored, RowsRestored
<1>3. /\ mounted' \in [GenerationIds -> SUBSET Families]
      /\ \A h \in GenerationIds :
           mounted'[h] = IF h = g THEN IF ok THEN families(p) ELSE {}
                         ELSE IF provider(h) = p THEN mounted[h] ELSE mounted[h] \ families(p)
  BY <1>1 DEF Reconnect
<1>4. OverlayKept(p)
  BY <1>1, CatalogKept, UnchangedKept DEF Reconnect
<1>5. ActivationTypes'
  BY <1>2, <1>3, <1>4 DEF vars, OverlayKept
<1>6. RowsRestored' /\ SequenceCovers' /\ ActiveMapIsSound'
  BY <1>2 DEF RowsRestored, SequenceCovers, ActiveMapIsSound, vars
<1>7. MountedServes'
  <2>1. ASSUME NEW h \in GenerationIds
        PROVE  /\ mounted'[h] # {} => state'[h] \notin Unborn
               /\ mounted'[h] \subseteq families(provider(h))
    BY <1>2, <1>3 DEF MountedServes, Unborn, vars
  <2> QED
    BY <2>1 DEF MountedServes
<1>8. OverlayExclusive'
  BY <1>4 DEF OverlayKept
<1>9. \A s \in Runs : RunKnows(s)'
  BY <1>2 DEF RowsRestored, RunKnows
<1> QED
  BY <1>2, <1>3, <1>5, <1>6, <1>7, <1>8, <1>9

\* After a stop only the rows and the units are left.
LEMMA CrashKeeps ==
  ASSUME ActivationInv, Crash
  PROVE  ActivationInv' /\ \A r \in Runs : run'[r].pc = "idle"
<1> USE DEF ActivationInv, ActivationTypes, Crash
<1>1. Idle \in RunRecord /\ Idle.pc = "idle"
  BY DEF Idle, RunRecord, Labels
<1>2. \A r \in Runs : run'[r] = Idle
  OBVIOUS
<1>3. overlay' \in Overlays /\ Exclusive(overlay')
  BY DEF Overlays, Exclusive, Unpublished
<1>4. ActivationTypes'
  BY <1>1, <1>3, SequenceAssumption
<1>5. RowsRestored' /\ SequenceCovers' /\ ActiveMapIsSound' /\ MountedServes' /\ OverlayExclusive'
  BY <1>1, <1>2, <1>3
  DEF RowsRestored, SequenceCovers, ActiveMapIsSound, MountedServes, OverlayExclusive
<1>6. \A r \in Runs : RunKnows(r)'
  BY <1>1, <1>2 DEF RunKnows
<1> QED
  BY <1>1, <1>2, <1>4, <1>5, <1>6

\* Starting a unit, calls of operations, the end of the restoration.
LEMMA OutsideKeeps ==
  ASSUME ActivationInv,
         \/ \E p \in Providers : StartUnit(p)
         \/ \E c \in Clients, p \in Providers : CallOperation(c, p)
         \/ \E c \in Clients : CallReturns(c)
         \/ ServeRestored
         \/ UNCHANGED allVars
  PROVE  /\ ActivationInv'
         /\ UNCHANGED <<state, row, mounted, candidates, overlay, run>>
         /\ UNCHANGED unit \/ \A r \in Runs : run'[r].pc = "idle"
<1> USE DEF ActivationInv
<1>1. UNCHANGED <<state, active, sequence, row, mounted, candidates, overlay, run>>
  BY DEF StartUnit, CallOperation, OpenSession, Opened, CallReturns, CloseSession,
         ServeRestored, Serve, allVars, vars, world
<1>2. \/ UNCHANGED boot
      \/ boot = "restoring" /\ boot' = "serving" /\ Restored
  BY DEF StartUnit, CallOperation, OpenSession, Opened, CallReturns, CloseSession,
         ServeRestored, Serve, allVars, vars, world
<1>3. \/ UNCHANGED unit
      \/ \E p \in Providers : unit' = [unit EXCEPT ![p] = "up"]
                              /\ \A r \in Runs : run[r].pc = "idle"
  BY DEF StartUnit, CallOperation, CallReturns, ServeRestored, allVars, world
<1>4. ActivationTypes'
  BY <1>1, <1>2, <1>3 DEF ActivationTypes
<1>5. RowsRestored'
  BY <1>1, <1>2 DEF RowsRestored, Restored
<1>6. SequenceCovers' /\ ActiveMapIsSound' /\ MountedServes' /\ OverlayExclusive'
  BY <1>1 DEF SequenceCovers, ActiveMapIsSound, MountedServes, OverlayExclusive
<1>7. \A r \in Runs : RunKnows(r)'
  BY <1>1 DEF RunKnows
<1> QED
  BY <1>1, <1>3, <1>4, <1>5, <1>6, <1>7

\* Whatever runs overlap, with stops, restarts and refused writes.
LEMMA ActivationInduction ==
  ASSUME ActivationInv, [ActivationNext]_allVars
  PROVE  ActivationInv'
<1>1. ASSUME NEW r \in Runs, RunStep(r)
      PROVE  ActivationInv'
  <2>1. CASE RunKept(r)
    BY <2>1, LocalKeeps DEF RunKept
  <2>2. CASE \E p \in Providers : InstallUnsaved(r, p)
    BY <2>2, UnsavedKeeps
  <2> QED
    BY <1>1, <2>1, <2>2, RunStepKept
<1>2. ASSUME NEW g \in GenerationIds, RestoreRow(g) \/ \E ok \in BOOLEAN : Reconnect(g, ok)
      PROVE  ActivationInv'
  BY <1>2, RestoreKeeps, ReconnectKeeps
<1> QED
  BY <1>1, <1>2, CrashKeeps, OutsideKeeps DEF ActivationNext

\* So it holds of every reachable state.
LEMMA ActivationInvariant == ActivationSpec => []ActivationInv
<1>1. ASSUME ActivationInit
      PROVE  ActivationInv
  <2> USE <1>1 DEF ActivationInit, Init
  <2>1. Idle \in RunRecord /\ Idle.pc = "idle"
    BY DEF Idle, RunRecord, Labels
  <2>2. overlay \in Overlays /\ Exclusive(overlay)
    BY DEF Overlays, Exclusive, Unpublished
  <2>3. ActivationTypes
    BY <2>1, <2>2, SequenceAssumption DEF ActivationTypes
  <2>4. \A r \in Runs : run[r].pc = "idle"
    BY <2>1
  <2> QED
    BY <2>2, <2>3, <2>4
    DEF ActivationInv, RowsRestored, SequenceCovers, ActiveMapIsSound, MountedServes,
        OverlayExclusive, RunKnows
<1> QED
  BY <1>1, ActivationInduction, PTL DEF ActivationSpec

\* The operations of a candidate are published before the switch, but nothing
\* of it is mounted until it was made active: whatever runs overlap, and after
\* a stop between any two steps.
THEOREM CandidatesAreIsolated == ActivationSpec => []CandidateIsolated
<1>1. ActivationInv => CandidateIsolated
  BY DEF ActivationInv, MountedServes, CandidateIsolated, Unborn
<1> QED
  BY <1>1, ActivationInvariant, PTL

\* registerProviderServicesForGeneration and restoreProviderManifest displace
\* before they publish: no two providers are published for one family, whatever
\* runs overlap.
THEOREM CatalogIsExclusive == ActivationSpec => []OverlayExclusive
BY ActivationInvariant, PTL DEF ActivationInv
----------------------------------------------------------------------------
\* How far a run has come matters at these places only.
Tracked == {"recipe", "activating", "ready", "admission", "published", "displaced",
            "drain", "stopped", "retire", "tornDown"}

\* Elsewhere nothing has to be known of a run.
LEMMA Untracked ==
  ASSUME NEW r \in Runs, run'[r].pc \notin Tracked
  PROVE  RunHas(r)'
BY DEF RunHas, Tracked

\* Steps after which nothing is to be known of the run.
LEMMA UntrackedStep ==
  ASSUME ActivationInv, NEW r \in Runs,
         \/ InstallAbandoned(r) \/ RecipeFails(r) \/ CompleteUnactivated(r) \/ Reaffirm(r)
         \/ AdmissionDenied(r) \/ NothingToPublish(r) \/ RegistrationRefused(r)
         \/ ActivationSwitched(r) \/ PredecessorSaved(r) \/ ActiveSaved(r)
         \/ GenerationMounted(r) \/ Rollback(r) \/ RollbackSaved(r)
         \/ Cleanup(r) \/ CleanupSaved(r) \/ TeardownFails(r) \/ TeardownFinalized(r)
         \/ TeardownReported(r)
         \/ \E p \in Providers, forced \in BOOLEAN : Teardown(r, p, forced)
  PROVE  RunHas(r)'
<1> DEFINE Loose == {"idle", "failing", "switched", "drained", "saved", "rollback", "mounted",
                     "rolled", "stuck", "cleaned", "teardown", "cleanup"}
<1>1. Loose \subseteq Labels /\ Loose \cap Tracked = {}
  BY DEF Labels, Tracked
<1>2. run \in [Runs -> RunRecord]
  BY DEF ActivationInv, ActivationTypes
<1>3. CASE \E label \in Loose : Goto(r, label)
  BY <1>1, <1>3, RunMoves, Untracked
<1>4. CASE ActivationSwitched(r) /\ run' = [run EXCEPT ![r].pc = "switched",
                                                     ![r].prev = active[provider(run[r].gen)]]
  BY <1>1, <1>2, <1>4, Untracked DEF RunRecord
<1>5. CASE \E p \in Providers, forced \in BOOLEAN : Teardown(r, p, forced)
  BY <1>1, <1>2, <1>5, Untracked DEF Teardown, Idle
<1> HIDE DEF Loose
<1>6. /\ "idle" \in Loose /\ "failing" \in Loose /\ "drained" \in Loose /\ "saved" \in Loose
      /\ "rollback" \in Loose /\ "mounted" \in Loose /\ "rolled" \in Loose
      /\ "stuck" \in Loose /\ "cleaned" \in Loose /\ "cleanup" \in Loose
  BY DEF Loose
<1>7. ASSUME InstallAbandoned(r) \/ RecipeFails(r) \/ CompleteUnactivated(r) \/ Reaffirm(r)
             \/ AdmissionDenied(r) \/ NothingToPublish(r) \/ RegistrationRefused(r)
      PROVE  RunHas(r)'
  BY <1>3, <1>6, <1>7
  DEF InstallAbandoned, RecipeFails, CompleteUnactivated, Reaffirm, AdmissionDenied,
      NothingToPublish, RegistrationRefused, Failed
<1>8. ASSUME PredecessorSaved(r) \/ ActiveSaved(r) \/ GenerationMounted(r) \/ Rollback(r)
             \/ RollbackSaved(r) \/ Cleanup(r) \/ CleanupSaved(r)
             \/ TeardownFails(r) \/ TeardownFinalized(r) \/ TeardownReported(r)
      PROVE  RunHas(r)'
  BY <1>3, <1>6, <1>8
  DEF PredecessorSaved, ActiveSaved, GenerationMounted, Rollback, RollbackSaved, Cleanup,
      CleanupSaved, TeardownFails, TeardownFinalized, TeardownReported, Failed
<1>9. ASSUME ActivationSwitched(r)
      PROVE  RunHas(r)'
  BY <1>3, <1>4, <1>6, <1>9 DEF ActivationSwitched, Failed
<1> QED
  BY <1>5, <1>7, <1>8, <1>9

\* A candidate is not active before the switch.
LEMMA CandidateStep ==
  ASSUME ActivationInv, NEW r \in Runs, RunHas(r),
         \/ \E p \in Providers, again \in BOOLEAN : Install(r, p, again)
         \/ \E g \in GenerationIds : ResumeRun(r, g)
         \/ RecipeValidated(r) \/ ActivationReady(r) \/ ActivationReadySaved(r)
         \/ ActivationPublished(r) \/ ActivationFinished(r)
  PROVE  RunHas(r)'
<1> DEFINE Early == {"recipe", "activating", "ready", "admission", "published"}
<1>1. ManagerTypes /\ run[r] \in RunRecord /\ run \in [Runs -> RunRecord]
  BY RunAt DEF ActivationInv, ActivationTypes
<1>2. ASSUME NEW label \in Early \cup {"idle", "failing"},
             run'[r].pc = label,
             label \in Early => (run'[r].gen \in candidates' => state'[run'[r].gen] # "active")
      PROVE  RunHas(r)'
  BY <1>2 DEF RunHas
<1>3. Early \cup {"idle", "failing"} \subseteq Labels
  BY DEF Labels
<1>4. ASSUME NEW p \in Providers, NEW again \in BOOLEAN, Install(r, p, again)
      PROVE  RunHas(r)'
  <2> DEFINE g == <<p, sequence + 1>>
  <2>1. g \in GenerationIds
    BY <1>1, <1>4, BirthKept DEF Install, CreateCandidate, States, ActivationInv
  <2>2. state'[g] = "candidate"
    BY <1>1, <1>4, <2>1 DEF Install, CreateCandidate, ManagerTypes
  <2>3. PICK label \in {"activating", "recipe"} : Begin(r, label, g, again)
    BY <1>4 DEF Install
  <2>4. run'[r].pc = label /\ run'[r].gen = g
    BY <1>3, <2>1, <2>3, RunMoves
  <2> QED
    BY <1>2, <2>2, <2>4
<1>5. ASSUME NEW g \in GenerationIds, ResumeRun(r, g)
      PROVE  RunHas(r)'
  <2>1. run'[r].pc = "recipe" /\ run'[r].gen = g
    BY <1>5, RunMoves DEF ResumeRun, Labels
  <2> QED
    BY <1>2, <1>5, <2>1 DEF ResumeRun, world
<1>6. ASSUME run[r].pc \in Early, NEW label \in Early \cup {"idle", "failing"}, Goto(r, label),
             candidates' = candidates,
             run[r].gen \in candidates => state'[run[r].gen] = state[run[r].gen]
      PROVE  RunHas(r)'
  <2>1. run[r].gen \in candidates => state[run[r].gen] # "active"
    BY <1>6 DEF RunHas
  <2> QED
    BY <1>2, <1>3, <1>6, <2>1, RunMoves
<1>7. CASE RecipeValidated(r)
  BY <1>6, <1>7 DEF RecipeValidated, vars, world
<1>8. CASE ActivationPublished(r)
  BY <1>6, <1>8 DEF ActivationPublished, vars
<1>9. CASE ActivationReadySaved(r)
  <2>1. PICK label \in {"admission", "idle", "failing"} : Goto(r, label)
    BY <1>9 DEF ActivationReadySaved, Failed
  <2> QED
    BY <1>6, <1>9, <2>1 DEF ActivationReadySaved, vars
<1>10. CASE ActivationReady(r) /\ state[run[r].gen] \notin {"candidate", "ready"}
  <2>1. PICK label \in {"idle", "failing"} : Goto(r, label)
    BY <1>10 DEF ActivationReady, Failed
  <2> QED
    BY <1>6, <1>10, <2>1 DEF ActivationReady, vars, world
<1>11. CASE ActivationReady(r) /\ state[run[r].gen] \in {"candidate", "ready"}
  <2>1. run'[r].pc = "ready" /\ run'[r].gen = run[r].gen
    BY <1>1, <1>11 DEF ActivationReady, RunRecord
  <2>2. run[r].gen \in GenerationIds
    BY <1>11, RunAt DEF ActivationReady
  <2>3. state'[run[r].gen] = "ready"
    BY <1>1, <1>11, <2>2 DEF ActivationReady, MarkReady, vars, ManagerTypes
  <2> QED
    BY <1>2, <2>1, <2>3
<1>12. CASE ActivationFinished(r)
  <2>1. run[r].gen \in GenerationIds
    BY <1>12, RunAt DEF ActivationFinished
  <2>2. \/ run'[r].pc = "idle"
        \/ run'[r].pc = "recipe" /\ run'[r].gen = run[r].gen
    BY <1>12, <2>1, RunMoves DEF ActivationFinished, Labels
  <2> QED
    BY <1>2, <1>12, <2>2 DEF ActivationFinished
<1> QED
  BY <1>4, <1>5, <1>7, <1>8, <1>9, <1>10, <1>11, <1>12

\* Displacing leaves no other provider mounted in the families of this one;
\* a teardown stops, stores, unmounts and retires, in this order.
LEMMA ProgressStep ==
  ASSUME ActivationInv, NEW r \in Runs, RunHas(r),
         \/ FamiliesDisplaced(r) \/ HostServiceCleaned(r) \/ TeardownDrained(r)
         \/ StoppedSaved(r) \/ TeardownRetired(r)
  PROVE  RunHas(r)'
<1> DEFINE g == run[r].gen
           p == provider(g)
<1>1. run[r].pc # "idle"
  BY DEF FamiliesDisplaced, HostServiceCleaned, TeardownDrained, StoppedSaved, TeardownRetired
<1>2. /\ g \in GenerationIds /\ p \in Providers /\ ManagerTypes
      /\ row \in [GenerationIds -> States \cup {"absent"}]
      /\ mounted \in [GenerationIds -> SUBSET Families]
      /\ overlay \in Overlays
  BY <1>1, RunAt DEF ActivationInv, ActivationTypes
<1>3. ASSUME NEW label \in Labels, Goto(r, label)
      PROVE  run'[r].pc = label /\ (label # "idle" => run'[r].gen = g)
  BY <1>3, RunMoves
<1>4. ASSUME Goto(r, "idle")
      PROVE  RunHas(r)'
  BY <1>3, <1>4, Untracked DEF Labels, Tracked
<1>5. CASE FamiliesDisplaced(r)
  <2>1. CASE g \in candidates
    <3>1. run'[r].pc = "displaced" /\ run'[r].gen = g
      BY <1>3, <1>5, <2>1 DEF FamiliesDisplaced, Labels
    <3>2. \A h \in GenerationIds : provider(h) # p => mounted'[h] \cap families(p) = {}
      BY <1>5, <2>1 DEF FamiliesDisplaced, displaceCordisCapabilityFamilies
    <3> QED
      BY <3>1, <3>2 DEF RunHas
  <2>2. CASE g \notin candidates
    <3>1. run'[r].pc = "mounted"
      BY <1>3, <1>5, <2>2 DEF FamiliesDisplaced, Labels
    <3> QED
      BY <3>1, Untracked DEF Tracked
  <2> QED
    BY <2>1, <2>2
<1>6. CASE HostServiceCleaned(r)
  <2>1. CASE UNCHANGED run
    BY <1>6, <2>1, Untracked DEF HostServiceCleaned, Tracked
  <2>2. CASE unit[p] = "down" /\ Goto(r, "drain") /\ UNCHANGED unit
    <3>1. run'[r].pc = "drain" /\ run'[r].gen = g
      BY <1>3, <2>2 DEF Labels
    <3> QED
      BY <2>2, <3>1 DEF RunHas
  <2> QED
    BY <1>4, <1>6, <2>1, <2>2 DEF HostServiceCleaned
<1>7. CASE TeardownDrained(r) /\ sessions[g] = 0
  <2>1. run'[r].pc = "stopped" /\ run'[r].gen = g
    BY <1>3, <1>7 DEF TeardownDrained, Labels
  <2>2. state'[g] = "stopped" /\ unit'[p] = "down"
    BY <1>2, <1>7 DEF TeardownDrained, Dispose, Disposed, world, RunHas, ManagerTypes
  <2> QED
    BY <2>1, <2>2 DEF RunHas
<1>8. CASE StoppedSaved(r) /\ Goto(r, "retire") /\ row' = [row EXCEPT ![g] = state[g]]
  <2>1. run'[r].pc = "retire" /\ run'[r].gen = g
    BY <1>3, <1>8 DEF Labels
  <2>2. state'[g] = "stopped" /\ unit'[p] = "down" /\ row'[g] = "stopped"
    BY <1>2, <1>8 DEF StoppedSaved, RunHas, vars
  <2> QED
    BY <2>1, <2>2 DEF RunHas
<1>9. CASE TeardownRetired(r)
  <2>1. run'[r].pc = "tornDown" /\ run'[r].gen = g
    BY <1>3, <1>9 DEF TeardownRetired, Labels
  <2>2. state'[g] = "stopped" /\ unit'[p] = "down" /\ row'[g] = "stopped"
    BY <1>9 DEF TeardownRetired, RunHas, vars
  <2>3. mounted'[g] = {}
    BY <1>2, <1>9 DEF TeardownRetired, unmountProviderGeneration, Unmounted
  <2>4. overlay'[p].generation # g
    <3>1. CASE overlay[p].generation = g
      BY <1>2, <1>9, <3>1, NoneAssumption
      DEF TeardownRetired, retireProviderCapabilities, Unpublished, Overlays
    <3>2. CASE overlay[p].generation # g
      BY <1>2, <1>9, <3>2, NoneAssumption DEF TeardownRetired, retireProviderCapabilities
    <3> QED
      BY <3>1, <3>2
  <2> QED
    BY <2>1, <2>2, <2>3, <2>4 DEF RunHas
<1> QED
  BY <1>4, <1>5, <1>6, <1>7, <1>8, <1>9 DEF TeardownDrained, StoppedSaved, Saved

\* A run keeps what it has reached, and reaches what it has to.
LEMMA OwnProgress ==
  ASSUME ActivationInv, NEW r \in Runs, RunHas(r), RunStep(r), RunKept(r)
  PROVE  RunHas(r)'
<1>1. ASSUME NEW p \in Providers, InstallUnsaved(r, p)
      PROVE  RunHas(r)'
  BY <1>1, Untracked DEF InstallUnsaved, Tracked
<1> QED
  BY <1>1, UntrackedStep, CandidateStep, ProgressStep DEF RunStep
\* A generation is mounted only where its families were cleared.
LEMMA NarrowerMounts ==
  ASSUME MountedExclusive, \A g \in GenerationIds : mounted'[g] \subseteq mounted[g]
  PROVE  MountedExclusive'
BY DEF MountedExclusive

\* Of all steps only two mount anything: Reaffirm never does, because what is
\* registered as a candidate is not active yet, and GenerationMounted finds its
\* families cleared.
LEMMA OwnMounts ==
  ASSUME ActivationInv, MountedExclusive, NEW r \in Runs, RunHas(r), RunStep(r)
  PROVE  MountedExclusive'
<1> DEFINE g == run[r].gen
<1>1. mounted \in [GenerationIds -> SUBSET Families]
  BY DEF ActivationInv, ActivationTypes
<1>2. CASE GenerationMounted(r) /\ mounted' = [mounted EXCEPT ![g] = families(provider(g))]
  <2>1. \A h \in GenerationIds :
          provider(h) # provider(g) => mounted[h] \cap families(provider(g)) = {}
    BY <1>2 DEF GenerationMounted, RunHas
  <2>2. g \in GenerationIds
    BY <1>2, RunAt DEF GenerationMounted
  <2> QED
    BY <1>1, <1>2, <2>1, <2>2 DEF MountedExclusive
<1>3. ASSUME NEW h \in GenerationIds, unmountProviderGeneration(h)
      PROVE  MountedExclusive'
  BY <1>1, <1>3, NarrowerMounts DEF unmountProviderGeneration, Unmounted
<1>4. ASSUME NEW p, displaceCordisCapabilityFamilies(p)
      PROVE  MountedExclusive'
  BY <1>1, <1>4, NarrowerMounts DEF displaceCordisCapabilityFamilies
<1>5. ASSUME UNCHANGED mounted
      PROVE  MountedExclusive'
  BY <1>5, NarrowerMounts
<1>6. CASE Reaffirm(r)
  <2>1. g \in GenerationIds /\ active[provider(g)] # None
    BY <1>6, RunAt, NoneAssumption DEF Reaffirm
  <2>2. state[g] = "active"
    BY <1>6, <2>1, RunAt DEF Reaffirm, ActivationInv, ActiveMapIsSound
  <2>3. g \notin candidates
    BY <1>6, <2>2 DEF Reaffirm, RunHas
  <2> QED
    BY <1>5, <1>6, <2>3 DEF Reaffirm
<1>7. CASE ActivationFinished(r) \/ Rollback(r) \/ TeardownRetired(r)
  <2>1. g \in GenerationIds /\ run[r].prev \in GenerationIds \cup {None}
    BY <1>7, RunAt DEF ActivationFinished, Rollback, TeardownRetired, RunRecord
  <2> QED
    BY <1>3, <1>5, <1>7, <2>1 DEF ActivationFinished, Rollback, TeardownRetired
<1>8. CASE GenerationMounted(r) \/ FamiliesDisplaced(r)
  BY <1>2, <1>4, <1>5, <1>8 DEF GenerationMounted, FamiliesDisplaced
<1>9. CASE \/ InstallAbandoned(r) \/ RecipeFails(r) \/ RecipeValidated(r)
           \/ CompleteUnactivated(r) \/ ActivationReady(r) \/ ActivationReadySaved(r)
           \/ AdmissionDenied(r) \/ NothingToPublish(r) \/ RegistrationRefused(r)
           \/ ActivationPublished(r) \/ ActivationSwitched(r)
  BY <1>5, <1>9
  DEF InstallAbandoned, RecipeFails, RecipeValidated, CompleteUnactivated, ActivationReady,
      ActivationReadySaved, AdmissionDenied, NothingToPublish, RegistrationRefused,
      ActivationPublished, ActivationSwitched, world
<1>10. CASE \/ PredecessorSaved(r) \/ ActiveSaved(r) \/ RollbackSaved(r) \/ Cleanup(r)
            \/ CleanupSaved(r) \/ TeardownFails(r) \/ TeardownFinalized(r)
            \/ HostServiceCleaned(r) \/ TeardownDrained(r) \/ StoppedSaved(r)
            \/ TeardownReported(r)
  BY <1>5, <1>10
  DEF PredecessorSaved, ActiveSaved, RollbackSaved, Cleanup, CleanupSaved, TeardownFails,
      TeardownFinalized, HostServiceCleaned, TeardownDrained, StoppedSaved,
      TeardownReported, world
<1>11. ASSUME NEW p \in Providers,
              \/ \E again \in BOOLEAN : Install(r, p, again)
              \/ InstallUnsaved(r, p)
              \/ \E forced \in BOOLEAN : Teardown(r, p, forced)
       PROVE  MountedExclusive'
  BY <1>5, <1>11 DEF Install, InstallUnsaved, Teardown, world
<1>12. ASSUME NEW h \in GenerationIds, ResumeRun(r, h)
       PROVE  MountedExclusive'
  BY <1>5, <1>12 DEF ResumeRun, world
<1> QED
  BY <1>6, <1>7, <1>8, <1>9, <1>10, <1>11, <1>12 DEF RunStep

\* While the runs in progress are about unrelated providers, before and after
\* the step, none undoes what another has reached.
LEMMA ApartInduction ==
  ASSUME ActivationInv, ApartInv, RunsApart, RunsApart', [ActivationNext]_allVars
  PROVE  ApartInv'
<1> USE DEF ApartInv
<1>1. ASSUME NEW r \in Runs, RunStep(r), RunKept(r)
      PROVE  ApartInv'
  <2>1. MountedExclusive' /\ RunHas(r)'
    BY <1>1, OwnMounts, OwnProgress
  <2>2. PICK p \in Providers :
          /\ LocalStep(r, p)
          /\ run[r].pc # "idle" => provider(run[r].gen) = p
          /\ run'[r].pc # "idle" => provider(run'[r].gen) = p
          /\ run[r].pc # "idle" \/ run'[r].pc # "idle"
    BY <1>1 DEF RunKept
  <2>3. ASSUME NEW s \in Runs, s # r
        PROVE  RunHas(s)'
    <3>1. run'[s] = run[s]
      BY <2>2, <2>3 DEF LocalStep, ActivationInv, ActivationTypes
    <3>2. ASSUME run[s].pc # "idle"
          PROVE  Unrelated(provider(run[s].gen), p)
      <4>1. CASE run[r].pc # "idle"
        BY <2>2, <2>3, <3>2, <4>1 DEF RunsApart
      <4>2. CASE run'[r].pc # "idle"
        BY <2>2, <2>3, <3>1, <3>2, <4>2 DEF RunsApart
      <4> QED
        BY <2>2, <4>1, <4>2
    <3> QED
      BY <2>2, <2>3, <3>2, LocalKeepsOthers
  <2> QED
    BY <2>1, <2>3
<1>2. ASSUME NEW r \in Runs, NEW p \in Providers, InstallUnsaved(r, p)
      PROVE  ApartInv'
  <2>1. /\ UNCHANGED <<row, mounted, candidates, overlay, unit, run>>
        /\ \A g \in GenerationIds : state[g] # "absent" => state'[g] = state[g]
    BY <1>2, UnsavedKeeps
  <2>2. MountedExclusive'
    BY <2>1, NarrowerMounts
  <2>3. ASSUME NEW s \in Runs
        PROVE  RunHas(s)'
    <3>1. CASE run[s].pc = "idle"
      BY <2>1, <3>1, Untracked DEF Tracked
    <3>2. CASE run[s].pc # "idle"
      <4>1. state'[run[s].gen] = state[run[s].gen]
        BY <2>1, <3>2, RunAt
      <4> QED
        BY <2>1, <4>1 DEF RunHas
    <3> QED
      BY <3>1, <3>2
  <2> QED
    BY <2>2, <2>3
<1>3. ASSUME MountedExclusive', \A s \in Runs : run'[s].pc = "idle"
      PROVE  ApartInv'
  BY <1>3, Untracked DEF Tracked
<1>4. ASSUME NEW g \in GenerationIds, RestoreRow(g)
      PROVE  ApartInv'
  <2>1. UNCHANGED <<mounted, run>> /\ \A s \in Runs : run[s].pc = "idle"
    BY <1>4, RestoreKeeps DEF ActivationInv, RowsRestored
  <2> QED
    BY <1>3, <2>1, NarrowerMounts
<1>5. ASSUME NEW g \in GenerationIds, NEW ok \in BOOLEAN, Reconnect(g, ok)
      PROVE  ApartInv'
  <2>1. /\ UNCHANGED run /\ \A s \in Runs : run[s].pc = "idle"
        /\ \A h \in GenerationIds :
             \/ mounted'[h] \subseteq mounted[h]
                /\ (provider(h) # provider(g) => mounted'[h] \cap families(provider(g)) = {})
             \/ h = g /\ mounted'[h] = families(provider(g))
    BY <1>5, ReconnectKeeps DEF ActivationInv, RowsRestored
  <2>2. MountedExclusive'
    BY <2>1 DEF MountedExclusive
  <2> QED
    BY <1>3, <2>1, <2>2
<1>6. ASSUME Crash
      PROVE  ApartInv'
  <2>1. MountedExclusive'
    BY <1>6 DEF Crash, MountedExclusive
  <2> QED
    BY <1>3, <1>6, <2>1, CrashKeeps
<1>7. ASSUME UNCHANGED <<state, row, mounted, candidates, overlay, run>>,
             UNCHANGED unit \/ \A r \in Runs : run'[r].pc = "idle"
      PROVE  ApartInv'
  <2>1. MountedExclusive'
    BY <1>7, NarrowerMounts
  <2>2. CASE UNCHANGED unit
    <3>1. ASSUME NEW s \in Runs PROVE RunHas(s)'
      BY <1>7, <2>2 DEF RunHas
    <3> QED
      BY <2>1, <3>1
  <2> QED
    BY <1>3, <1>7, <2>1, <2>2
<1>8. ASSUME NEW r \in Runs, RunStep(r)
      PROVE  ApartInv'
  BY <1>1, <1>2, <1>8, RunStepKept
<1> QED
  BY <1>4, <1>5, <1>6, <1>7, <1>8, OutsideKeeps DEF ActivationNext

\* As long as no two runs in progress are about providers that are the same or
\* share a capability family, what is mounted and published follows the
\* generations.
THEOREM ApartRunsAreConsistent == ActivationSpec /\ []RunsApart => []ActivationConsistent
<1>1. ActivationInit => ApartInv
  BY DEF ActivationInit, ApartInv, MountedExclusive, RunHas, Idle
<1>2. ActivationInv /\ ApartInv /\ RunsApart /\ RunsApart' /\ [ActivationNext]_allVars
        => ApartInv'
  BY ApartInduction
<1>3. ActivationInv /\ ApartInv => ActivationConsistent
  <2> SUFFICES ASSUME ActivationInv, ApartInv
               PROVE  ActivationConsistent
    OBVIOUS
  <2>1. ExclusiveFamily
    BY DEF ActivationInv, ApartInv, MountedExclusive, OverlayExclusive, Exclusive,
           ExclusiveFamily
  <2>2. CandidateIsolated
    BY DEF ActivationInv, MountedServes, CandidateIsolated, Unborn
  <2>3. TornDownIsGone
    BY DEF ApartInv, RunHas, TornDownIsGone
  <2> QED
    BY <2>1, <2>2, <2>3 DEF ActivationConsistent
<1> QED
  BY <1>1, <1>2, <1>3, ActivationInvariant, PTL DEF ActivationSpec

\* With one run at a time, for any number of providers, generations, callers,
\* restarts and refused writes.
THEOREM OneRunIsConsistent ==
  ASSUME \A r, s \in Runs : r = s
  PROVE  ActivationSpec => []ActivationConsistent
<1>1. RunsApart
  BY DEF RunsApart
<1>2. []RunsApart
  BY <1>1, PTL
<1> QED
  BY <1>2, ApartRunsAreConsistent, PTL
\* A run only ever works on the providers it may be about.
Assigned(r) == run[r].pc # "idle" => provider(run[r].gen) \in RunProvider[r]

\* Install, ResumeRun and Teardown choose among them, no step moves a run to
\* another provider.
LEMMA AssignedInduction ==
  ASSUME ActivationInv, \A r \in Runs : Assigned(r), [ActivationNext]_allVars
  PROVE  \A r \in Runs : Assigned(r)'
<1>1. ASSUME UNCHANGED run \/ \A r \in Runs : run'[r].pc = "idle"
      PROVE  \A r \in Runs : Assigned(r)'
  BY <1>1 DEF Assigned
<1>2. ASSUME NEW r \in Runs, RunStep(r), RunKept(r)
      PROVE  \A s \in Runs : Assigned(s)'
  <2>1. PICK p \in Providers :
          /\ LocalStep(r, p)
          /\ run[r].pc # "idle" => provider(run[r].gen) = p
          /\ run'[r].pc # "idle" => provider(run'[r].gen) = p
    BY <1>2 DEF RunKept
  <2>2. \A s \in Runs : s # r => run'[s] = run[s]
    BY <2>1 DEF LocalStep, ActivationInv, ActivationTypes
  <2>3. CASE run[r].pc # "idle"
    BY <2>1, <2>2, <2>3 DEF Assigned
  <2>4. CASE run[r].pc = "idle"
    <3>1. \/ \E q \in Providers, again \in BOOLEAN : Install(r, q, again)
          \/ \E q \in Providers : InstallUnsaved(r, q)
          \/ \E q \in Providers, forced \in BOOLEAN : Teardown(r, q, forced)
          \/ \E g \in GenerationIds : ResumeRun(r, g)
      BY <1>2, <2>4
      DEF RunStep, InstallAbandoned, RecipeFails, RecipeValidated, CompleteUnactivated,
          Reaffirm, ActivationReady, ActivationReadySaved, AdmissionDenied,
          NothingToPublish, RegistrationRefused, ActivationPublished, ActivationSwitched,
          PredecessorSaved, ActiveSaved, FamiliesDisplaced, GenerationMounted,
          ActivationFinished, Rollback, RollbackSaved, Cleanup, CleanupSaved,
          TeardownFails, TeardownFinalized, HostServiceCleaned, TeardownDrained,
          StoppedSaved, TeardownRetired, TeardownReported
    <3>2. run \in [Runs -> RunRecord] /\ "recipe" \in Labels /\ "activating" \in Labels
      BY DEF ActivationInv, ActivationTypes, Labels
    <3>3. ASSUME NEW q \in Providers, NEW again \in BOOLEAN, Install(r, q, again)
          PROVE  Assigned(r)'
      <4>1. <<q, sequence + 1>> \in GenerationIds /\ provider(<<q, sequence + 1>>) = q
        BY <3>3, RunAt, BirthKept DEF Install, CreateCandidate, States, ActivationInv
      <4>2. run'[r].gen = <<q, sequence + 1>>
        BY <3>2, <3>3, <4>1, RunMoves DEF Install
      <4> QED
        BY <3>3, <4>1, <4>2 DEF Assigned, Install
    <3>4. ASSUME NEW q \in Providers, NEW forced \in BOOLEAN, Teardown(r, q, forced)
          PROVE  Assigned(r)'
      <4>1. run'[r].gen = active[q] /\ provider(active[q]) = q
        BY <3>2, <3>4 DEF Teardown, Idle, ActivationInv, ActiveMapIsSound
      <4> QED
        BY <3>4, <4>1 DEF Assigned, Teardown
    <3>5. ASSUME NEW g \in GenerationIds, ResumeRun(r, g)
          PROVE  Assigned(r)'
      <4>1. run'[r].gen = g
        BY <3>2, <3>5, RunMoves DEF ResumeRun
      <4> QED
        BY <3>5, <4>1 DEF Assigned, ResumeRun
    <3>6. ASSUME NEW q \in Providers, InstallUnsaved(r, q)
          PROVE  Assigned(r)'
      BY <3>6 DEF InstallUnsaved, Assigned
    <3>7. Assigned(r)'
      BY <3>1, <3>3, <3>4, <3>5, <3>6
    <3> QED
      BY <2>2, <3>7 DEF Assigned
  <2> QED
    BY <2>3, <2>4
<1>3. ASSUME NEW r \in Runs, NEW p \in Providers, InstallUnsaved(r, p)
      PROVE  \A s \in Runs : Assigned(s)'
  BY <1>1, <1>3 DEF InstallUnsaved
<1>4. ASSUME NEW g \in GenerationIds, RestoreRow(g) \/ \E ok \in BOOLEAN : Reconnect(g, ok)
      PROVE  \A s \in Runs : Assigned(s)'
  BY <1>1, <1>4 DEF RestoreRow, Reconnect
<1> QED
  BY <1>1, <1>2, <1>3, <1>4, RunStepKept, CrashKeeps, OutsideKeeps DEF ActivationNext

\* Any number of runs, each bound to providers unrelated to those of the others.
THEOREM UnrelatedRunsAreConsistent ==
  ASSUME \A r, s \in Runs : r # s =>
           \A p \in RunProvider[r], q \in RunProvider[s] : Unrelated(p, q)
  PROVE  ActivationSpec => []ActivationConsistent
<1> DEFINE AllAssigned == \A r \in Runs : Assigned(r)
<1>1. ActivationInit => AllAssigned
  BY DEF ActivationInit, Assigned, Idle
<1>2. ActivationInv /\ AllAssigned /\ [ActivationNext]_allVars => AllAssigned'
  BY AssignedInduction
<1>3. AllAssigned => RunsApart
  BY DEF Assigned, RunsApart
<1> QED
  BY <1>1, <1>2, <1>3, ActivationInvariant, ApartRunsAreConsistent, PTL DEF ActivationSpec
============================================================================
