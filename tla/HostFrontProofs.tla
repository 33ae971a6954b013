-------------------------- MODULE HostFrontProofs --------------------------
(***************************************************************************)
(* Tokens, permits, tool dispatch, byte streams, the HTTP transport and    *)
(* the Cordis context of one agent's front, for any clients, requests,     *)
(* agents, publishers, calls, consoles, relays, services and limits.       *)
(*                                                                         *)
(* Tokens: a code is spent in the critical section that hands it to one    *)
(* handler, so a token and a holder never share a code.  Permits: counters *)
(* are sizes of sets of requests, and a queued request is never the only   *)
(* one left.  Dispatch: a listed tool is in the table of names or in the   *)
(* hands of a publisher; a callback looks its parent's record up in the    *)
(* step that lets it run.  Streams: the maps of consoles, relays and       *)
(* connectors name what is open.  Transport: a request that reaches a      *)
(* handler was validated, and renaming its tool keeps what was validated.  *)
(* Context: see FiberInv.                                                  *)
(***************************************************************************)
EXTENDS AccessTokens, AdmissionPermits, ToolDispatch, HostStreams, McpTransport,
        CordisContext, FiniteSetTheorems, TLAPS

----------------------------------------------------------------------------
\* The code a handler is about to exchange for a token, or NoAccess.
HeldCode(h) == authHandler[h].code

\* Whoever is about to mint for a code has spent it, and alone.
SpentByHolder ==
  \A h \in AuthRequests : HeldCode(h) # NoAccess =>
    /\ HeldCode(h) \in DOMAIN authCodes /\ authCodes[HeldCode(h)].used
    /\ \A k \in AuthRequests : HeldCode(k) = HeldCode(h) => k = h

\* A code that bought a token is spent, and nobody holds it.
SpentByToken ==
  \A t \in DOMAIN minted : minted[t].code # NoAccess =>
    /\ minted[t].code \in DOMAIN authCodes /\ authCodes[minted[t].code].used
    /\ \A h \in AuthRequests : HeldCode(h) # minted[t].code

\* A stored row is what was handed out, and is marked when it was revoked.
RowsAgree ==
  \A t \in DOMAIN authTokens :
    /\ t \in DOMAIN minted
    /\ authTokens[t].resource = minted[t].row.resource
    /\ authTokens[t].expires = minted[t].row.expires
    /\ authTokens[t].revoked <=> t \in withdrawn \ unwritten

\* A row is only collected after its token has expired.
CollectedExpired ==
  \A t \in DOMAIN minted : t \notin DOMAIN authTokens => minted[t].row.expires < authClock

AccessInv ==
  /\ AccessTypeOK
  /\ SpentByHolder /\ SpentByToken /\ CodeBuysOneToken
  /\ RowsAgree /\ CollectedExpired

\* An agent starts with the clients it was configured with, and no code or
\* token.
LEMMA AccessInitial == AccessInit => AccessInv
<1>1. SUFFICES ASSUME AccessInit PROVE AccessInv
  OBVIOUS
<1>2. AccessTypeOK
  BY <1>1, AccessAssumption DEF AccessInit, AccessTypeOK, Registered
<1> QED
  BY <1>1, <1>2 DEF AccessInit, AccessInv, SpentByHolder, SpentByToken, CodeBuysOneToken,
     RowsAgree, CollectedExpired, HeldCode, NoHandler

\* A step that leaves codes, handlers and tokens alone, but for the time.
LEMMA AccessFrame ==
  ASSUME AccessInv, AccessTypeOK', UNCHANGED <<authCodes, authTokens, authHandler, minted, withdrawn, unwritten>>,
         authClock' >= authClock
  PROVE  AccessInv'
BY DEF AccessInv, AccessTypeOK, SpentByHolder, SpentByToken, CodeBuysOneToken, RowsAgree,
       CollectedExpired, HeldCode, TokenRows

\* handleAuthorize inserts a code nobody has seen.
LEMMA AuthorizeKeeps ==
  ASSUME AccessInv, NEW client \in OAuthClients, NEW resource \in AccessResources,
         NEW code \in AuthCodes, handleAuthorize(client, resource, code)
  PROVE  AccessInv'
<1> USE DEF AccessInv, handleAuthorize
<1>1. AccessTypeOK'
  BY DEF AccessTypeOK, Added, CodeRows, fetchCIMD
<1>2. SpentByHolder'
  BY DEF SpentByHolder, HeldCode, Added
<1>3. SpentByToken'
  BY DEF SpentByToken, HeldCode, Added
<1> QED
  BY <1>1, <1>2, <1>3 DEF CodeBuysOneToken, RowsAgree, CollectedExpired

\* consumeCode marks the code before its handler may mint.
LEMMA ExchangeKeeps ==
  ASSUME AccessInv, NEW h \in AuthRequests, NEW code \in AuthCodes,
         issueAuthorizationCodeToken(h, code)
  PROVE  AccessInv'
<1> USE DEF AccessInv, issueAuthorizationCodeToken
<1>1. AccessTypeOK'
  <2>1. authCodes[code] \in CodeRows
    BY DEF AccessTypeOK
  <2>2. authCodes' \in [DOMAIN authCodes -> CodeRows]
    BY <2>1 DEF AccessTypeOK, consumeCode, CodeRows
  <2>3. authHandler' \in [AuthRequests -> TokenRequests \cup {NoHandler}]
    BY <2>1 DEF AccessTypeOK, CodeRows, TokenRequests
  <2> QED
    BY <2>2, <2>3 DEF AccessTypeOK
<1>2. SpentByHolder'
  BY AccessAssumption DEF SpentByHolder, HeldCode, AccessTypeOK, consumeCode, CodeUsable, CodeRows
<1>3. SpentByToken'
  BY DEF SpentByToken, HeldCode, AccessTypeOK, consumeCode, CodeUsable, CodeRows
<1> QED
  BY <1>1, <1>2, <1>3 DEF CodeBuysOneToken, RowsAgree, CollectedExpired

\* A client's own credentials buy a token that no code stands behind.
LEMMA CredentialsKeep ==
  ASSUME AccessInv, NEW h \in AuthRequests, NEW client \in OAuthClients,
         NEW resource \in AccessResources, NEW right \in BOOLEAN,
         issueClientCredentialsToken(h, client, resource, right)
  PROVE  AccessInv'
<1> USE DEF AccessInv, issueClientCredentialsToken
<1>1. AccessTypeOK'
  BY DEF AccessTypeOK, TokenRequests
<1>2. SpentByHolder' /\ SpentByToken'
  BY DEF SpentByHolder, SpentByToken, HeldCode, AccessTypeOK
<1> QED
  BY <1>1, <1>2 DEF CodeBuysOneToken, RowsAgree, CollectedExpired

\* saveToken hands out at most one token for what the handler holds, and the
\* prune only drops rows whose time, and grace, are over.
LEMMA SaveKeeps ==
  ASSUME AccessInv, NEW h \in AuthRequests, NEW token \in AccessTokenIds, saveToken(h, token)
  PROVE  AccessInv'
<1> USE DEF AccessInv, saveToken, HandlerEnds, HandlerAt
<1> DEFINE row  == [client |-> authHandler[h].client, resource |-> authHandler[h].resource,
                    expires |-> authClock + TokenTTL, revoked |-> FALSE]
           rows == Added(authTokens, token, row)
           gain == [row |-> row, code |-> HeldCode(h)]
<1>0. /\ authHandler[h] \in TokenRequests /\ row \in TokenRows
      /\ gain \in [row : TokenRows, code : AuthCodes \cup {NoAccess}]
  BY AccessAssumption DEF AccessTypeOK, NoHandler, TokenRequests, TokenRows, HeldCode
<1>1. CASE UNCHANGED <<authTokens, minted>>
  <2>1. AccessTypeOK'
    BY <1>1 DEF AccessTypeOK
  <2>2. SpentByHolder' /\ SpentByToken'
    BY <1>1 DEF SpentByHolder, SpentByToken, HeldCode, AccessTypeOK, NoHandler
  <2> QED
    BY <1>1, <2>1, <2>2 DEF CodeBuysOneToken, RowsAgree, CollectedExpired
<1>2. CASE minted' = Added(minted, token, gain) /\ authTokens' \in {rows, Pruned(rows)}
  <2>1. rows \in [DOMAIN rows -> TokenRows] /\ DOMAIN rows \subseteq AccessTokenIds
    BY <1>0 DEF Added, AccessTypeOK
  <2>2. /\ authTokens' \in [DOMAIN authTokens' -> TokenRows]
        /\ DOMAIN authTokens' \subseteq DOMAIN rows
        /\ \A t \in DOMAIN authTokens' : authTokens'[t] = rows[t]
        /\ \A t \in DOMAIN rows \ DOMAIN authTokens' : rows[t].expires < authClock
    <3> HIDE DEF rows
    <3>1. CASE authTokens' = rows
      BY <2>1, <3>1
    <3>2. CASE authTokens' = Pruned(rows)
      <4>1. \A t \in DOMAIN rows : rows[t].expires \in Nat
        BY <2>1 DEF TokenRows
      <4> QED
        BY <2>1, <3>2, <4>1, AccessAssumption DEF Pruned, AccessTypeOK
    <3> QED
      BY <1>2, <3>1, <3>2
  <2>3. /\ DOMAIN minted' = DOMAIN minted \cup {token}
        /\ minted'[token] = gain
        /\ \A t \in DOMAIN minted : t # token /\ minted'[t] = minted[t]
    BY <1>2 DEF Added
  <2>4. AccessTypeOK'
    <3>1. minted' \in [DOMAIN minted' -> [row : TokenRows, code : AuthCodes \cup {NoAccess}]]
      BY <1>0, <1>2 DEF Added, AccessTypeOK
    <3> QED
      BY <2>1, <2>2, <2>3, <3>1 DEF AccessTypeOK
  <2>5. SpentByHolder'
    BY DEF SpentByHolder, HeldCode, AccessTypeOK, NoHandler
  <2>6. SpentByToken'
    BY <2>3 DEF SpentByHolder, SpentByToken, HeldCode, AccessTypeOK, NoHandler
  <2>7. CodeBuysOneToken'
    BY <2>3 DEF CodeBuysOneToken, SpentByToken, HeldCode
  <2>8. token \notin withdrawn /\ token \notin DOMAIN authTokens
    BY DEF AccessTypeOK, RowsAgree
  <2>9. RowsAgree'
    <3>1. /\ rows[token] = row
          /\ \A t \in DOMAIN rows : t # token => t \in DOMAIN authTokens /\ rows[t] = authTokens[t]
      BY DEF Added
    <3>2. ASSUME NEW t \in DOMAIN authTokens'
          PROVE  /\ t \in DOMAIN minted'
                 /\ authTokens'[t].resource = minted'[t].row.resource
                 /\ authTokens'[t].expires = minted'[t].row.expires
                 /\ authTokens'[t].revoked <=> t \in withdrawn \ unwritten
      <4>1. authTokens'[t] = rows[t] /\ t \in DOMAIN rows
        BY <2>2, <3>2
      <4>2. CASE t = token
        BY <2>3, <2>8, <3>1, <4>1, <4>2
      <4>3. CASE t # token
        BY <2>3, <3>1, <4>1, <4>3 DEF RowsAgree
      <4> QED
        BY <4>2, <4>3
    <3> QED
      BY <3>2 DEF RowsAgree
  <2>10. CollectedExpired'
    <3>1. SUFFICES ASSUME NEW t \in DOMAIN minted', t \notin DOMAIN authTokens'
                   PROVE  minted'[t].row.expires < authClock
      BY DEF CollectedExpired
    <3>2. CASE t \in DOMAIN rows
      <4>1. rows[t].expires = minted'[t].row.expires
        BY <2>3, <2>8, <3>2 DEF RowsAgree, Added
      <4> QED
        BY <2>2, <3>1, <3>2, <4>1
    <3>3. CASE t \notin DOMAIN rows
      BY <2>3, <3>1, <3>3 DEF CollectedExpired, Added
    <3> QED
      BY <3>2, <3>3
  <2> QED
    BY <2>4, <2>5, <2>6, <2>7, <2>9, <2>10
<1> QED
  BY <1>1, <1>2 DEF HeldCode

\* handleRevoke marks the row of the token, or the answer is all there is.
LEMMA RevokeKeeps ==
  ASSUME AccessInv, NEW token \in AccessTokenIds, handleRevoke(token)
  PROVE  AccessInv'
<1> USE DEF AccessInv, handleRevoke
<1>1. AccessTypeOK'
  <2>1. authTokens' \in [DOMAIN authTokens -> TokenRows]
    <3>1. CASE UNCHANGED authTokens
      BY <3>1 DEF AccessTypeOK
    <3>2. CASE token \in DOMAIN authTokens /\ authTokens' = [authTokens EXCEPT ![token].revoked = TRUE]
      BY <3>2 DEF AccessTypeOK, TokenRows
    <3> QED
      BY <3>1, <3>2 DEF revokeHash
  <2>2. DOMAIN authTokens' = DOMAIN authTokens
    BY <2>1
  <2>3. unwritten' \subseteq withdrawn' /\ withdrawn' \subseteq DOMAIN minted
    BY DEF AccessTypeOK
  <2> QED
    BY <2>1, <2>2, <2>3 DEF AccessTypeOK
<1>2. RowsAgree'
  <2>1. CASE revokeHash(token) /\ unwritten' = unwritten \ {token}
    BY <2>1 DEF RowsAgree, AccessTypeOK, TokenRows, revokeHash
  <2>2. CASE UNCHANGED authTokens /\ token \in withdrawn \ unwritten /\ UNCHANGED unwritten
    BY <2>2 DEF RowsAgree
  <2>3. CASE UNCHANGED authTokens /\ token \notin withdrawn \ unwritten /\ unwritten' = unwritten \cup {token}
    BY <2>3 DEF RowsAgree
  <2> QED
    BY <2>1, <2>2, <2>3
<1>3. CollectedExpired'
  BY DEF CollectedExpired, AccessTypeOK, revokeHash
<1> QED
  BY <1>1, <1>2, <1>3 DEF SpentByHolder, SpentByToken, HeldCode, CodeBuysOneToken

\* A restart registers the configured clients again; codes and tokens stay in
\* the store.
LEMMA ReopenKeeps ==
  ASSUME AccessInv, NEW secret \in BOOLEAN, AgentReopens(secret)
  PROVE  AccessInv'
<1> USE DEF AccessInv, AgentReopens
<1>1. AccessTypeOK'
  BY DEF AccessTypeOK, Registered
<1>2. SpentByHolder' /\ SpentByToken'
  BY DEF SpentByHolder, SpentByToken, HeldCode, NoHandler, AccessTypeOK
<1> QED
  BY <1>1, <1>2 DEF CodeBuysOneToken, RowsAgree, CollectedExpired

\* The invariant says what the property does.
LEMMA GrantsFollow == AccessInv => TokensFollowGrants
<1>1. SUFFICES ASSUME AccessInv PROVE TokenHonouredExactly
  BY DEF AccessInv, TokensFollowGrants
<1>2. SUFFICES ASSUME NEW t \in DOMAIN minted, NEW resource \in AccessResources
               PROVE  Authorize(t, resource) <=>
                        /\ minted[t].row.resource = resource /\ (t \in withdrawn => t \in unwritten)
                        /\ authClock <= minted[t].row.expires
  BY DEF TokenHonouredExactly
<1>3. minted[t].row.expires \in Nat /\ authClock \in Nat
  BY <1>1, AccessAssumption DEF AccessInv, AccessTypeOK, TokenRows
<1>4. CASE t \in DOMAIN authTokens
  BY <1>1, <1>4 DEF AccessInv, RowsAgree, Authorize
<1>5. CASE t \notin DOMAIN authTokens
  BY <1>1, <1>3, <1>5 DEF AccessInv, CollectedExpired, Authorize
<1> QED
  BY <1>4, <1>5

\* For any number of clients, codes, tokens and concurrent token requests, a
\* code buys at most one token, and a token is honoured for its audience until
\* it expires or a revocation of it is written and no longer, through failed
\* writes (of a revocation too, which is answered all the same), prunes and
\* restarts (internal/authz: consumeCode, saveToken, handleRevoke, Authorize).
THEOREM TokensAreGranted == AccessSpec => []TokensFollowGrants
<1>1. ASSUME AccessInv, [AccessNext]_accessVars
      PROVE  AccessInv'
  <2>1. CASE AuthClockTicks
    <3>1. AccessTypeOK' /\ authClock' >= authClock
      BY <1>1, <2>1, AccessAssumption DEF AuthClockTicks, AccessInv, AccessTypeOK
    <3> QED
      BY <1>1, <2>1, <3>1, AccessFrame DEF AuthClockTicks
  <2>2. CASE UNCHANGED accessVars
    <3>1. AccessTypeOK' /\ authClock' >= authClock
      BY <1>1, <2>2, AccessAssumption DEF accessVars, AccessInv, AccessTypeOK
    <3> QED
      BY <1>1, <2>2, <3>1, AccessFrame DEF accessVars
  <2> QED
    BY <1>1, <2>1, <2>2, AuthorizeKeeps, ExchangeKeeps, CredentialsKeep, SaveKeeps, RevokeKeeps,
       ReopenKeeps DEF AccessNext
<1> QED
  BY <1>1, AccessInitial, GrantsFollow, PTL DEF AccessSpec

----------------------------------------------------------------------------
ActiveStates == {"lock", "holding", "unlocked"}
QueueStates == {"waiting", "woken"}
WakerStates == {"lock", "holding", "unlocked", "woken", "retry", "retryDecide"}

\* The requests of an agent, of some classes, that are in some states.
Among(a, classes, states) ==
  {r \in PermitRequests : Agent(r) = a /\ permitOf[r].class \in classes /\ permitPc[r] \in states}

HeavyActive(a) == Among(a, {"heavy"}, ActiveStates)
NormalActive(a) == Among(a, {"normal"}, ActiveStates)
HeavyQueue(a) == Among(a, {"heavy"}, QueueStates)
Queue(a) == Among(a, {"normal", "heavy"}, QueueStates)

\* The counters of an agent count its requests.
CountersCount ==
  \A a \in PermitAgents :
    /\ heavyActive[a] = Cardinality(HeavyActive(a))
    /\ normalActive[a] = Cardinality(NormalActive(a))
    /\ heavyQueued[a] = Cardinality(HeavyQueue(a))
    /\ queued[a] = Cardinality(Queue(a))

PermitInv == PermitTypeOK /\ CountersCount

Counted(n, was, is) == IF ~was /\ is THEN n + 1 ELSE IF was /\ ~is THEN n - 1 ELSE n

\* What the move of r does to the number of requests among which it may be.
MoveCounts(r, a, classes, states) ==
  LET n == Cardinality(Among(a, classes, states))
      mine == Agent(r) = a /\ permitOf[r].class \in classes IN
  /\ Cardinality(Among(a, classes, states))' =
       IF mine THEN Counted(n, permitPc[r] \in states, permitPc'[r] \in states) ELSE n
  /\ mine /\ permitPc[r] \in states => n > 0

\* A request that moves while the others stay inside or outside of the states
\* changes the number of requests in them by itself at most.
LEMMA OneRequestMoves ==
  ASSUME PermitTypeOK, UNCHANGED permitOf, NEW r \in PermitRequests, NEW states, NEW classes,
         \A q \in PermitRequests \ {r} : permitPc'[q] \in states <=> permitPc[q] \in states,
         NEW a
  PROVE  MoveCounts(r, a, classes, states)
<1> USE DEF MoveCounts, Counted
<1> DEFINE S == Among(a, classes, states)
           T == Among(a, classes, states)'
           mine == Agent(r) = a /\ permitOf[r].class \in classes
<1>1. IsFiniteSet(S)
  BY PermitAssumption, FS_Subset DEF Among
<1>2. Cardinality(S) \in Nat /\ (r \in S => Cardinality(S) > 0)
  BY <1>1, FS_CardinalityType, FS_EmptySet
<1>3. r \in S <=> mine /\ permitPc[r] \in states
  BY DEF Among
<1>4. CASE mine /\ permitPc[r] \notin states /\ permitPc'[r] \in states
  <2>1. T = S \cup {r} /\ r \notin S
    BY <1>4 DEF Among, Agent
  <2> QED
    BY <1>1, <1>2, <1>3, <1>4, <2>1, FS_AddElement
<1>5. CASE mine /\ permitPc[r] \in states /\ permitPc'[r] \notin states
  <2>1. T = S \ {r} /\ r \in S
    BY <1>5 DEF Among, Agent
  <2>2. Cardinality(T) = Cardinality(S) - 1
    <3> HIDE DEF S, T
    <3> QED
      BY <1>1, <2>1, FS_RemoveElement
  <2> QED
    BY <1>2, <1>3, <1>5, <2>2
<1>6. CASE ~mine \/ (permitPc[r] \in states <=> permitPc'[r] \in states)
  <2>1. T = S
    BY <1>6 DEF Among, Agent
  <2> QED
    BY <1>2, <1>3, <1>6, <2>1
<1> QED
  BY <1>4, <1>5, <1>6

\* Every request that is counted is there.
LEMMA CountedExists ==
  ASSUME PermitInv, NEW a \in PermitAgents
  PROVE  /\ heavyActive[a] > 0 => HeavyActive(a) # {}
         /\ normalActive[a] > 0 => NormalActive(a) # {}
         /\ heavyQueued[a] > 0 => HeavyQueue(a) # {}
<1>1. Cardinality({}) = 0
  BY FS_EmptySet
<1> QED
  BY <1>1 DEF PermitInv, CountersCount

\* heavyQueued never exceeds queued.
LEMMA HeavyAreQueued ==
  ASSUME PermitTypeOK, NEW a
  PROVE  /\ Cardinality(HeavyQueue(a)) \in Nat /\ Cardinality(Queue(a)) \in Nat
         /\ Cardinality(HeavyQueue(a)) <= Cardinality(Queue(a))
<1>1. IsFiniteSet(Queue(a)) /\ HeavyQueue(a) \subseteq Queue(a)
  BY PermitAssumption, FS_Subset DEF Among, Queue, HeavyQueue
<1> QED
  BY <1>1, FS_Subset, FS_CardinalityType

\* The rest of the waiters may be woken by the way, nothing else.
OthersStay(r) ==
  \A q \in PermitRequests \ {r} :
    permitPc'[q] = permitPc[q] \/ (permitPc[q] = "waiting" /\ permitPc'[q] = "woken")

\* A request that moves leaves the others where they are, or wakes a waiter.
LEMMA RequestGoes ==
  ASSUME PermitTypeOK, NEW r \in PermitRequests, NEW pc \in PermitStates,
         PermitGoes(r, pc) \/ Signals(r, pc)
  PROVE  /\ permitPc' \in [PermitRequests -> PermitStates]
         /\ permitPc'[r] = pc
         /\ OthersStay(r)
BY DEF PermitTypeOK, PermitGoes, Signals, signal, OthersStay, PermitStates

\* What the counters have to become when one request moves.
LEMMA CountsFollow ==
  ASSUME PermitInv, UNCHANGED permitOf, NEW r \in PermitRequests, OthersStay(r),
         NEW a \in PermitAgents
  PROVE  /\ Cardinality(HeavyActive(a))' =
              IF Agent(r) = a /\ Heavy(r)
              THEN Counted(heavyActive[a], permitPc[r] \in ActiveStates, permitPc'[r] \in ActiveStates)
              ELSE heavyActive[a]
         /\ Cardinality(NormalActive(a))' =
              IF Agent(r) = a /\ ~Heavy(r)
              THEN Counted(normalActive[a], permitPc[r] \in ActiveStates, permitPc'[r] \in ActiveStates)
              ELSE normalActive[a]
         /\ Cardinality(HeavyQueue(a))' =
              IF Agent(r) = a /\ Heavy(r)
              THEN Counted(heavyQueued[a], permitPc[r] \in QueueStates, permitPc'[r] \in QueueStates)
              ELSE heavyQueued[a]
         /\ Cardinality(Queue(a))' =
              IF Agent(r) = a
              THEN Counted(queued[a], permitPc[r] \in QueueStates, permitPc'[r] \in QueueStates)
              ELSE queued[a]
         /\ Agent(r) = a /\ permitPc[r] \in ActiveStates =>
              IF Heavy(r) THEN heavyActive[a] > 0 ELSE normalActive[a] > 0
         /\ Agent(r) = a /\ permitPc[r] \in QueueStates =>
              queued[a] > 0 /\ (Heavy(r) => heavyQueued[a] > 0)
<1>1. PermitTypeOK /\ permitOf[r].class \in {"normal", "heavy"}
  BY DEF PermitInv, PermitTypeOK
<1>2. \A q \in PermitRequests \ {r} :
        /\ permitPc'[q] \in ActiveStates <=> permitPc[q] \in ActiveStates
        /\ permitPc'[q] \in QueueStates <=> permitPc[q] \in QueueStates
  BY DEF OthersStay, ActiveStates, QueueStates
<1>3. /\ heavyActive[a] = Cardinality(HeavyActive(a))
      /\ normalActive[a] = Cardinality(NormalActive(a))
      /\ heavyQueued[a] = Cardinality(HeavyQueue(a))
      /\ queued[a] = Cardinality(Queue(a))
  BY DEF PermitInv, CountersCount
<1>4. ASSUME NEW classes, NEW states \in {ActiveStates, QueueStates}
      PROVE  MoveCounts(r, a, classes, states)
  <2>1. \A q \in PermitRequests \ {r} : permitPc'[q] \in states <=> permitPc[q] \in states
    BY <1>2
  <2> QED
    BY <1>1, <2>1, OneRequestMoves
<1>5. /\ Heavy(r) <=> permitOf[r].class \in {"heavy"}
      /\ ~Heavy(r) <=> permitOf[r].class \in {"normal"}
      /\ permitOf[r].class \in {"normal", "heavy"}
  BY <1>1 DEF Heavy
<1>6. /\ MoveCounts(r, a, {"heavy"}, ActiveStates)
      /\ MoveCounts(r, a, {"normal"}, ActiveStates)
      /\ MoveCounts(r, a, {"heavy"}, QueueStates)
      /\ MoveCounts(r, a, {"normal", "heavy"}, QueueStates)
  BY <1>4
<1> QED
  BY <1>3, <1>5, <1>6 DEF MoveCounts, HeavyActive, NormalActive, HeavyQueue, Queue

\* Every step of AcquireClass and of the functions it returns keeps the
\* counters exact and within the limits of the policy.
LEMMA PermitInduction ==
  ASSUME PermitInv, [PermitNext]_permitVars
  PROVE  PermitInv'
<1> USE DEF PermitInv
<1>1. CASE UNCHANGED permitVars
  <2>1. \A a : Among(a, {"heavy"}, ActiveStates)' = Among(a, {"heavy"}, ActiveStates)
               /\ Among(a, {"normal"}, ActiveStates)' = Among(a, {"normal"}, ActiveStates)
               /\ Among(a, {"heavy"}, QueueStates)' = Among(a, {"heavy"}, QueueStates)
               /\ Among(a, {"normal", "heavy"}, QueueStates)' = Among(a, {"normal", "heavy"}, QueueStates)
    BY <1>1 DEF permitVars, Among, Agent
  <2>2. CountersCount'
    BY <1>1, <2>1 DEF permitVars, CountersCount, HeavyActive, NormalActive, HeavyQueue, Queue
  <2> QED
    BY <1>1, <2>2 DEF permitVars, PermitTypeOK
<1>2. ASSUME NEW r \in PermitRequests, NEW pc \in PermitStates,
             PermitGoes(r, pc) \/ Signals(r, pc), UNCHANGED permitOf,
             permitCounters' = permitCounters,
             permitPc[r] \in ActiveStates <=> pc \in ActiveStates,
             permitPc[r] \in QueueStates <=> pc \in QueueStates,
             pressureRefused' \in BOOLEAN
      PROVE  PermitInv'
  <2>1. permitPc' \in [PermitRequests -> PermitStates] /\ permitPc'[r] = pc /\ OthersStay(r)
    BY <1>2, RequestGoes
  <2>2. CountersCount'
    BY <1>2, <2>1, CountsFollow DEF CountersCount, Counted, permitCounters
  <2> QED
    BY <1>2, <2>1, <2>2 DEF PermitTypeOK, permitCounters
<1>3. ASSUME NEW r \in PermitRequests, AcquireClass(r) \/ pressure(r)
      PROVE  PermitInv'
  BY <1>2, <1>3 DEF AcquireClass, pressure, PermitStates, ActiveStates, QueueStates, PermitTypeOK
<1>4. ASSUME NEW r \in PermitRequests, Decides(r)
      PROVE  PermitInv'
  <2> DEFINE a == Agent(r)
  <2>0. a \in PermitAgents
    BY DEF PermitTypeOK, Agent
  <2>1. CASE canReserve(r) /\ reserve(r) /\ PermitGoes(r, "lock") /\ UNCHANGED <<queued, heavyQueued>>
    <3>1. permitPc' \in [PermitRequests -> PermitStates] /\ permitPc'[r] = "lock" /\ OthersStay(r)
      BY <2>1, RequestGoes DEF PermitStates
    <3>2. CountersCount'
      BY <1>4, <2>1, <3>1, CountsFollow DEF CountersCount, Counted, Decides, reserve, PermitTypeOK,
         ActiveStates, QueueStates
    <3> QED
      BY <1>4, <2>0, <2>1, <3>1, <3>2, PermitAssumption DEF PermitTypeOK, Decides, canReserve, reserve
  <2>2. CASE PermitGoes(r, "idle") /\ UNCHANGED permitCounters
    BY <1>2, <1>4, <2>2 DEF Decides, PermitStates, ActiveStates, QueueStates, PermitTypeOK
  <2>3. CASE /\ queued[a] < MaxQueued
             /\ queued' = [queued EXCEPT ![a] = @ + 1]
             /\ heavyQueued' = [heavyQueued EXCEPT ![a] = IF Heavy(r) THEN @ + 1 ELSE @]
             /\ PermitGoes(r, "waiting") /\ UNCHANGED <<normalActive, heavyActive>>
    <3>1. permitPc' \in [PermitRequests -> PermitStates] /\ permitPc'[r] = "waiting" /\ OthersStay(r)
      BY <2>3, RequestGoes DEF PermitStates
    <3>2. CountersCount'
      BY <1>4, <2>3, <3>1, CountsFollow DEF CountersCount, Counted, Decides, PermitTypeOK,
         ActiveStates, QueueStates
    <3>3. heavyQueued[a] <= queued[a]
      BY <2>0, HeavyAreQueued DEF CountersCount
    <3> QED
      BY <1>4, <2>0, <2>3, <3>1, <3>2, <3>3, PermitAssumption DEF PermitTypeOK, Decides
  <2> QED
    BY <1>4, <2>1, <2>2, <2>3 DEF Decides
<1>5. ASSUME NEW r \in PermitRequests, release(r), permitPc[r] \in ActiveStates,
             UNCHANGED <<permitOf, queued, heavyQueued, pressureRefused>>
      PROVE  PermitInv'
  <2>0. Agent(r) \in PermitAgents
    BY DEF PermitTypeOK, Agent
  <2>1. permitPc' \in [PermitRequests -> PermitStates] /\ permitPc'[r] = "idle" /\ OthersStay(r)
    BY <1>5, RequestGoes DEF PermitStates, release
  <2>2. IF Heavy(r) THEN heavyActive[Agent(r)] > 0 ELSE normalActive[Agent(r)] > 0
    BY <1>5, <2>0, <2>1, CountsFollow
  <2>3. CountersCount'
    BY <1>5, <2>1, CountsFollow DEF CountersCount, Counted, release, PermitTypeOK,
       ActiveStates, QueueStates
  <2> QED
    BY <1>5, <2>0, <2>1, <2>2, <2>3, PermitAssumption DEF PermitTypeOK, release
<1>6. ASSUME NEW r \in PermitRequests, TakesHostLock(r)
      PROVE  PermitInv'
  <2>1. CASE PermitGoes(r, "holding") /\ UNCHANGED permitCounters
    BY <1>2, <1>6, <2>1 DEF TakesHostLock, PermitStates, ActiveStates, QueueStates, PermitTypeOK
  <2>2. CASE release(r) /\ UNCHANGED <<queued, heavyQueued>>
    BY <1>5, <1>6, <2>2 DEF TakesHostLock, ActiveStates
  <2> QED
    BY <1>6, <2>1, <2>2 DEF TakesHostLock
<1>7. ASSUME NEW r \in PermitRequests, NEW pc \in {"retry", "idle"}, dequeue(r),
             PermitGoes(r, pc) \/ Signals(r, pc), permitPc[r] \in QueueStates,
             UNCHANGED <<permitOf, normalActive, heavyActive, pressureRefused>>
      PROVE  PermitInv'
  <2>0. Agent(r) \in PermitAgents
    BY DEF PermitTypeOK, Agent
  <2>1. permitPc' \in [PermitRequests -> PermitStates] /\ permitPc'[r] = pc /\ OthersStay(r)
    BY <1>7, RequestGoes DEF PermitStates
  <2>2. queued[Agent(r)] > 0 /\ (Heavy(r) => heavyQueued[Agent(r)] > 0)
    BY <1>7, <2>0, <2>1, CountsFollow
  <2>3. CountersCount'
    BY <1>7, <2>1, <2>2, CountsFollow DEF CountersCount, Counted, dequeue, Less, PermitTypeOK,
       ActiveStates, QueueStates
  <2> QED
    BY <1>7, <2>0, <2>1, <2>2, <2>3, PermitAssumption DEF PermitTypeOK, dequeue, Less
<1>8. ASSUME NEW r \in PermitRequests, UnlocksHost(r)
      PROVE  PermitInv'
  BY <1>2, <1>8 DEF UnlocksHost, PermitStates, ActiveStates, QueueStates, PermitTypeOK
<1>9. ASSUME NEW r \in PermitRequests, Releases(r)
      PROVE  PermitInv'
  BY <1>5, <1>9 DEF Releases, ActiveStates
<1>10. ASSUME NEW r \in PermitRequests, Wakes(r) \/ WaitCancelled(r)
       PROVE  PermitInv'
  BY <1>7, <1>10 DEF Wakes, WaitCancelled, QueueStates
<1> QED
  BY <1>1, <1>3, <1>4, <1>6, <1>8, <1>9, <1>10 DEF PermitNext

----------------------------------------------------------------------------
\* A heavy request waits only while an operation of its agent is active: the
\* release of that operation will wake it.
HeavyWaitsOnActive ==
  \A r \in PermitRequests : permitPc[r] = "waiting" /\ Heavy(r) =>
    \E q \in PermitRequests : Agent(q) = Agent(r) /\ permitPc[q] \in ActiveStates

Waker(q, r) == Agent(q) = Agent(r) /\ permitPc[q] \in WakerStates

WaitersHaveWakers ==
  ~pressureRefused =>
    \A r \in PermitRequests : permitPc[r] = "waiting" => \E q \in PermitRequests : Waker(q, r)

WakeInv == HeavyIsAlone /\ HeavyWaitsOnActive /\ WaitersHaveWakers

\* A request that may not reserve has somebody else to wait for.
LEMMA BlockedHasWaker ==
  ASSUME PermitInv, WakeInv, NEW r \in PermitRequests, ~canReserve(r)
  PROVE  /\ Heavy(r) => \E q \in PermitRequests : Agent(q) = Agent(r) /\ permitPc[q] \in ActiveStates
         /\ \E q \in PermitRequests :
              Agent(q) = Agent(r) /\ permitPc[q] \in ActiveStates \cup {"woken"}
<1> DEFINE a == Agent(r)
<1>1. /\ a \in PermitAgents
      /\ heavyActive[a] \in Nat /\ normalActive[a] \in Nat /\ heavyQueued[a] \in Nat
  BY PermitAssumption DEF PermitInv, PermitTypeOK, Agent
<1>2. \/ heavyActive[a] > 0 \/ normalActive[a] > 0
      \/ ~Heavy(r) /\ heavyQueued[a] > 0
  BY <1>1, PermitAssumption DEF canReserve
<1>3. CASE heavyActive[a] > 0 \/ normalActive[a] > 0
  <2>1. \E q \in PermitRequests : Agent(q) = a /\ permitPc[q] \in ActiveStates
    BY <1>1, <1>3, CountedExists DEF HeavyActive, NormalActive, Among
  <2> QED
    BY <2>1
<1>4. CASE ~Heavy(r) /\ heavyQueued[a] > 0
  <2>1. PICK q \in PermitRequests : Agent(q) = a /\ Heavy(q) /\ permitPc[q] \in QueueStates
    BY <1>1, <1>4, CountedExists DEF HeavyQueue, Among, Heavy
  <2>2. CASE permitPc[q] = "waiting"
    BY <1>4, <2>1, <2>2 DEF WakeInv, HeavyWaitsOnActive
  <2>3. CASE permitPc[q] = "woken"
    BY <1>4, <2>1, <2>3
  <2> QED
    BY <2>1, <2>2, <2>3 DEF QueueStates
<1> QED
  BY <1>2, <1>3, <1>4

\* A request that goes on without a signal, and stays a waker if it was one.
LEMMA GoesKeepsWakers ==
  ASSUME PermitTypeOK, WakeInv, NEW r \in PermitRequests, NEW pc \in PermitStates \ {"waiting"},
         PermitGoes(r, pc), UNCHANGED permitOf,
         pc = "holding" => permitPc[r] = "lock" /\ acquire(r),
         permitPc[r] \in ActiveStates => pc \in ActiveStates,
         permitPc[r] \in WakerStates => pc \in WakerStates \/ pressureRefused',
         pressureRefused => pressureRefused'
  PROVE  WakeInv'
<1> USE DEF WakeInv, PermitGoes, Agent, Heavy
<1>1. HeavyIsAlone'
  BY DEF HeavyIsAlone, PermitTypeOK, acquire
<1>2. HeavyWaitsOnActive'
  BY DEF HeavyWaitsOnActive, PermitTypeOK
<1>3. WaitersHaveWakers'
  BY DEF WaitersHaveWakers, Waker, PermitTypeOK
<1> QED
  BY <1>1, <1>2, <1>3

\* A signal leaves no waiter of the agent behind.
LEMMA SignalKeepsWakers ==
  ASSUME PermitTypeOK, WakeInv, NEW r \in PermitRequests, Signals(r, "idle"),
         UNCHANGED <<permitOf, pressureRefused>>
  PROVE  WakeInv'
<1> USE DEF WakeInv, Agent, Heavy
<1>1. \A q \in PermitRequests :
        permitPc'[q] = IF q = r THEN "idle"
                       ELSE IF Agent(q) = Agent(r) /\ permitPc[q] = "waiting" THEN "woken"
                       ELSE permitPc[q]
  BY DEF Signals, signal
<1>2. HeavyIsAlone'
  BY <1>1 DEF HeavyIsAlone
<1>3. \A q \in PermitRequests : permitPc'[q] = "waiting" =>
        permitPc[q] = "waiting" /\ Agent(q) # Agent(r)
  BY <1>1
<1>4. \A q \in PermitRequests : Agent(q) # Agent(r) => permitPc'[q] = permitPc[q]
  BY <1>1
<1>5. HeavyWaitsOnActive'
  BY <1>3, <1>4 DEF HeavyWaitsOnActive
<1>6. WaitersHaveWakers'
  BY <1>3, <1>4 DEF WaitersHaveWakers, Waker
<1> QED
  BY <1>2, <1>5, <1>6

\* A request queues, or is refused because the queue is full, only when there
\* is somebody left to wake the others and itself.
LEMMA BlockedKeepsWakers ==
  ASSUME PermitInv, WakeInv, NEW r \in PermitRequests, ~canReserve(r),
         permitPc[r] \in {"decide", "retryDecide"}, NEW pc \in {"idle", "waiting"},
         PermitGoes(r, pc), UNCHANGED <<permitOf, pressureRefused>>
  PROVE  WakeInv'
<1> USE DEF WakeInv, PermitGoes, Agent, Heavy
<1>1. PICK w \in PermitRequests :
        Agent(w) = Agent(r) /\ permitPc[w] \in ActiveStates \cup {"woken"}
  BY BlockedHasWaker
<1>2. permitPc'[w] = permitPc[w] /\ permitPc[w] \in WakerStates
  BY <1>1 DEF PermitInv, PermitTypeOK, ActiveStates, WakerStates
<1>3. HeavyIsAlone'
  BY DEF HeavyIsAlone, PermitInv, PermitTypeOK
<1>4. HeavyWaitsOnActive'
  <2>1. SUFFICES ASSUME NEW h \in PermitRequests, permitPc'[h] = "waiting", Heavy(h)
                 PROVE  \E q \in PermitRequests : Agent(q) = Agent(h) /\ permitPc'[q] \in ActiveStates
    BY DEF HeavyWaitsOnActive
  <2>2. \E q \in PermitRequests : Agent(q) = Agent(h) /\ permitPc[q] \in ActiveStates
    BY <2>1, BlockedHasWaker DEF HeavyWaitsOnActive, PermitInv, PermitTypeOK
  <2> QED
    BY <2>2 DEF PermitInv, PermitTypeOK, ActiveStates
<1>5. WaitersHaveWakers'
  BY <1>1, <1>2 DEF WaitersHaveWakers, Waker, PermitInv, PermitTypeOK
<1> QED
  BY <1>3, <1>4, <1>5

\* Every step of AcquireClass and release leaves each waiter somebody who will
\* wake it.
LEMMA WakeInduction ==
  ASSUME PermitInv, WakeInv, [PermitNext]_permitVars
  PROVE  WakeInv'
<1>0. PermitTypeOK
  BY DEF PermitInv
<1> USE DEF PermitStates, ActiveStates, WakerStates
<1>1. CASE UNCHANGED permitVars
  BY <1>1 DEF permitVars, WakeInv, HeavyIsAlone, HeavyWaitsOnActive, WaitersHaveWakers, Waker,
     Agent, Heavy
<1>2. ASSUME NEW r \in PermitRequests, AcquireClass(r)
      PROVE  WakeInv'
  BY <1>0, <1>2, GoesKeepsWakers DEF AcquireClass
<1>3. ASSUME NEW r \in PermitRequests, pressure(r)
      PROVE  WakeInv'
  <2>1. CASE PermitGoes(r, IF permitPc[r] = "retry" THEN "retryDecide" ELSE "decide")
             /\ UNCHANGED pressureRefused
    BY <1>0, <1>3, <2>1, GoesKeepsWakers DEF pressure
  <2>2. CASE PermitGoes(r, "idle") /\ pressureRefused' = (pressureRefused \/ permitPc[r] = "retry")
    <3>1. /\ pressureRefused => pressureRefused'
          /\ permitPc[r] \in WakerStates => pressureRefused'
          /\ permitPc[r] \notin ActiveStates
      BY <1>3, <2>2 DEF pressure
    <3> QED
      BY <1>0, <1>3, <2>2, <3>1, GoesKeepsWakers DEF pressure
  <2> QED
    BY <1>3, <2>1, <2>2 DEF pressure
<1>4. ASSUME NEW r \in PermitRequests, Decides(r)
      PROVE  WakeInv'
  <2>1. CASE canReserve(r) /\ reserve(r) /\ PermitGoes(r, "lock")
    BY <1>0, <1>4, <2>1, GoesKeepsWakers DEF Decides
  <2>2. CASE ~canReserve(r)
    BY <1>4, <2>2, BlockedKeepsWakers DEF Decides
  <2> QED
    BY <1>4, <2>1, <2>2 DEF Decides
<1>5. ASSUME NEW r \in PermitRequests, TakesHostLock(r)
      PROVE  WakeInv'
  <2>1. CASE acquire(r) /\ PermitGoes(r, "holding")
    BY <1>0, <1>5, <2>1, GoesKeepsWakers DEF TakesHostLock
  <2>2. CASE release(r)
    BY <1>0, <1>5, <2>2, SignalKeepsWakers DEF TakesHostLock, release
  <2> QED
    BY <1>5, <2>1, <2>2 DEF TakesHostLock
<1>6. ASSUME NEW r \in PermitRequests, UnlocksHost(r)
      PROVE  WakeInv'
  BY <1>0, <1>6, GoesKeepsWakers DEF UnlocksHost
<1>7. ASSUME NEW r \in PermitRequests, Releases(r)
      PROVE  WakeInv'
  BY <1>0, <1>7, SignalKeepsWakers DEF Releases, release
<1>8. ASSUME NEW r \in PermitRequests, Wakes(r)
      PROVE  WakeInv'
  BY <1>0, <1>8, GoesKeepsWakers DEF Wakes
<1>9. ASSUME NEW r \in PermitRequests, WaitCancelled(r)
      PROVE  WakeInv'
  BY <1>0, <1>9, SignalKeepsWakers DEF WaitCancelled
<1> QED
  BY <1>1, <1>2, <1>3, <1>4, <1>5, <1>6, <1>7, <1>8, <1>9 DEF PermitNext

\* At first nobody is admitted, queued or waiting.
LEMMA PermitInitial == PermitInit => PermitInv /\ WakeInv
<1>1. SUFFICES ASSUME PermitInit PROVE PermitInv /\ WakeInv
  OBVIOUS
<1>2. PermitTypeOK
  <2>1. 0 \in 0..MaxNormal /\ 0 \in 0..MaxHeavy /\ 0 \in 0..MaxQueued
    BY PermitAssumption
  <2> QED
    BY <1>1, <2>1 DEF PermitInit, PermitTypeOK, PermitStates
<1>3. \A a, classes : /\ Among(a, classes, ActiveStates) = {}
                      /\ Among(a, classes, QueueStates) = {}
  BY <1>1 DEF PermitInit, Among, ActiveStates, QueueStates
<1>4. CountersCount
  BY <1>1, <1>3, FS_EmptySet DEF PermitInit, CountersCount, HeavyActive, NormalActive, HeavyQueue, Queue
<1> QED
  BY <1>1, <1>2, <1>4 DEF PermitInit, PermitInv, WakeInv, HeavyIsAlone, HeavyWaitsOnActive,
     WaitersHaveWakers

\* The counters an admission is decided by are the operations and the waiters
\* there are, and stay within the policy's limits, for any agents, requests
\* and limits: no path out of AcquireClass forgets one or counts it twice.
THEOREM PermitsAreCounted == PermitSpec => [](PermitTypeOK /\ CountersCount)
BY PermitInitial, PermitInduction, PTL DEF PermitSpec, PermitInv

\* A heavy operation is alone on its host, and a request that waits has an
\* operation or another request of its agent that will still wake it, for any
\* number of agents and requests (AcquireClass, release, signal, flock).
THEOREM PermitsAreConsistent == PermitSpec => []PermitsConsistent
<1>1. WakeInv => PermitsConsistent
  BY DEF WakeInv, PermitsConsistent, WaitersHaveWakers, WaiterHasWaker, Waker, WakerStates
<1> QED
  BY <1>1, PermitInitial, PermitInduction, WakeInduction, PTL DEF PermitSpec

----------------------------------------------------------------------------
\* What a publisher works with.
PublisherRows ==
  [pc : {"idle", "replace", "snapshot", "catalog", "refresh", "remove", "register", "ensure",
         "add", "name"},
   op : CatalogOps \cup {NoTool}, gen : CatalogGens \cup {0}, displaced : SUBSET CatalogOps,
   snap : [CatalogOps -> {0} \cup CatalogGens], names : SUBSET CatalogOps, todo : SUBSET CatalogOps]

\* A publisher has an operation, and a generation of it, when it uses them.
PublisherKnows ==
  \A p \in Publishers :
    /\ pub[p].pc \in {"replace", "snapshot", "catalog", "add", "name"} => pub[p].op \in CatalogOps
    /\ pub[p].pc \in {"replace", "snapshot", "catalog"} => pub[p].gen \in CatalogGens

\* A tool that is listed is in the table of names, or with a publisher that is
\* about to remove it or to put it there.
ListedIsKnown ==
  \A o \in listed :
    \/ o \in toolNames
    \/ \E p \in Publishers : \/ PubAt(p, "remove") /\ o \in pub[p].names
                             \/ PubAt(p, "name") /\ o = pub[p].op

SurfaceTypeOK ==
  /\ overlays \in [CatalogOps -> {0} \cup CatalogGens] /\ catalog \in [CatalogOps -> {0} \cup CatalogGens]
  /\ capabilities \in [CatalogOps -> {0, Legacy} \cup CatalogGens]
  /\ listed \subseteq CatalogOps /\ toolNames \subseteq CatalogOps
  /\ pub \in [Publishers -> PublisherRows]

SurfaceInv == SurfaceTypeOK /\ PublisherKnows /\ ListedIsKnown

\* The steps of a publisher, one after the other.
LEMMA PublishKeeps ==
  ASSUME SurfaceInv, NEW p \in Publishers, Publish(p)
  PROVE  SurfaceInv'
<1> USE DEF SurfaceInv, PubAt, PubGoes
<1>0. pub[p] \in PublisherRows
  BY DEF SurfaceTypeOK
<1>1. ASSUME NEW op \in CatalogOps, retireProviderCapabilities(p, op)
      PROVE  SurfaceInv'
  <2>1. SurfaceTypeOK'
    BY <1>1 DEF retireProviderCapabilities, SurfaceTypeOK, PublisherRows, IdlePublisher, Empty
  <2>2. PublisherKnows'
    BY <1>1 DEF retireProviderCapabilities, SurfaceTypeOK, PublisherKnows, IdlePublisher
  <2>3. ListedIsKnown'
    BY <1>1 DEF retireProviderCapabilities, SurfaceTypeOK, ListedIsKnown, IdlePublisher
  <2> QED
    BY <2>1, <2>2, <2>3
<1>2. ASSUME NEW op \in CatalogOps, NEW gen \in CatalogGens, RegisterBegins(p, op, gen)
      PROVE  SurfaceInv'
  <2>1. SurfaceTypeOK'
    BY <1>2, DispatchAssumption DEF RegisterBegins, Rivals, SurfaceTypeOK, PublisherRows,
       IdlePublisher, Empty
  <2>2. PublisherKnows'
    BY <1>2 DEF RegisterBegins, SurfaceTypeOK, PublisherKnows, IdlePublisher
  <2>3. ListedIsKnown'
    BY <1>2 DEF RegisterBegins, SurfaceTypeOK, ListedIsKnown, IdlePublisher
  <2> QED
    BY <2>1, <2>2, <2>3
<1>3. CASE ReplacesOverlay(p)
  <2>1. SurfaceTypeOK'
    BY <1>0, <1>3 DEF ReplacesOverlay, SurfaceTypeOK, PublisherKnows, PublisherRows, IdlePublisher, Empty
  <2>2. PublisherKnows'
    BY <1>0, <1>3 DEF ReplacesOverlay, SurfaceTypeOK, PublisherKnows, PublisherRows, IdlePublisher
  <2>3. ListedIsKnown'
    <3>1. \A q \in Publishers : q # p => pub'[q] = pub[q]
      BY <1>3 DEF ReplacesOverlay, SurfaceTypeOK
    <3> QED
      BY <1>3, <3>1 DEF ReplacesOverlay, ListedIsKnown
  <2> QED
    BY <2>1, <2>2, <2>3
<1>4. CASE SnapshotsRegistry(p)
  <2>1. SurfaceTypeOK'
    BY <1>0, <1>4 DEF SnapshotsRegistry, surfaceVars, SurfaceTypeOK, PublisherRows
  <2>2. PublisherKnows'
    BY <1>0, <1>4 DEF SnapshotsRegistry, SurfaceTypeOK, PublisherKnows, PublisherRows
  <2>3. ListedIsKnown'
    BY <1>0, <1>4 DEF SnapshotsRegistry, surfaceVars, SurfaceTypeOK, ListedIsKnown, PublisherRows
  <2> QED
    BY <2>1, <2>2, <2>3
<1>5. CASE SetsCatalog(p)
  <2>1. SurfaceTypeOK'
    BY <1>0, <1>5 DEF SetsCatalog, SurfaceTypeOK, PublisherKnows, PublisherRows
  <2>2. PublisherKnows'
    BY <1>0, <1>5 DEF SetsCatalog, SurfaceTypeOK, PublisherKnows, PublisherRows
  <2>3. ListedIsKnown'
    BY <1>0, <1>5 DEF SetsCatalog, SurfaceTypeOK, ListedIsKnown, PublisherRows
  <2> QED
    BY <2>1, <2>2, <2>3
<1>6. CASE Refreshes(p)
  <2>1. SurfaceTypeOK'
    BY <1>0, <1>6 DEF Refreshes, RefreshBegins, SurfaceTypeOK, PublisherRows
  <2>2. PublisherKnows'
    BY <1>0, <1>6 DEF Refreshes, RefreshBegins, SurfaceTypeOK, PublisherKnows, PublisherRows
  <2>3. ListedIsKnown'
    BY <1>0, <1>6 DEF Refreshes, RefreshBegins, SurfaceTypeOK, ListedIsKnown, PublisherRows
  <2> QED
    BY <2>1, <2>2, <2>3
<1>7. CASE RemovesTools(p)
  <2>1. SurfaceTypeOK'
    BY <1>0, <1>7 DEF RemovesTools, SurfaceTypeOK, PublisherRows
  <2>2. PublisherKnows'
    BY <1>0, <1>7 DEF RemovesTools, SurfaceTypeOK, PublisherKnows, PublisherRows
  <2>3. ListedIsKnown'
    BY <1>0, <1>7 DEF RemovesTools, SurfaceTypeOK, ListedIsKnown, PublisherRows
  <2> QED
    BY <2>1, <2>2, <2>3
<1>8. CASE registerTools(p)
  <2>1. SurfaceTypeOK'
    BY <1>0, <1>8 DEF registerTools, surfaceVars, SurfaceTypeOK, PublisherRows
  <2>2. PublisherKnows'
    BY <1>0, <1>8 DEF registerTools, SurfaceTypeOK, PublisherKnows, PublisherRows
  <2>3. ListedIsKnown'
    BY <1>0, <1>8 DEF registerTools, surfaceVars, SurfaceTypeOK, ListedIsKnown, PublisherRows
  <2> QED
    BY <2>1, <2>2, <2>3
<1>11. CASE RefreshEnds(p)
  <2>1. SurfaceTypeOK'
    BY <1>0, <1>11 DEF RefreshEnds, surfaceVars, SurfaceTypeOK, PublisherRows, IdlePublisher, Empty
  <2>2. PublisherKnows'
    BY <1>0, <1>11 DEF RefreshEnds, SurfaceTypeOK, PublisherKnows, PublisherRows, IdlePublisher
  <2>3. ListedIsKnown'
    BY <1>0, <1>11 DEF RefreshEnds, surfaceVars, SurfaceTypeOK, ListedIsKnown, IdlePublisher
  <2> QED
    BY <2>1, <2>2, <2>3
<1>9. CASE EnsuresCapability(p)
  <2>1. SurfaceTypeOK'
    <3>1. PICK o \in pub[p].todo :
            /\ capabilities' = [capabilities EXCEPT ![o] = IF @ = 0 THEN Legacy ELSE @]
            /\ pub' = [pub EXCEPT ![p].pc = "add", ![p].op = o]
      BY <1>9 DEF EnsuresCapability
    <3>2. o \in CatalogOps
      BY <1>0, <3>1 DEF PublisherRows
    <3> QED
      BY <1>0, <1>9, <3>1, <3>2 DEF EnsuresCapability, SurfaceTypeOK, PublisherRows
  <2>2. PublisherKnows'
    BY <1>0, <1>9 DEF EnsuresCapability, SurfaceTypeOK, PublisherKnows, PublisherRows
  <2>3. ListedIsKnown'
    BY <1>0, <1>9 DEF EnsuresCapability, SurfaceTypeOK, ListedIsKnown, PublisherRows
  <2> QED
    BY <2>1, <2>2, <2>3
<1>10. CASE AddsTool(p) \/ NamesTool(p)
  <2>1. SurfaceTypeOK'
    <3>1. pub[p].op \in CatalogOps
      BY <1>10 DEF AddsTool, NamesTool, PublisherKnows
    <3>2. CASE AddsTool(p)
      BY <1>0, <3>1, <3>2 DEF AddsTool, SurfaceTypeOK, PublisherRows
    <3>3. CASE NamesTool(p)
      BY <1>0, <3>1, <3>3 DEF NamesTool, SurfaceTypeOK, PublisherRows
    <3> QED
      BY <1>10, <3>2, <3>3
  <2>2. PublisherKnows'
    BY <1>0, <1>10 DEF AddsTool, NamesTool, SurfaceTypeOK, PublisherKnows, PublisherRows
  <2>3. ListedIsKnown'
    BY <1>0, <1>10 DEF AddsTool, NamesTool, SurfaceTypeOK, ListedIsKnown, PublisherRows
  <2> QED
    BY <2>1, <2>2, <2>3
<1> QED
  BY <1>1, <1>2, <1>3, <1>4, <1>5, <1>6, <1>7, <1>8, <1>9, <1>10, <1>11 DEF Publish

\* Calls and callbacks leave the surface alone.
LEMMA SurfaceInduction ==
  ASSUME SurfaceInv, [DispatchNext]_dispatchVars
  PROVE  SurfaceInv'
<1>1. CASE UNCHANGED <<surfaceVars, pub>>
  BY <1>1 DEF SurfaceInv, SurfaceTypeOK, PublisherKnows, ListedIsKnown, PubAt, surfaceVars
<1>2. ASSUME NEW c \in DispatchCalls, Dispatch(c)
      PROVE  UNCHANGED <<surfaceVars, pub>>
  BY <1>2 DEF Dispatch, handleToolCall, admitInvocation, dispatchRegisteredOrBuiltIn,
     withProviderResourceDelegation, OpensSession, ProviderAnswers, EndsDelegation, ReleasesCall,
     FinishesTask, CancelsTask, ReservationLapses
<1>3. ASSUME NEW b \in Callbacks, CallBack(b)
      PROVE  UNCHANGED <<surfaceVars, pub>>
  BY <1>3 DEF CallBack, CallsBack, verifyResourceDelegation, contextForProviderCallback,
     providerCallbackTaskOwnerFromContext, InheritsReservation, CallbackEnds, backKeeps
<1> QED
  BY <1>1, <1>2, <1>3, PublishKeeps DEF DispatchNext, dispatchVars

\* What calls hold is never negative: the cost of the invocation is checked
\* after it was converted.
CostInv == heldCost \in [DispatchCalls -> Int] /\ HeldCostCounts

\* No dispatch step makes a held cost negative.
LEMMA CostInduction ==
  ASSUME CostInv, [DispatchNext]_dispatchVars
  PROVE  CostInv'
<1> USE DEF CostInv, HeldCostCounts
<1>1. CASE UNCHANGED heldCost
  BY <1>1
<1>2. ASSUME NEW c \in DispatchCalls, admitInvocation(c)
      PROVE  CostInv'
  <2>1. \A argument \in Arguments : ResolveArgumentCost(argument) \in Int
    BY DispatchAssumption DEF Arguments, ResolveArgumentCost, StaticCost, int64
  <2> QED
    BY <1>1, <1>2, <2>1 DEF admitInvocation, validateAdmissionRequest
<1>3. ASSUME NEW c \in DispatchCalls, Dispatch(c)
      PROVE  CostInv'
  <2>1. ASSUME heldCost' = [heldCost EXCEPT ![c] = 0]
        PROVE  CostInv'
    BY <2>1
  <2> QED
    BY <1>1, <1>2, <1>3, <2>1 DEF Dispatch, handleToolCall, dispatchRegisteredOrBuiltIn,
       withProviderResourceDelegation, OpensSession, ProviderAnswers, EndsDelegation, ReleasesCall,
       FinishesTask, CancelsTask, ReservationLapses
<1>4. ASSUME NEW b \in Callbacks, CallBack(b)
      PROVE  UNCHANGED heldCost
  BY <1>4 DEF CallBack, CallsBack, verifyResourceDelegation, contextForProviderCallback,
     providerCallbackTaskOwnerFromContext, InheritsReservation, CallbackEnds, backKeeps
<1>5. ASSUME NEW p \in Publishers, Publish(p)
      PROVE  UNCHANGED heldCost
  BY <1>5 DEF Publish, retireProviderCapabilities, RegisterBegins, ReplacesOverlay, SnapshotsRegistry,
     SetsCatalog, Refreshes, RemovesTools, registerTools, EnsuresCapability, AddsTool, NamesTool,
     RefreshEnds, callVars
<1> QED
  BY <1>1, <1>3, <1>4, <1>5 DEF DispatchNext, dispatchVars

\* The tools the MCP server lists are in the table of names whenever no run is
\* publishing, for any publishers and operations, however their refreshes
\* interleave, and no call holds a negative quantity (refreshMCPTools,
\* addRegisteredCapability, ResolveArgumentCost).
THEOREM DispatchIsConsistent == DispatchSpec => []DispatchConsistent
<1>1. DispatchInit => SurfaceInv /\ CostInv
  BY DEF DispatchInit, SurfaceInv, SurfaceTypeOK, PublisherKnows, ListedIsKnown, CostInv,
     HeldCostCounts, PublisherRows, IdlePublisher, Empty
<1>2. SurfaceInv /\ CostInv => DispatchConsistent
  BY DEF SurfaceInv, SurfaceTypeOK, ListedIsKnown, CostInv, DispatchConsistent, ListedIsTracked, PubAt
<1> QED
  BY <1>1, <1>2, SurfaceInduction, CostInduction, PTL DEF DispatchSpec

----------------------------------------------------------------------------
CallbackStates == {"idle", "verify", "working", "owner", "admit", "running", "over"}
CallStates == {"idle", "admit", "lookup", "delegate", "finish", "over"} \cup Served

CallRows == [pc : CallStates, op : CatalogOps \cup {NoTool}, token : BOOLEAN]

CallbackTyped ==
  /\ callback \in [Callbacks -> [pc : CallbackStates, call : DispatchCalls \cup {NoTool}, async : BOOLEAN]]
  /\ dcall \in [DispatchCalls -> CallRows]
  /\ heldCost \in [DispatchCalls -> Int]

\* A call holds a reservation between its admission and its release.
HeldInCall == \A c \in DispatchCalls : heldCost[c] # 0 => dcall[c].pc \in {"lookup", "delegate"} \cup Served

\* A call has its token from its delegation on.
TokenSinceDelegation ==
  \A c \in DispatchCalls : dcall[c].token => dcall[c].pc \in {"finish", "over"} \cup Served

\* A callback belongs to a call that has a token.
CallbackHasCall ==
  \A b \in Callbacks : ~BackAt(b, "idle") =>
    callback[b].call \in DispatchCalls /\ dcall[callback[b].call].token

CallbackInv == CallbackTyped /\ HeldInCall /\ TokenSinceDelegation /\ CallbackHasCall

StartsInCall ==
  \A b \in Callbacks : ~BackAt(b, "running") /\ BackAt(b, "running")' =>
    dcall[callback[b].call].pc \in Served

\* A call moves on: it holds, and has a token, where the invariant says so, and
\* a token that was issued stays.
LEMMA CallMoves ==
  ASSUME CallbackInv, NEW c \in DispatchCalls, UNCHANGED callback,
         NEW row \in CallRows, NEW held \in Int,
         dcall' = [dcall EXCEPT ![c] = row], heldCost' = [heldCost EXCEPT ![c] = held],
         dcall[c].token => row.token,
         held # 0 => row.pc \in {"lookup", "delegate"} \cup Served,
         row.token => row.pc \in {"finish", "over"} \cup Served
  PROVE  CallbackInv'
<1> USE DEF CallbackInv, CallbackTyped, BackAt, CallRows
<1>1. CallbackTyped'
  OBVIOUS
<1>2. HeldInCall' /\ TokenSinceDelegation'
  BY DEF HeldInCall, TokenSinceDelegation
<1>3. CallbackHasCall'
  BY DEF CallbackHasCall
<1> QED
  BY <1>1, <1>2, <1>3

\* Every step of a call, and what ends its task or its reservation.
LEMMA CallKeepsInv ==
  ASSUME CallbackInv, NEW c \in DispatchCalls, Dispatch(c)
  PROVE  CallbackInv' /\ UNCHANGED callback
<1> USE DEF CallbackInv, CallAt
<1>1. /\ dcall[c] \in CallRows
      /\ heldCost[c] \in Int
      /\ heldCost[c] # 0 => dcall[c].pc \in {"lookup", "delegate"} \cup Served
      /\ dcall[c].token => dcall[c].pc \in {"finish", "over"} \cup Served
      /\ heldCost = [heldCost EXCEPT ![c] = heldCost[c]]
  BY DEF CallbackTyped, HeldInCall, TokenSinceDelegation
<1>2. ASSUME NEW pc \in CallStates, CallGoes(c, pc), UNCHANGED callback, NEW held \in Int,
             heldCost' = [heldCost EXCEPT ![c] = held],
             held # 0 => pc \in {"lookup", "delegate"} \cup Served,
             dcall[c].token => pc \in {"finish", "over"} \cup Served
      PROVE  CallbackInv'
  <2>1. PICK row \in CallRows : /\ dcall' = [dcall EXCEPT ![c] = row]
                                 /\ row.pc = pc /\ row.token = dcall[c].token
    <3>1. [dcall[c] EXCEPT !.pc = pc] \in CallRows
      BY <1>1 DEF CallRows
    <3> QED
      BY <1>1, <1>2, <3>1 DEF CallGoes, CallRows
  <2> QED
    BY <1>1, <1>2, <2>1, CallMoves
<1>3. ASSUME NEW op \in CatalogOps, handleToolCall(c, op)
      PROVE  CallbackInv' /\ UNCHANGED callback
  <2>1. dcall[c].token = FALSE /\ heldCost[c] = 0
    BY <1>1, <1>3 DEF handleToolCall, Served, CallRows
  <2>2. heldCost' = [heldCost EXCEPT ![c] = heldCost[c]] /\ UNCHANGED callback
    BY <1>1, <1>3 DEF handleToolCall
  <2>3. PICK row \in CallRows : dcall' = [dcall EXCEPT ![c] = row] /\ row.pc = "admit" /\ row.token = FALSE
    <3>1. IdleCall \in CallRows /\ IdleCall.token = FALSE
      BY DEF IdleCall, CallRows, CallStates
    <3>2. [IdleCall EXCEPT !.pc = "admit", !.op = op] \in CallRows
      BY <3>1 DEF CallRows, CallStates
    <3>3. dcall' = [dcall EXCEPT ![c] = [IdleCall EXCEPT !.pc = "admit", !.op = op]]
      BY <1>3 DEF handleToolCall
    <3> QED
      BY <3>1, <3>2, <3>3 DEF CallRows
  <2> QED
    BY <1>1, <2>1, <2>2, <2>3, CallMoves
<1>4. CASE admitInvocation(c)
  <2>1. dcall[c].token = FALSE /\ heldCost[c] = 0 /\ UNCHANGED callback
    BY <1>1, <1>4 DEF admitInvocation, Served, CallRows
  <2>2. "lookup" \in CallStates /\ "finish" \in CallStates
    BY DEF CallStates
  <2>3. CASE CallGoes(c, "finish") /\ UNCHANGED heldCost
    BY <1>1, <1>2, <2>1, <2>2, <2>3
  <2>4. ASSUME NEW argument \in Arguments,
               heldCost' = [heldCost EXCEPT ![c] = ResolveArgumentCost(argument)], CallGoes(c, "lookup")
        PROVE  CallbackInv'
    <3>1. ResolveArgumentCost(argument) \in Int
      BY DispatchAssumption DEF Arguments, ResolveArgumentCost, StaticCost, int64
    <3> QED
      BY <1>2, <2>1, <2>2, <2>4, <3>1
  <2> QED
    BY <1>4, <2>1, <2>3, <2>4 DEF admitInvocation
<1>5. CASE dispatchRegisteredOrBuiltIn(c)
  <2>1. /\ UNCHANGED <<callback, heldCost>> /\ dcall[c].token = FALSE
        /\ CallGoes(c, "delegate") \/ CallGoes(c, "release")
    BY <1>1, <1>5 DEF dispatchRegisteredOrBuiltIn, Served, CallRows
  <2> QED
    BY <1>1, <1>2, <2>1 DEF CallStates, Served
<1>6. CASE withProviderResourceDelegation(c)
  <2>1. UNCHANGED <<callback, heldCost>> /\ dcall[c].token = FALSE
    BY <1>1, <1>6 DEF withProviderResourceDelegation, Served, CallRows
  <2>2. CASE CallGoes(c, "release")
    BY <1>1, <1>2, <2>1, <2>2 DEF CallStates, Served
  <2>3. CASE dcall' = [dcall EXCEPT ![c].pc = "session", ![c].token = TRUE]
    <3>1. PICK row \in CallRows : dcall' = [dcall EXCEPT ![c] = row] /\ row.pc = "session" /\ row.token
      <4>1. [dcall[c] EXCEPT !.pc = "session", !.token = TRUE] \in CallRows
        BY <1>1 DEF CallRows, CallStates, Served
      <4> QED
        BY <1>1, <2>3, <4>1 DEF CallRows
    <3>2. "session" \in Served
      BY DEF Served
    <3> QED
      BY <1>1, <2>1, <3>1, <3>2, CallMoves
  <2> QED
    BY <1>6, <2>1, <2>2, <2>3 DEF withProviderResourceDelegation
<1>7. CASE OpensSession(c) \/ ProviderAnswers(c) \/ EndsDelegation(c)
  <2>1. /\ UNCHANGED <<callback, heldCost>>
        /\ CallGoes(c, "serving") \/ CallGoes(c, "undelegate") \/ CallGoes(c, "release")
    BY <1>7 DEF OpensSession, ProviderAnswers, EndsDelegation
  <2> QED
    BY <1>1, <1>2, <2>1 DEF CallStates, Served
<1>8. CASE ReleasesCall(c)
  <2>1. UNCHANGED callback /\ CallGoes(c, "finish") /\ heldCost' = [heldCost EXCEPT ![c] = 0]
    BY <1>8 DEF ReleasesCall
  <2> QED
    <3>1. "finish" \in CallStates /\ 0 \in Int
      BY DEF CallStates
    <3>2. ASSUME NEW held \in Int, held = 0
          PROVE  CallbackInv'
      <4>1. heldCost' = [heldCost EXCEPT ![c] = held]
        BY <2>1, <3>2
      <4> QED
        BY <1>2, <2>1, <3>1, <3>2, <4>1
    <3> QED
      BY <2>1, <3>1, <3>2
<1>9. CASE FinishesTask(c)
  <2>1. UNCHANGED <<callback, heldCost>> /\ CallGoes(c, "over") /\ heldCost[c] = 0
    BY <1>1, <1>9 DEF FinishesTask, Served
  <2> QED
    BY <1>1, <1>2, <2>1 DEF CallStates
<1>10. CASE CancelsTask(c)
  BY <1>10 DEF CancelsTask, CallbackTyped, HeldInCall, TokenSinceDelegation, CallbackHasCall, BackAt
<1>11. CASE ReservationLapses(c)
  <2>1. UNCHANGED <<callback, dcall>> /\ heldCost' = [heldCost EXCEPT ![c] = 0]
    BY <1>11 DEF ReservationLapses
  <2> QED
    BY <2>1 DEF CallbackTyped, HeldInCall, TokenSinceDelegation, CallbackHasCall, BackAt
<1> QED
  BY <1>3, <1>4, <1>5, <1>6, <1>7, <1>8, <1>9, <1>10, <1>11 DEF Dispatch

\* A step of a callback; one that starts to work finds the parent's record, so
\* the parent has not released.
LEMMA CallbackMoves ==
  ASSUME CallbackInv, NEW b \in Callbacks, CallBack(b)
  PROVE  CallbackInv' /\ StartsInCall
<1> USE DEF CallbackInv, BackAt, CallbackTyped
<1>1. UNCHANGED <<dcall, heldCost>>
  BY DEF CallBack, CallsBack, verifyResourceDelegation, contextForProviderCallback,
     providerCallbackTaskOwnerFromContext, InheritsReservation, CallbackEnds, backKeeps
<1>2. HeldInCall' /\ TokenSinceDelegation'
  BY <1>1 DEF HeldInCall, TokenSinceDelegation
<1>3. ASSUME NEW pc \in CallbackStates, BackGoes(b, pc), ~BackAt(b, "idle"),
             pc = "running" => validateParentReservation(b)
      PROVE  CallbackInv' /\ StartsInCall
  <2>1. callback[b].call \in DispatchCalls /\ dcall[callback[b].call].token
    BY <1>3 DEF CallbackHasCall
  <2>2. CallbackTyped' /\ CallbackHasCall'
    BY <1>1, <1>3, <2>1 DEF BackGoes, CallbackHasCall
  <2>3. pc = "running" => dcall[callback[b].call].pc \in Served
    BY <1>3, <2>1 DEF validateParentReservation, HeldInCall, TokenSinceDelegation, Served
  <2>4. StartsInCall
    BY <1>3, <2>3 DEF StartsInCall, BackGoes
  <2> QED
    BY <1>2, <2>2, <2>4
<1>4. ASSUME NEW c \in DispatchCalls, NEW async \in BOOLEAN, CallsBack(b, c, async)
      PROVE  CallbackInv' /\ StartsInCall
  <2>1. CallbackTyped' /\ CallbackHasCall'
    BY <1>1, <1>4 DEF CallsBack, CallbackStates, CallbackHasCall
  <2>2. StartsInCall
    BY <1>4 DEF CallsBack, StartsInCall
  <2> QED
    BY <1>2, <2>1, <2>2
<1>5. CASE verifyResourceDelegation(b) \/ contextForProviderCallback(b) \/ providerCallbackTaskOwnerFromContext(b)
  BY <1>3, <1>5 DEF verifyResourceDelegation, contextForProviderCallback,
     providerCallbackTaskOwnerFromContext, CallbackStates
<1>6. CASE InheritsReservation(b) \/ CallbackEnds(b)
  BY <1>3, <1>6 DEF InheritsReservation, CallbackEnds, CallbackStates
<1> QED
  BY <1>4, <1>5, <1>6 DEF CallBack

\* A callback starts to work only while its call is being served, for any
\* number of calls, callbacks, cancellations and expiries: whoever has a token
\* was delegated to, and the record that the admission finds is gone from the
\* release on (contextForProviderCallback, Admit, DispatchTool).
THEOREM CallbacksStartDuringCalls == DispatchSpec => CallbacksStartInCall
<1>1. DispatchInit => CallbackInv
  BY DEF DispatchInit, CallbackInv, CallbackTyped, CallbackStates, IdleCallback, CallStates, IdleCall, CallRows,
     HeldInCall, TokenSinceDelegation, CallbackHasCall, BackAt
<1>2. ASSUME CallbackInv, [DispatchNext]_dispatchVars
      PROVE  CallbackInv' /\ StartsInCall
  <2>1. ASSUME UNCHANGED <<dcall, heldCost, callback>>
        PROVE  CallbackInv' /\ StartsInCall
    BY <1>2, <2>1 DEF CallbackInv, CallbackTyped, HeldInCall, TokenSinceDelegation, CallbackHasCall,
       StartsInCall, BackAt
  <2>2. ASSUME NEW p \in Publishers, Publish(p)
        PROVE  UNCHANGED <<dcall, heldCost, callback>>
    BY <2>2 DEF Publish, retireProviderCapabilities, RegisterBegins, ReplacesOverlay, SnapshotsRegistry,
       SetsCatalog, Refreshes, RemovesTools, registerTools, EnsuresCapability, AddsTool, NamesTool,
       RefreshEnds, callVars
  <2>3. ASSUME UNCHANGED callback
        PROVE  StartsInCall
    BY <2>3 DEF StartsInCall, BackAt
  <2> QED
    BY <1>2, <2>1, <2>2, <2>3, CallKeepsInv, CallbackMoves DEF DispatchNext, dispatchVars
<1> QED
  BY <1>1, <1>2, PTL DEF DispatchSpec, CallbacksStartInCall, StartsInCall
----------------------------------------------------------------------------
\* A PTY that was started is for an operation and a VM.
PtyKnown ==
  \A p \in Ptys : ptys[p].state # "free" => ptys[p].op \in StreamOps /\ ptys[p].vm \in ConsoleVMs

\* The map of streams names consoles that the map of VMs names too.
StreamIsVMs ==
  \A o \in StreamOps : streams[o] # NoPty =>
    LET p == streams[o] IN
    /\ ptys[p].state \in {"live", "closed"} /\ ptys[p].op = o
    /\ byVM[ptys[p].vm] = p

\* A live console is the one of its VM, and what the map of VMs names was
\* opened for that VM.
VMNamesLive ==
  /\ \A p \in Ptys : ptys[p].state = "live" => byVM[ptys[p].vm] = p
  /\ \A v \in ConsoleVMs : byVM[v] # NoPty =>
       ptys[byVM[v]].vm = v /\ ptys[byVM[v]].state \notin {"free", "started"}

ConsoleInv == ConsoleTypeOK /\ PtyKnown /\ StreamIsVMs /\ VMNamesLive

\* Closing consoles changes the state of those that are live.
LEMMA ClosedPtys ==
  ASSUME NEW table \in [Ptys -> PtyRows], NEW which
  PROVE  /\ Closed(table, which) \in [Ptys -> PtyRows]
         /\ \A q \in Ptys :
              /\ Closed(table, which)[q].op = table[q].op /\ Closed(table, which)[q].vm = table[q].vm
              /\ Closed(table, which)[q].state =
                   IF q \in which /\ table[q].state = "live" THEN "closed" ELSE table[q].state
<1>1. ASSUME NEW q \in Ptys
      PROVE  /\ Closed(table, which)[q] \in PtyRows
             /\ Closed(table, which)[q].op = table[q].op /\ Closed(table, which)[q].vm = table[q].vm
             /\ Closed(table, which)[q].state =
                  IF q \in which /\ table[q].state = "live" THEN "closed" ELSE table[q].state
  <2>1. table[q] \in PtyRows
    OBVIOUS
  <2>2. Closed(table, which)[q] =
          [table[q] EXCEPT !.state =
             IF q \in which /\ table[q].state = "live" THEN "closed" ELSE table[q].state]
    BY <2>1 DEF Closed, PtyRows
  <2> QED
    BY <2>1, <2>2 DEF PtyRows
<1> QED
  BY <1>1 DEF Closed

\* Opening, moving, closing and reading to the end keep the maps of consoles.
LEMMA ConsoleInduction ==
  ASSUME ConsoleInv, [ConsoleNext]_consoleVars
  PROVE  ConsoleInv'
<1> USE StreamsAssumption DEF ConsoleInv
<1>1. CASE UNCHANGED consoleVars
  BY <1>1 DEF consoleVars, ConsoleTypeOK, PtyKnown, StreamIsVMs, VMNamesLive
<1>2. ASSUME NEW p \in Ptys, NEW op \in StreamOps, NEW vm \in ConsoleVMs, StartsPty(p, op, vm)
      PROVE  ConsoleInv'
  <2>1. ConsoleTypeOK'
    BY <1>2 DEF StartsPty, ConsoleTypeOK, PtyRows
  <2> QED
    BY <1>2, <2>1 DEF StartsPty, ConsoleTypeOK, PtyKnown, StreamIsVMs, VMNamesLive
<1>3. ASSUME NEW p \in Ptys, open(p)
      PROVE  ConsoleInv'
  <2> DEFINE op == ptys[p].op
             vm == ptys[p].vm
  <2>1. op \in StreamOps /\ vm \in ConsoleVMs
    BY <1>3 DEF open, PtyKnown
  <2>2. /\ ptys' \in [Ptys -> PtyRows]
        /\ \A q \in Ptys :
             /\ ptys'[q].op = ptys[q].op /\ ptys'[q].vm = ptys[q].vm
             /\ ptys'[q].state = IF q = p THEN "live"
                                 ELSE IF q \in Displaced(p) /\ ptys[q].state = "live" THEN "closed"
                                 ELSE ptys[q].state
    <3>1. ptys' = [Closed(ptys, Displaced(p)) EXCEPT ![p].state = "live"]
      BY <1>3 DEF open
    <3> HIDE DEF ConsoleInv
    <3>2. Closed(ptys, Displaced(p)) \in [Ptys -> PtyRows]
      BY ClosedPtys DEF ConsoleInv, ConsoleTypeOK
    <3>3. \A q \in Ptys :
            /\ Closed(ptys, Displaced(p))[q].op = ptys[q].op
            /\ Closed(ptys, Displaced(p))[q].vm = ptys[q].vm
            /\ Closed(ptys, Displaced(p))[q].state =
                 IF q \in Displaced(p) /\ ptys[q].state = "live" THEN "closed" ELSE ptys[q].state
      BY ClosedPtys DEF ConsoleInv, ConsoleTypeOK
    <3> QED
      BY <3>1, <3>2, <3>3 DEF PtyRows
  <2>3. ptys[p].state = "started"
    BY <1>3 DEF open
  <2>4. ConsoleTypeOK'
    BY <1>3, <2>1, <2>2 DEF open, ConsoleTypeOK
  <2>5. PtyKnown'
    BY <2>1, <2>2 DEF PtyKnown, ConsoleTypeOK
  <2>6. StreamIsVMs'
    <3>1. SUFFICES ASSUME NEW o \in StreamOps, streams'[o] # NoPty
                   PROVE  LET q == streams'[o] IN
                          /\ ptys'[q].state \in {"live", "closed"} /\ ptys'[q].op = o
                          /\ byVM'[ptys'[q].vm] = q
      BY DEF StreamIsVMs
    <3>2. CASE o = op
      BY <1>3, <2>1, <2>2, <3>2 DEF open, ConsoleTypeOK
    <3>3. CASE o # op
      <4> DEFINE q == streams[o]
      <4>1. streams'[o] = q /\ q \in Ptys /\ ~(byVM[vm] # NoPty /\ ptys[byVM[vm]].op = o)
        BY <1>3, <3>1, <3>3 DEF open, ConsoleTypeOK
      <4>2. ptys[q].state \in {"live", "closed"} /\ ptys[q].op = o /\ byVM[ptys[q].vm] = q
        BY <4>1 DEF StreamIsVMs
      <4>3. ptys[q].vm # vm /\ q # p
        BY <2>3, <4>1, <4>2
      <4>4. byVM'[ptys[q].vm] = q
        BY <1>3, <2>1, <4>1, <4>2, <4>3 DEF open, ConsoleTypeOK, PtyKnown
      <4> QED
        BY <2>2, <4>1, <4>2, <4>3, <4>4
    <3> QED
      BY <3>2, <3>3
  <2>7. VMNamesLive'
    <3>0. byVM' = [byVM EXCEPT ![vm] = p]
      BY <1>3 DEF open
    <3>1. ASSUME NEW q \in Ptys, ptys'[q].state = "live"
          PROVE  byVM'[ptys'[q].vm] = q
      <4>1. CASE q = p
        BY <2>1, <2>2, <3>0, <4>1 DEF ConsoleTypeOK
      <4>2. CASE q # p
        <5>1. ptys[q].state = "live" /\ q \notin Displaced(p)
          BY <2>2, <3>1, <4>2
        <5>2. byVM[ptys[q].vm] = q /\ ptys[q].vm # vm
          BY <5>1 DEF VMNamesLive, Displaced
        <5> QED
          BY <2>1, <2>2, <3>0, <5>2 DEF ConsoleTypeOK
      <4> QED
        BY <4>1, <4>2
    <3>2. ASSUME NEW v \in ConsoleVMs, byVM'[v] # NoPty
          PROVE  ptys'[byVM'[v]].vm = v /\ ptys'[byVM'[v]].state \notin {"free", "started"}
      BY <2>1, <2>2, <2>3, <3>0, <3>2 DEF VMNamesLive, ConsoleTypeOK
    <3> QED
      BY <3>1, <3>2 DEF VMNamesLive
  <2> QED
    BY <2>4, <2>5, <2>6, <2>7
<1>4. ASSUME NEW p \in Ptys, PtyExits(p)
      PROVE  ConsoleInv'
  BY <1>4 DEF PtyExits, ConsoleTypeOK, PtyRows, PtyKnown, StreamIsVMs, VMNamesLive
<1>5. ASSUME NEW p \in Ptys, ReaderEnds(p)
      PROVE  ConsoleInv'
  BY <1>5 DEF ReaderEnds, Forgets, ConsoleTypeOK, PtyRows, PtyKnown, StreamIsVMs, VMNamesLive
<1>6. ASSUME NEW op \in StreamOps, CloseStream(op)
      PROVE  ConsoleInv'
  <2> DEFINE p == streams[op]
             vm == ptys[p].vm
  <2>1. p \in Ptys /\ ptys[p].op = op /\ vm \in ConsoleVMs /\ byVM[vm] = p
    BY <1>6 DEF CloseStream, ConsoleTypeOK, StreamIsVMs, PtyKnown
  <2>2. /\ ptys' = Closed(ptys, {p})
        /\ streams' = [streams EXCEPT ![op] = NoPty]
        /\ byVM' = [byVM EXCEPT ![vm] = NoPty]
    BY <1>6, <2>1 DEF CloseStream, Forgets, ConsoleTypeOK
  <2>3. /\ ptys' \in [Ptys -> PtyRows]
        /\ \A q \in Ptys :
             /\ ptys'[q].op = ptys[q].op /\ ptys'[q].vm = ptys[q].vm
             /\ ptys'[q].state = IF q = p /\ ptys[q].state = "live" THEN "closed" ELSE ptys[q].state
    BY <2>2, ClosedPtys DEF ConsoleTypeOK
  <2>4. ConsoleTypeOK'
    BY <2>2, <2>3 DEF ConsoleTypeOK
  <2> HIDE DEF p, vm
  <2>5. PtyKnown'
    BY <2>3 DEF PtyKnown
  <2>6. VMNamesLive'
    <3>1. ASSUME NEW q \in Ptys, ptys'[q].state = "live"
          PROVE  byVM'[ptys'[q].vm] = q
      <4>1. q # p /\ ptys[q].state = "live" /\ byVM[ptys[q].vm] = q
        BY <2>3, <3>1 DEF VMNamesLive
      <4> QED
        BY <2>1, <2>2, <2>3, <4>1 DEF ConsoleTypeOK, PtyKnown
    <3>2. ASSUME NEW v \in ConsoleVMs, byVM'[v] # NoPty
          PROVE  ptys'[byVM'[v]].vm = v /\ ptys'[byVM'[v]].state \notin {"free", "started"}
      <4>1. byVM'[v] = byVM[v] /\ byVM[v] \in Ptys
        BY <2>1, <2>2, <3>2 DEF ConsoleTypeOK
      <4> QED
        BY <2>3, <3>2, <4>1 DEF VMNamesLive
    <3> QED
      BY <3>1, <3>2 DEF VMNamesLive
  <2>7. StreamIsVMs'
    <3>1. SUFFICES ASSUME NEW o \in StreamOps, streams'[o] # NoPty
                   PROVE  LET q == streams'[o] IN
                          /\ ptys'[q].state \in {"live", "closed"} /\ ptys'[q].op = o
                          /\ byVM'[ptys'[q].vm] = q
      BY DEF StreamIsVMs
    <3>2. o # op /\ streams'[o] = streams[o] /\ streams[o] \in Ptys
      BY <2>2, <3>1 DEF ConsoleTypeOK
    <3>3. /\ ptys[streams[o]].state \in {"live", "closed"} /\ ptys[streams[o]].op = o
          /\ byVM[ptys[streams[o]].vm] = streams[o]
      BY <3>1, <3>2 DEF StreamIsVMs
    <3>4. streams[o] # p
      BY <2>1, <3>2, <3>3
    <3> QED
      BY <2>1, <2>2, <2>3, <3>2, <3>3, <3>4 DEF ConsoleTypeOK, PtyKnown
  <2> QED
    BY <2>4, <2>5, <2>6, <2>7
<1>7. CASE AbortAll
  <2> DEFINE all == {streams[o] : o \in StreamOps} \ {NoPty}
  <2>1. /\ ptys' \in [Ptys -> PtyRows]
        /\ \A q \in Ptys :
             /\ ptys'[q].op = ptys[q].op /\ ptys'[q].vm = ptys[q].vm
             /\ ptys'[q].state = IF q \in all /\ ptys[q].state = "live" THEN "closed" ELSE ptys[q].state
    <3> HIDE DEF all
    <3>1. ptys' = Closed(ptys, all)
      BY <1>7 DEF AbortAll, all
    <3> QED
      BY <3>1, ClosedPtys DEF ConsoleTypeOK
  <2>2. /\ streams' = [o \in StreamOps |-> NoPty]
        /\ byVM' = [v \in ConsoleVMs |-> IF \E p \in all : ptys[p].vm = v THEN NoPty ELSE byVM[v]]
    BY <1>7 DEF AbortAll
  <2>3. \A p \in all : p \in Ptys /\ byVM[ptys[p].vm] = p
    BY DEF ConsoleTypeOK, StreamIsVMs
  <2>4. ConsoleTypeOK' /\ StreamIsVMs'
    BY <2>1, <2>2 DEF ConsoleTypeOK, StreamIsVMs
  <2>5. PtyKnown' /\ VMNamesLive'
    <3> HIDE DEF all
    <3> QED
      BY <2>1, <2>2, <2>3 DEF PtyKnown, VMNamesLive, ConsoleTypeOK
  <2> QED
    BY <2>4, <2>5
<1> QED
  BY <1>1, <1>2, <1>3, <1>4, <1>5, <1>6, <1>7 DEF ConsoleNext

----------------------------------------------------------------------------
\* Both maps of the relay manager name sessions that are open, each other's.
MapsAgree ==
  /\ \A d \in SqlDatabases : relayOf[d] # NoStream =>
       LET r == relayOf[d] IN
       relays[r].state = "open" /\ relays[r].db = d
       /\ relays[r].port \in RelayPorts /\ portOf[relays[r].port] = d
  /\ \A p \in RelayPorts : portOf[p] # NoStream =>
       relayOf[portOf[p]] # NoStream /\ relays[relayOf[portOf[p]]].port = p

\* A caller in the middle of a call has what the call works on.
CallerKnows ==
  \A c \in SqlCallers :
    /\ ~SqlAt(c, "idle") => sqlCall[c].db \in SqlDatabases
    /\ SqlAt(c, "start") => sqlCall[c].port \in RelayPorts
    /\ SqlAt(c, "cut") \/ SqlAt(c, "unlisten") =>
         sqlCall[c].relay \in Relays /\ relays[sqlCall[c].relay].state \notin {"free", "open"}

\* Until everything is stopped, the relay of a database belongs to its entry
\* in the connector table, to the caller about to make the entry, or to the
\* caller that took the entry out to stop the relay: to one of them.
RelayOwned ==
  sqlStopped.pc = "no" =>
    /\ \A d \in SqlDatabases : sqlSessions[d] # NoStream => relayOf[d] # NoStream
    /\ \A c \in SqlCallers : SqlAt(c, "record") \/ SqlAt(c, "stop") =>
         /\ relayOf[sqlCall[c].db] # NoStream /\ sqlSessions[sqlCall[c].db] = NoStream
         /\ \A b \in SqlCallers :
              (SqlAt(b, "record") \/ SqlAt(b, "stop")) /\ sqlCall[b].db = sqlCall[c].db => b = c

RelayInv == RelayTypeOK /\ MapsAgree /\ CallerKnows /\ RelayOwned

\* Uses and timers come and go, the entries stay.
LEMMA EntriesStay ==
  ASSUME RelayInv, UNCHANGED <<relays, relayOf, portOf, sqlCall, sqlStopped>>,
         sqlSessions' \in [SqlDatabases -> SqlEntries \cup {NoStream}],
         \A d \in SqlDatabases : sqlSessions'[d] = NoStream <=> sqlSessions[d] = NoStream
  PROVE  RelayInv'
BY DEF RelayInv, RelayTypeOK, MapsAgree, CallerKnows, RelayOwned, SqlAt

\* A call begins or ends, or goes on to drain.
LEMMA CallerMoves ==
  ASSUME RelayInv, NEW c \in SqlCallers, NEW row \in SqlCallRows,
         sqlCall' = [sqlCall EXCEPT ![c] = row],
         row.pc \in {"idle", "start", "drain"},
         row.pc # "idle" => row.db \in SqlDatabases, row.pc = "start" => row.port \in RelayPorts,
         UNCHANGED <<relays, relayOf, portOf, sqlSessions, sqlStopped>>
  PROVE  RelayInv'
<1>1. RelayTypeOK'
  BY DEF RelayInv, RelayTypeOK
<1>2. \A b \in SqlCallers : sqlCall'[b] = IF b = c THEN row ELSE sqlCall[b]
  BY DEF RelayInv, RelayTypeOK
<1> QED
  BY <1>1, <1>2 DEF RelayInv, MapsAgree, CallerKnows, RelayOwned, SqlAt

\* Ensuring, releasing, idling, draining and stopping keep the table of
\* connectors.
LEMMA RelayInduction ==
  ASSUME RelayInv, [RelayNext]_relayVars
  PROVE  RelayInv'
<1> USE StreamsAssumption DEF RelayInv, SqlAt, SqlGoes, SqlEnds
<1>0. CASE UNCHANGED <<relays, relayOf, portOf, sqlSessions, sqlCall, sqlStopped>>
  BY <1>0 DEF RelayTypeOK, MapsAgree, CallerKnows, RelayOwned
<1>1. ASSUME NEW c \in SqlCallers, NEW db \in SqlDatabases, NEW port \in RelayPorts,
             ensureConnector(c, db, port)
      PROVE  RelayInv'
  <2>1. CASE sqlSessions[db] # NoStream
    <3>1. [uses |-> sqlSessions[db].uses + 1, timer |-> FALSE] \in SqlEntries
      BY <2>1 DEF RelayTypeOK, SqlEntries
    <3> QED
      BY <1>1, <2>1, <3>1, EntriesStay DEF ensureConnector, RelayTypeOK
  <2>2. CASE sqlSessions[db] = NoStream
    <3> DEFINE row == [pc |-> "start", db |-> db, port |-> port, relay |-> NoStream]
    <3>1. row \in SqlCallRows
      BY DEF SqlCallRows
    <3>2. sqlCall' = [sqlCall EXCEPT ![c] = row]
      BY <1>1, <2>2 DEF ensureConnector, NoSqlCall
    <3>3. UNCHANGED <<relays, relayOf, portOf, sqlSessions, sqlStopped>>
      BY <1>1, <2>2 DEF ensureConnector
    <3> QED
      BY <3>1, <3>2, <3>3, CallerMoves
  <2> QED
    BY <2>1, <2>2
<1>2. ASSUME NEW c \in SqlCallers, NEW db \in SqlDatabases, NEW force \in BOOLEAN,
             releaseConnector(c, db, force)
      PROVE  RelayInv'
  <2>1. CASE force
    <3> DEFINE row == [pc |-> "drain", db |-> db, port |-> NoStream, relay |-> NoStream]
    <3>1. row \in SqlCallRows
      BY DEF SqlCallRows
    <3>2. sqlCall' = [sqlCall EXCEPT ![c] = row]
      BY <1>2, <2>1 DEF releaseConnector, NoSqlCall
    <3>3. UNCHANGED <<relays, relayOf, portOf, sqlSessions, sqlStopped>>
      BY <1>2, <2>1 DEF releaseConnector
    <3> QED
      BY <3>1, <3>2, <3>3, CallerMoves
  <2>2. CASE ~force
    <3> DEFINE entry == [uses |-> sqlSessions[db].uses - 1,
                         timer |-> sqlSessions[db].timer \/ sqlSessions[db].uses <= 1]
    <3>1. sqlSessions[db] \in SqlEntries
      BY <1>2 DEF releaseConnector, RelayTypeOK
    <3>2. entry \in SqlEntries
      BY <3>1 DEF SqlEntries
    <3>3. sqlSessions' = [sqlSessions EXCEPT ![db] = entry]
      BY <1>2, <2>2 DEF releaseConnector
    <3> QED
      BY <1>2, <2>2, <3>1, <3>2, <3>3, EntriesStay DEF releaseConnector, RelayTypeOK
  <2> QED
    BY <2>1, <2>2
<1>3. ASSUME NEW c \in SqlCallers, NEW db \in SqlDatabases, IdleTimerFires(c, db)
      PROVE  RelayInv'
  <2>1. RelayTypeOK'
    BY <1>3 DEF IdleTimerFires, NoSqlCall, RelayTypeOK, RelayRows, SqlCallRows, SqlEntries
  <2>2. MapsAgree'
    BY <1>3 DEF IdleTimerFires, NoSqlCall, RelayTypeOK, RelayRows, SqlCallRows, MapsAgree, CallerKnows
  <2>3. CallerKnows'
    BY <1>3 DEF IdleTimerFires, NoSqlCall, RelayTypeOK, RelayRows, SqlCallRows, MapsAgree, CallerKnows
  <2>4. RelayOwned'
    BY <1>3 DEF IdleTimerFires, NoSqlCall, RelayTypeOK, RelayRows, SqlCallRows, MapsAgree, CallerKnows, RelayOwned
  <2> QED
    BY <2>1, <2>2, <2>3, <2>4
<1>4. ASSUME NEW c \in SqlCallers, Start(c)
      PROVE  RelayInv'
  <2> DEFINE db == sqlCall[c].db
             port == sqlCall[c].port
  <2>0. /\ db \in SqlDatabases /\ port \in RelayPorts /\ sqlCall[c].pc = "start"
        /\ NoSqlCall \in SqlCallRows /\ sqlCall[c] \in SqlCallRows
    BY <1>4 DEF Start, CallerKnows, NoSqlCall, SqlCallRows, RelayTypeOK
  <2>1. CASE UNCHANGED relays
    BY <1>4, <2>0, <2>1, CallerMoves DEF Start, NoSqlCall, RelayTypeOK, RelayRows
  <2>2. ASSUME NEW r \in Relays, relays[r].state = "free", relayOf[db] = NoStream,
               portOf[port] = NoStream,
               relays' = [relays EXCEPT ![r] = [state |-> "open", db |-> db, port |-> port]],
               relayOf' = [relayOf EXCEPT ![db] = r], portOf' = [portOf EXCEPT ![port] = db],
               sqlCall' = [sqlCall EXCEPT ![c].pc = "record"],
               UNCHANGED <<sqlSessions, sqlStopped>>
        PROVE  RelayInv'
    <3>1. [state |-> "open", db |-> db, port |-> port] \in RelayRows
      BY <2>0 DEF RelayRows
    <3>2. [sqlCall[c] EXCEPT !.pc = "record"] \in SqlCallRows
      BY <2>0 DEF SqlCallRows
    <3>3. \A b \in SqlCallers : sqlCall'[b] = IF b = c THEN [sqlCall[c] EXCEPT !.pc = "record"] ELSE sqlCall[b]
      BY <2>2 DEF RelayTypeOK
    <3>4. RelayTypeOK'
      BY <2>0, <2>2, <3>1, <3>2 DEF RelayTypeOK
    <3>5. \A d \in SqlDatabases : relayOf[d] # r
      BY <2>2 DEF MapsAgree
    <3>6. MapsAgree'
      <4>1. \A d \in SqlDatabases : relayOf'[d] = IF d = db THEN r ELSE relayOf[d]
        BY <2>2 DEF RelayTypeOK
      <4>2. \A p \in RelayPorts : portOf'[p] = IF p = port THEN db ELSE portOf[p]
        BY <2>2 DEF RelayTypeOK
      <4>3. /\ relays'[r] = [state |-> "open", db |-> db, port |-> port]
            /\ \A q \in Relays : q # r => relays'[q] = relays[q]
        BY <2>2 DEF RelayTypeOK
      <4>4. ASSUME NEW d \in SqlDatabases, relayOf'[d] # NoStream
            PROVE  LET q == relayOf'[d] IN
                   relays'[q].state = "open" /\ relays'[q].db = d
                   /\ relays'[q].port \in RelayPorts /\ portOf'[relays'[q].port] = d
        <5>1. CASE d = db
          BY <2>0, <4>1, <4>2, <4>3, <5>1
        <5>2. CASE d # db
          BY <2>2, <3>5, <4>1, <4>2, <4>3, <4>4, <5>2 DEF MapsAgree, RelayTypeOK
        <5> QED
          BY <5>1, <5>2
      <4>5. ASSUME NEW p \in RelayPorts, portOf'[p] # NoStream
            PROVE  relayOf'[portOf'[p]] # NoStream /\ relays'[relayOf'[portOf'[p]]].port = p
        <5>1. CASE p = port
          BY <2>0, <4>1, <4>2, <4>3, <5>1
        <5>2. CASE p # port
          <6>1. portOf'[p] = portOf[p] /\ portOf[p] # db /\ portOf[p] \in SqlDatabases
            BY <2>2, <4>2, <4>5, <5>2 DEF MapsAgree, RelayTypeOK
          <6> QED
            BY <3>5, <4>1, <4>3, <4>5, <6>1 DEF MapsAgree, RelayTypeOK
        <5> QED
          BY <5>1, <5>2
      <4> QED
        BY <4>4, <4>5 DEF MapsAgree
    <3>7. CallerKnows'
      <4>1. \A q \in Relays : relays[q].state # "open" /\ q # r => relays'[q] = relays[q]
        BY <2>2 DEF RelayTypeOK
      <4>2. \A b \in SqlCallers : SqlAt(b, "cut") \/ SqlAt(b, "unlisten") => sqlCall[b].relay # r
        BY <2>2 DEF CallerKnows
      <4> QED
        BY <2>0, <2>2, <3>3, <4>1, <4>2 DEF CallerKnows, SqlCallRows, RelayTypeOK
    <3>8. RelayOwned'
      BY <2>0, <2>2, <3>3 DEF RelayOwned, RelayTypeOK, SqlCallRows
    <3> QED
      BY <3>4, <3>6, <3>7, <3>8
  <2> QED
    BY <1>4, <2>1, <2>2 DEF Start
<1>5. ASSUME NEW c \in SqlCallers, RecordsConnector(c)
      PROVE  RelayInv'
  <2>1. RelayTypeOK'
    <3>1. [uses |-> 1, timer |-> FALSE] \in SqlEntries /\ NoSqlCall \in SqlCallRows
      BY DEF SqlEntries, SqlCallRows, NoSqlCall
    <3> QED
      BY <1>5, <3>1 DEF RecordsConnector, RelayTypeOK
  <2>2. MapsAgree'
    BY <1>5 DEF RecordsConnector, NoSqlCall, RelayTypeOK, RelayRows, SqlCallRows, MapsAgree, CallerKnows
  <2>3. CallerKnows'
    BY <1>5 DEF RecordsConnector, NoSqlCall, RelayTypeOK, RelayRows, SqlCallRows, MapsAgree, CallerKnows
  <2>4. RelayOwned'
    BY <1>5 DEF RecordsConnector, NoSqlCall, RelayTypeOK, RelayRows, SqlCallRows, MapsAgree, CallerKnows, RelayOwned
  <2> QED
    BY <2>1, <2>2, <2>3, <2>4
<1>6. ASSUME NEW c \in SqlCallers, Drains(c)
      PROVE  RelayInv'
  <2> DEFINE db == sqlCall[c].db
  <2>0. /\ db \in SqlDatabases /\ sqlCall[c].pc = "drain" /\ sqlCall[c] \in SqlCallRows
        /\ NoSqlCall \in SqlCallRows
        /\ sqlSessions' = [sqlSessions EXCEPT ![db] = NoStream]
        /\ UNCHANGED <<relays, relayOf, portOf, sqlStopped>>
    BY <1>6 DEF Drains, drainSession, CallerKnows, RelayTypeOK, SqlCallRows, NoSqlCall
  <2>1. CASE sqlSessions[db] = NoStream
    BY <1>6, <2>0, <2>1, CallerMoves DEF Drains, drainSession, RelayTypeOK, NoSqlCall
  <2>2. CASE sqlSessions[db] # NoStream
    <3>1. sqlCall' = [sqlCall EXCEPT ![c].pc = "stop"]
      BY <1>6, <2>2 DEF Drains, drainSession
    <3>2. [sqlCall[c] EXCEPT !.pc = "stop"] \in SqlCallRows
      BY <2>0 DEF SqlCallRows
    <3>3. \A b \in SqlCallers : sqlCall'[b] = IF b = c THEN [sqlCall[c] EXCEPT !.pc = "stop"] ELSE sqlCall[b]
      BY <3>1 DEF RelayTypeOK
    <3>4. RelayTypeOK'
      BY <2>0, <3>1, <3>2 DEF RelayTypeOK
    <3>5. MapsAgree'
      BY <2>0 DEF MapsAgree
    <3>6. CallerKnows'
      BY <2>0, <3>3 DEF CallerKnows, SqlCallRows
    <3>7. RelayOwned'
      <4>1. \A d \in SqlDatabases : sqlSessions'[d] = IF d = db THEN NoStream ELSE sqlSessions[d]
        BY <2>0 DEF RelayTypeOK
      <4>2. sqlStopped.pc = "no" =>
              /\ relayOf[db] # NoStream
              /\ \A b \in SqlCallers : (SqlAt(b, "record") \/ SqlAt(b, "stop")) => sqlCall[b].db # db
        BY <2>0, <2>2 DEF RelayOwned
      <4>3. \A b \in SqlCallers : sqlCall'[b].db = sqlCall[b].db
        BY <2>0, <3>3 DEF SqlCallRows
      <4>4. \A b \in SqlCallers : (SqlAt(b, "record") \/ SqlAt(b, "stop"))' =>
               b = c \/ SqlAt(b, "record") \/ SqlAt(b, "stop")
        BY <3>3
      <4> QED
        BY <2>0, <3>3, <4>1, <4>2, <4>3, <4>4 DEF RelayOwned, CallerKnows
    <3> QED
      BY <3>4, <3>5, <3>6, <3>7
  <2> QED
    BY <2>1, <2>2
<1>7. ASSUME NEW c \in SqlCallers, Stop(c)
      PROVE  RelayInv'
  <2> DEFINE db == sqlCall[c].db
             r == relayOf[db]
             port == relays[r].port
  <2>0. /\ db \in SqlDatabases /\ sqlCall[c].pc = "stop" /\ sqlCall[c] \in SqlCallRows
        /\ r \in Relays /\ relays[r].db = db /\ relays[r].state = "open"
        /\ port \in RelayPorts /\ portOf[port] = db
    BY <1>7 DEF Stop, CallerKnows, RelayTypeOK, MapsAgree
  <2>1. /\ relayOf' = [relayOf EXCEPT ![db] = NoStream]
        /\ portOf' = [portOf EXCEPT ![port] = NoStream]
        /\ relays' = [relays EXCEPT ![r].state = "unlinked"]
        /\ sqlCall' = [sqlCall EXCEPT ![c].pc = "cut", ![c].relay = r]
        /\ UNCHANGED <<sqlSessions, sqlStopped>>
    BY <1>7, <2>0 DEF Stop, Unlinked
  <2> HIDE DEF db, r, port
  <2> DEFINE row == [sqlCall[c] EXCEPT !.pc = "cut", !.relay = r]
             gone == [relays[r] EXCEPT !.state = "unlinked"]
  <2>2. row \in SqlCallRows /\ gone \in RelayRows
    BY <2>0 DEF SqlCallRows, RelayRows, RelayTypeOK
  <2>3. /\ \A b \in SqlCallers : sqlCall'[b] = IF b = c THEN row ELSE sqlCall[b]
        /\ \A q \in Relays : relays'[q] = IF q = r THEN gone ELSE relays[q]
        /\ \A d \in SqlDatabases : relayOf'[d] = IF d = db THEN NoStream ELSE relayOf[d]
        /\ \A p \in RelayPorts : portOf'[p] = IF p = port THEN NoStream ELSE portOf[p]
    BY <2>0, <2>1 DEF RelayTypeOK, SqlCallRows
  <2>4. RelayTypeOK'
    <3>1. sqlCall' \in [SqlCallers -> SqlCallRows] /\ relays' \in [Relays -> RelayRows]
      BY <2>0, <2>1, <2>2, <2>3 DEF RelayTypeOK
    <3> QED
      BY <2>1, <3>1 DEF RelayTypeOK
  <2>5. /\ row.pc = "cut" /\ row.db = db /\ row.relay = r /\ gone.state = "unlinked"
    BY <2>0 DEF SqlCallRows, RelayRows, RelayTypeOK, db
  <2>6. MapsAgree'
    <3>1. ASSUME NEW d \in SqlDatabases, relayOf'[d] # NoStream
          PROVE  LET q == relayOf'[d] IN
                 relays'[q].state = "open" /\ relays'[q].db = d
                 /\ relays'[q].port \in RelayPorts /\ portOf'[relays'[q].port] = d
      <4>1. d # db /\ relayOf'[d] = relayOf[d] /\ relayOf[d] \in Relays
        BY <2>3, <3>1 DEF RelayTypeOK
      <4>2. /\ relays[relayOf[d]].state = "open" /\ relays[relayOf[d]].db = d
            /\ relays[relayOf[d]].port \in RelayPorts /\ portOf[relays[relayOf[d]].port] = d
        BY <3>1, <4>1 DEF MapsAgree
      <4>3. relayOf[d] # r /\ relays[relayOf[d]].port # port
        BY <2>0, <4>1, <4>2
      <4> QED
        BY <2>3, <4>1, <4>2, <4>3
    <3>2. ASSUME NEW p \in RelayPorts, portOf'[p] # NoStream
          PROVE  relayOf'[portOf'[p]] # NoStream /\ relays'[relayOf'[portOf'[p]]].port = p
      <4>1. p # port /\ portOf'[p] = portOf[p] /\ portOf[p] \in SqlDatabases
        BY <2>3, <3>2 DEF RelayTypeOK
      <4>2. relayOf[portOf[p]] # NoStream /\ relays[relayOf[portOf[p]]].port = p
        BY <3>2, <4>1 DEF MapsAgree
      <4>3. portOf[p] # db
        BY <4>1, <4>2 DEF port, r
      <4>4. relayOf'[portOf[p]] = relayOf[portOf[p]] /\ relayOf[portOf[p]] # r
        BY <2>0, <2>3, <4>1, <4>2, <4>3 DEF MapsAgree
      <4> QED
        BY <2>3, <4>1, <4>2, <4>4 DEF RelayTypeOK
    <3> QED
      BY <3>1, <3>2 DEF MapsAgree
  <2>7. CallerKnows'
    <3>1. \A q \in Relays : relays[q].state \notin {"free", "open"} => relays'[q].state \notin {"free", "open"}
      BY <2>3, <2>5
    <3>2. ASSUME NEW b \in SqlCallers
          PROVE  /\ sqlCall'[b].pc # "idle" => sqlCall'[b].db \in SqlDatabases
                 /\ sqlCall'[b].pc = "start" => sqlCall'[b].port \in RelayPorts
                 /\ sqlCall'[b].pc = "cut" \/ sqlCall'[b].pc = "unlisten" =>
                      sqlCall'[b].relay \in Relays
                      /\ relays'[sqlCall'[b].relay].state \notin {"free", "open"}
      <4>1. CASE b = c
        BY <2>0, <2>3, <2>5, <4>1
      <4>2. CASE b # c
        BY <2>3, <3>1, <4>2 DEF CallerKnows
      <4> QED
        BY <4>1, <4>2
    <3> QED
      BY <3>2 DEF CallerKnows
  <2>8. RelayOwned'
    <3>1. sqlStopped.pc = "no" => \A b \in SqlCallers \ {c} :
            (SqlAt(b, "record") \/ SqlAt(b, "stop")) => sqlCall[b].db # db
      BY <2>0 DEF RelayOwned, db
    <3>2. sqlStopped.pc = "no" => sqlSessions[db] = NoStream
      BY <2>0 DEF RelayOwned, db
    <3>3. sqlStopped.pc = "no" => \A d \in SqlDatabases :
            sqlSessions[d] # NoStream => relayOf'[d] # NoStream
      BY <2>3, <3>2 DEF RelayOwned
    <3>4. ASSUME sqlStopped.pc = "no", NEW a \in SqlCallers,
                 sqlCall'[a].pc = "record" \/ sqlCall'[a].pc = "stop"
          PROVE  /\ relayOf'[sqlCall'[a].db] # NoStream /\ sqlSessions[sqlCall'[a].db] = NoStream
                 /\ \A b \in SqlCallers :
                      (sqlCall'[b].pc = "record" \/ sqlCall'[b].pc = "stop")
                      /\ sqlCall'[b].db = sqlCall'[a].db => b = a
      <4>1. a # c /\ sqlCall'[a] = sqlCall[a] /\ sqlCall[a].db \in SqlDatabases
        BY <2>3, <2>5, <3>4 DEF CallerKnows
      <4>2. sqlCall[a].db # db
        BY <3>1, <3>4, <4>1
      <4>3. \A b \in SqlCallers : sqlCall'[b].pc = "record" \/ sqlCall'[b].pc = "stop" =>
               sqlCall'[b] = sqlCall[b]
        BY <2>3, <2>5
      <4> QED
        BY <2>3, <3>4, <4>1, <4>2, <4>3 DEF RelayOwned
    <3> QED
      BY <2>1, <3>3, <3>4 DEF RelayOwned
  <2> QED
    BY <2>4, <2>6, <2>7, <2>8
<1>8. ASSUME NEW c \in SqlCallers, StopFindsNone(c)
      PROVE  RelayInv'
  <2>1. RelayTypeOK'
    BY <1>8 DEF StopFindsNone, NoSqlCall, RelayTypeOK, RelayRows, SqlCallRows, SqlEntries
  <2>2. MapsAgree'
    BY <1>8 DEF StopFindsNone, NoSqlCall, RelayTypeOK, RelayRows, SqlCallRows, MapsAgree, CallerKnows
  <2>3. CallerKnows'
    BY <1>8 DEF StopFindsNone, NoSqlCall, RelayTypeOK, RelayRows, SqlCallRows, MapsAgree, CallerKnows
  <2>4. RelayOwned'
    BY <1>8 DEF StopFindsNone, NoSqlCall, RelayTypeOK, RelayRows, SqlCallRows, MapsAgree, CallerKnows, RelayOwned
  <2> QED
    BY <2>1, <2>2, <2>3, <2>4
<1>9. ASSUME NEW c \in SqlCallers, CutsConnections(c)
      PROVE  RelayInv'
  <2>1. RelayTypeOK'
    <3>0. /\ sqlCall[c].relay \in Relays /\ sqlCall[c] \in SqlCallRows
          /\ relays[sqlCall[c].relay] \in RelayRows
      BY <1>9 DEF CutsConnections, CallerKnows, RelayTypeOK
    <3>1. /\ sqlCall[c].relay \in Relays
          /\ [sqlCall[c] EXCEPT !.pc = "unlisten"] \in SqlCallRows
          /\ [relays[sqlCall[c].relay] EXCEPT !.state = "cut"] \in RelayRows
      BY <3>0 DEF RelayRows, SqlCallRows
    <3> QED
      BY <1>9, <3>1 DEF CutsConnections, RelayTypeOK
  <2>2. MapsAgree'
    BY <1>9 DEF CutsConnections, RelayTypeOK, RelayRows, SqlCallRows, MapsAgree, CallerKnows
  <2>3. CallerKnows'
    BY <1>9 DEF CutsConnections, RelayTypeOK, RelayRows, SqlCallRows, MapsAgree, CallerKnows
  <2>4. RelayOwned'
    BY <1>9 DEF CutsConnections, RelayTypeOK, RelayRows, SqlCallRows, MapsAgree, CallerKnows, RelayOwned
  <2> QED
    BY <2>1, <2>2, <2>3, <2>4
<1>10. ASSUME NEW c \in SqlCallers, ClosesListener(c)
      PROVE  RelayInv'
  <2>1. RelayTypeOK'
    <3>1. /\ sqlCall[c].relay \in Relays /\ NoSqlCall \in SqlCallRows
          /\ [relays[sqlCall[c].relay] EXCEPT !.state = "closed"] \in RelayRows
      BY <1>10 DEF ClosesListener, CallerKnows, RelayTypeOK, RelayRows, SqlCallRows, NoSqlCall
    <3> QED
      BY <1>10, <3>1 DEF ClosesListener, RelayTypeOK
  <2>2. MapsAgree'
    BY <1>10 DEF ClosesListener, NoSqlCall, RelayTypeOK, RelayRows, SqlCallRows, MapsAgree, CallerKnows
  <2>3. CallerKnows'
    BY <1>10 DEF ClosesListener, NoSqlCall, RelayTypeOK, RelayRows, SqlCallRows, MapsAgree, CallerKnows
  <2>4. RelayOwned'
    BY <1>10 DEF ClosesListener, NoSqlCall, RelayTypeOK, RelayRows, SqlCallRows, MapsAgree, CallerKnows, RelayOwned
  <2> QED
    BY <2>1, <2>2, <2>3, <2>4
<1>11. ASSUME stopAll
      PROVE  RelayInv'
  <2>1. RelayTypeOK'
    BY <1>11 DEF stopAll, RelayTypeOK, RelayRows, SqlCallRows, SqlEntries
  <2>2. MapsAgree'
    BY <1>11 DEF stopAll, RelayTypeOK, RelayRows, SqlCallRows, MapsAgree, CallerKnows
  <2>3. CallerKnows'
    BY <1>11 DEF stopAll, RelayTypeOK, RelayRows, SqlCallRows, MapsAgree, CallerKnows
  <2>4. RelayOwned'
    BY <1>11 DEF stopAll, RelayTypeOK, RelayRows, SqlCallRows, MapsAgree, CallerKnows, RelayOwned
  <2> QED
    BY <2>1, <2>2, <2>3, <2>4
<1>12. ASSUME StopAll
      PROVE  RelayInv'
  <2>1. RelayTypeOK'
    <3>1. \A r \in Relays : [relays[r] EXCEPT !.state = IF @ = "open" THEN "closed" ELSE @] \in RelayRows
      BY DEF RelayTypeOK, RelayRows
    <3> QED
      BY <1>12, <3>1 DEF StopAll, RelayTypeOK
  <2>2. MapsAgree'
    BY <1>12 DEF StopAll, RelayTypeOK, RelayRows, SqlCallRows, MapsAgree, CallerKnows
  <2>3. CallerKnows'
    BY <1>12 DEF StopAll, RelayTypeOK, RelayRows, SqlCallRows, MapsAgree, CallerKnows
  <2>4. RelayOwned'
    BY <1>12 DEF StopAll, RelayTypeOK, RelayRows, SqlCallRows, MapsAgree, CallerKnows, RelayOwned
  <2> QED
    BY <2>1, <2>2, <2>3, <2>4
<1>13. ASSUME \/ \E x \in RelayConns : pipe(x) \/ \E r \in Relays : acceptLoop(x, r)
              \/ \E target \in BridgeTargets : ensureGuestBridgeReachability(target)
              \/ StopGuestBridgeRelays
       PROVE  RelayInv'
  BY <1>0, <1>13 DEF pipe, acceptLoop, ensureGuestBridgeReachability, StopGuestBridgeRelays
<1>14. CASE UNCHANGED relayVars
  BY <1>0, <1>14 DEF relayVars
<1> QED
  BY <1>1, <1>2, <1>3, <1>4, <1>5, <1>6, <1>7, <1>8, <1>9, <1>10, <1>11, <1>12, <1>13, <1>14
  DEF RelayNext

----------------------------------------------------------------------------
\* Nothing is open at first.
LEMMA StreamsStart ==
  ASSUME ConsoleInit, RelayInit
  PROVE  ConsoleInv /\ RelayInv
<1> USE StreamsAssumption
<1>1. ConsoleInv
  BY DEF ConsoleInit, ConsoleInv, ConsoleTypeOK, PtyRows, PtyKnown, StreamIsVMs, VMNamesLive
<1>2. NoSqlCall \in SqlCallRows
  BY DEF NoSqlCall, SqlCallRows
<1>3. RelayTypeOK
  BY <1>2 DEF RelayInit, RelayTypeOK, RelayRows
<1>4. MapsAgree /\ CallerKnows /\ RelayOwned
  BY DEF RelayInit, NoSqlCall, MapsAgree, CallerKnows, RelayOwned, SqlAt
<1> QED
  BY <1>1, <1>3, <1>4 DEF RelayInv

\* However consoles are opened, moved between operations, closed and read to
\* their end, one VM has one live console; and until everything is stopped an
\* entry of the connector table has its open relay, whatever calls, idle timers
\* and forced releases are in the middle of starting or draining it.
THEOREM StreamsAreConsistent == StreamsSpec => []StreamsConsistent
<1>1. ConsoleInit /\ RelayInit => ConsoleInv /\ RelayInv
  BY StreamsStart
<1>2. ConsoleInv /\ [ConsoleNext]_consoleVars => ConsoleInv'
  BY ConsoleInduction
<1>3. RelayInv /\ [RelayNext]_relayVars => RelayInv'
  BY RelayInduction
<1>4. ConsoleInv /\ RelayInv => StreamsConsistent
  <2>1. ConsoleInv => OneConsolePerVM
    BY StreamsAssumption DEF ConsoleInv, ConsoleTypeOK, VMNamesLive, OneConsolePerVM
  <2>2. RelayInv => ConnectorHasRelay
    BY DEF RelayInv, RelayTypeOK, MapsAgree, RelayOwned, ConnectorHasRelay
  <2> QED
    BY <2>1, <2>2 DEF StreamsConsistent
<1> QED
  BY <1>1, <1>2, <1>3, <1>4, PTL DEF StreamsSpec, ConsoleSpec, RelaySpec

----------------------------------------------------------------------------
\* The rewriting changes the name and the header's name only, and makes them
\* equal unless the header was sent encoded or they differed before.
LEMMA RewriteKeepsContract ==
  ASSUME NEW r \in Requests, NEW q, q = rewriteIncomingToolCallName(r)
  PROVE  /\ q.method = r.method /\ q.metaVersion = r.metaVersion
         /\ q.headerVersion = r.headerVersion /\ q.headerMethod = r.headerMethod
         /\ q.tasksExtension = r.tasksExtension /\ q.encoded = r.encoded
         /\ r.headerName = r.name /\ ~r.encoded => q.headerName = q.name
<1> DEFINE resolved == ResolveIncomingToolCallName(r.name)
<1>1. CASE r.method # "tools/call" \/ r.name = "absent" \/ resolved = r.name
  BY <1>1 DEF rewriteIncomingToolCallName
<1>2. CASE ~(r.method # "tools/call" \/ r.name = "absent" \/ resolved = r.name)
  <2>1. q = [r EXCEPT !.name = resolved,
               !.headerName = IF r.headerName = "absent" \/ (r.headerName = r.name /\ ~r.encoded)
                                THEN resolved ELSE r.headerName]
    BY <1>2 DEF rewriteIncomingToolCallName
  <2> QED
    BY <2>1 DEF Requests
<1> QED
  BY <1>1, <1>2

\* For any request and either option: a method of the 2026-07-28 surface ends
\* at its handler only under the contract, checked before the rewriting and
\* still true after it (handleMCP, rewriteIncomingToolCallName).
THEOREM ContractIsServed == TransportSpec => []ServedUnderContract
<1>1. TransportInit => ServedUnderContract
  BY DEF TransportInit, ServedUnderContract
<1>2. ASSUME ServedUnderContract, [TransportNext]_transportVars
      PROVE  ServedUnderContract'
  <2>1. ASSUME NEW front \in Fronts, ReceivesRequest(front)
        PROVE  ServedUnderContract'
    BY <2>1 DEF ReceivesRequest, ServedUnderContract
  <2>2. ASSUME NEW r \in Requests, handleMCP(r)
        PROVE  ServedUnderContract'
    <3> DEFINE q == httpRequest'
    <3>1. q = rewriteIncomingToolCallName(r)
      BY <2>2 DEF handleMCP
    <3>2. /\ q.method = r.method /\ q.metaVersion = r.metaVersion
          /\ q.headerVersion = r.headerVersion /\ q.headerMethod = r.headerMethod
          /\ q.tasksExtension = r.tasksExtension /\ q.encoded = r.encoded
          /\ r.headerName = r.name /\ ~r.encoded => q.headerName = q.name
      BY <3>1, RewriteKeepsContract
    <3>3. UNCHANGED legacyAllowed
      BY <2>2 DEF handleMCP
    <3>4. ASSUME httpOutcome' \in {"extension", "sdk"}
          PROVE  skipModernValidation(r) \/ validateModernMCPRequest(r)
      BY <2>2, <3>4 DEF handleMCP
    <3>5. ASSUME skipModernValidation(r)
          PROVE  /\ legacyAllowed /\ ~isModernOnlyMethod(r.method) /\ r.method # "tasks/get"
                 /\ r.method = "initialize" \/ ~isModernMCPRequest(r)
      BY <3>5 DEF skipModernValidation, isLegacyCompatibleMethod, isModernOnlyMethod,
                  isRetiredHandshake
    <3>6. isModernOnlyMethod(q.method) <=> isModernOnlyMethod(r.method)
      BY <3>2 DEF isModernOnlyMethod
    <3>7. isModernMCPRequest(q) <=> isModernMCPRequest(r)
      BY <3>2 DEF isModernMCPRequest
    <3>8. ASSUME validateModernMCPRequest(r)
          PROVE  /\ r.metaVersion = "modern" /\ r.headerVersion = "modern"
                 /\ r.headerMethod = "same"
                 /\ r.method = "tools/call" => r.headerName = r.name
                 /\ r.method = "tasks/get" => r.tasksExtension
      BY <3>8 DEF validateModernMCPRequest
    <3> QED
      BY <3>2, <3>3, <3>4, <3>5, <3>6, <3>7, <3>8 DEF ServedUnderContract
  <2>3. CASE UNCHANGED transportVars
    BY <1>2, <2>3 DEF transportVars, ServedUnderContract, isModernOnlyMethod, isModernMCPRequest
  <2> QED
    BY <1>2, <2>1, <2>2, <2>3 DEF TransportNext
<1> QED
  BY <1>1, <1>2, PTL DEF TransportSpec

----------------------------------------------------------------------------
\* What the context keeps.  Only a call about a generation has fibers of it in
\* its hands, so as long as the calls about it do not cross, its fibers are what
\* that call has left, and the owner of the connection is the last of them.
FiberPcs == {"idle", "resolve", "plugin", "apply", "applied", "next", "effects", "remove"}
FiberStates == {"unused", "applying", "provided", "mounted", "disposing", "disposed"}
FiberRecords == [id : PluginKeys, st : FiberStates, conn : 0..MaxFibers]
FiberCalls == [pc : FiberPcs, gen : FiberGens \cup {NoFiber}, service : 1..FiberServices,
               fiber : 0..MaxFibers, ids : SUBSET Fibers, queue : SUBSET Fibers,
               inject : SUBSET PluginKeys, conn : 0..MaxFibers]

\* What a call is at, and the fibers it has still to dispose.
Mounting(c) == fcall[c].pc \in {"resolve", "plugin", "apply", "applied"}
Applying(c) == fcall[c].pc \in {"apply", "applied"}
Marking(c) == fcall[c].pc \in {"effects", "remove"}
Unmounting(c) == fcall[c].pc \in {"next", "effects", "remove"}
InHand(c) == fcall[c].queue \cup {f \in Fibers : Marking(c) /\ fcall[c].fiber = f}
Left(c) == fcall[c].ids \cup InHand(c)

FibersTyped ==
  /\ fibers \in [Fibers -> FiberRecords] /\ fcall \in [FiberActors -> FiberCalls]
  /\ plugins \subseteq Fibers /\ services \subseteq PluginKeys
  /\ applyMu \in FiberActors /\ closedConns \subseteq Fibers
  /\ contextDisposal \in {"no", "running", "done"} /\ crossed \subseteq FiberGens

\* A call that works on a fiber names one, and no run is in a call once the context
\* is being disposed.
CallsTyped ==
  /\ \A c \in FiberActors : Applying(c) \/ Marking(c) => fcall[c].fiber \in Fibers
  /\ \A c \in FiberActors : ~Unmounting(c) => fcall[c].queue = {}
  /\ \A c \in FiberCallers : ~FiberAt(c, "idle") => fcall[c].gen \in FiberGens /\ contextDisposal = "no"
  /\ \A c \in FiberCallers : FiberAt(c, "idle") => fcall[c].gen = NoFiber
  /\ ~Mounting(NoFiber)
  /\ contextDisposal # "running" => FiberAt(NoFiber, "idle")

\* Sequence numbers are given in order.
Numbered == \A f, h \in Fibers : fibers[f].st = "unused" /\ fibers[h].st # "unused" => h < f

\* A fiber that applies is the one of the call that holds applyMu.
OneApplies ==
  /\ \A f \in Fibers : fibers[f].st \in {"applying", "provided"} =>
       \E c \in FiberCallers : Applying(c) /\ fcall[c].fiber = f
  /\ \A c \in FiberCallers : Applying(c) =>
       /\ applyMu = c /\ fibers[fcall[c].fiber].id = MountKey(c)
       /\ fibers[fcall[c].fiber].conn = fcall[c].conn
       /\ fibers[fcall[c].fiber].st = IF fcall[c].pc = "apply" THEN "applying" ELSE "provided"

\* A fiber is disposed by the one call that marked it.
OneDisposes ==
  /\ \A f \in Fibers : fibers[f].st = "disposing" =>
       \E c \in FiberActors : Marking(c) /\ fcall[c].fiber = f
  /\ \A c \in FiberActors : Marking(c) => fibers[fcall[c].fiber].st = "disposing"
  /\ \A c, d \in FiberActors : Marking(c) /\ Marking(d) /\ fcall[c].fiber = fcall[d].fiber => c = d

\* The lists a call took name fibers that were mounted, never one that is applying.
ListsArePast ==
  \A c \in FiberActors : \A f \in fcall[c].ids \cup fcall[c].queue :
     fibers[f].st \in {"mounted", "disposing", "disposed"}

\* A connection is closed by the disposal of its owner, and the host has none.
ClosedByOwner ==
  /\ \A f \in Fibers : fibers[f].id = Host => fibers[f].conn = 0
  /\ \A f \in closedConns : fibers[f].conn = f /\ fibers[f].st \in {"disposing", "disposed"}
  /\ \A f \in Fibers : fibers[f].st = "disposed" /\ fibers[f].conn = f => f \in closedConns
  /\ \A c \in FiberActors : FiberAt(c, "remove") /\ fibers[fcall[c].fiber].conn = fcall[c].fiber =>
       fcall[c].fiber \in closedConns

\* Unless calls crossed, a call holds fibers of its own generation and no other
\* call is about it.
OwnGeneration ==
  /\ \A c \in FiberCallers : \A f \in Left(c) : fibers[f].id[1] \in {fcall[c].gen} \cup crossed
  /\ \A c, d \in FiberCallers : ~FiberAt(c, "idle") /\ ~FiberAt(d, "idle") /\ fcall[c].gen = fcall[d].gen =>
       c = d \/ fcall[c].gen \in crossed

\* The disposal of the context takes every plugin, from the newest to the oldest.
ContextDisposal ==
  /\ contextDisposal = "running" =>
       /\ ProvidedBy = InHand(NoFiber) /\ fcall[NoFiber].ids = {}
       /\ \A h \in fcall[NoFiber].queue :
            fibers[h].st = "mounted" /\ (Marking(NoFiber) => h < fcall[NoFiber].fiber)
  /\ contextDisposal = "done" => \A f \in Fibers : fibers[f].st \in {"unused", "disposed"}

\* What a generation has in the context.
LiveFibers(g) == {f \in Fibers : fibers[f].id[1] = g /\ fibers[f].st \in {"applying", "provided", "mounted", "disposing"}}
KeysOf(g) == {k \in services : k[1] = g}
AllOrNothing(g) == KeysOf(g) \in {{}, {g} \X (1..FiberServices)}

\* The owner of a connection outlives, mounted, whoever shares it.
OwnerStays(g) ==
  \A f \in LiveFibers(g) : fibers[f].conn # f =>
    fibers[f].conn \in LiveFibers(g) /\ fibers[f].conn < f /\ fibers[fibers[f].conn].st = "mounted"

\* A mount has mounted the services before the one it is at, and nothing else of
\* its generation is live.
MountGoesOn(c, g) ==
  \/ fcall[c].service = 1 /\ fcall[c].ids = {} /\ ~Applying(c) /\ AllOrNothing(g)
  \/ /\ ~Applying(c) => fcall[c].service > 1
     /\ LiveFibers(g) = fcall[c].ids \cup {f \in Fibers : Applying(c) /\ fcall[c].fiber = f}
     /\ KeysOf(g) = {g} \X (1..(IF FiberAt(c, "applied") THEN fcall[c].service ELSE fcall[c].service - 1))
     /\ \A f \in fcall[c].ids : fibers[f].st = "mounted" /\ fibers[f].conn = fcall[c].conn
     /\ fcall[c].conn \in LiveFibers(g)

\* A disposal has left what is live of its generation, and goes from the newest to
\* the oldest; when it displaced another generation, its own is untouched.
UnmountGoesOn(c, g) ==
  \/ /\ LiveFibers(g) = Left(c)
     /\ \A f \in fcall[c].ids \cup fcall[c].queue : fibers[f].st = "mounted"
     /\ \A f \in InHand(c) : \A h \in fcall[c].ids : h < f
     /\ \A f, h \in InHand(c) : f = h
     /\ Marking(c) => fcall[c].queue = {}
  \/ (\A f \in Left(c) : fibers[f].id[1] # g) /\ AllOrNothing(g)

\* A generation on which no calls crossed.
GenerationInv(g) ==
  /\ OwnerStays(g)
  /\ \A c \in FiberCallers : fcall[c].gen = g =>
       (Mounting(c) => MountGoesOn(c, g)) /\ (Unmounting(c) => UnmountGoesOn(c, g))
  /\ ~Busy(g) /\ contextDisposal # "running" => AllOrNothing(g)

\* The inductive invariant of the context.
FiberInv ==
  /\ FibersTyped /\ CallsTyped /\ Numbered /\ OneApplies /\ OneDisposes /\ ListsArePast
  /\ OwnedByLiveFiber /\ ClosedByOwner /\ OwnGeneration /\ ContextDisposal
  /\ \A g \in FiberGens \ crossed : GenerationInv(g)
----------------------------------------------------------------------------
\* An agent starts with its own services mounted and no call.
LEMMA FibersStart == FiberInit => FiberInv
<1> SUFFICES ASSUME FiberInit PROVE FiberInv
  OBVIOUS
<1>1. /\ NoFiber \notin FiberGens /\ NoFiber \notin FiberCallers /\ FiberServices \in Nat \ {0}
      /\ MaxFibers \in Nat \ {0}
  BY FiberAssumption
<1>2. /\ \A f \in Fibers : fibers[f] = IF f = 1 THEN [id |-> Host, st |-> "mounted", conn |-> 0] ELSE UnusedFiber
      /\ \A c \in FiberActors : fcall[c] = FiberIdle
  BY DEF FiberInit
<1>3. FibersTyped
  BY <1>1 DEF FibersTyped, FiberInit, FiberRecords, FiberCalls, FiberStates, FiberPcs, FiberIdle,
     UnusedFiber, FiberActors, Fibers, PluginKeys
<1>4. CallsTyped /\ ListsArePast /\ OwnGeneration
  BY <1>1, <1>2 DEF CallsTyped, FiberInit, FiberIdle, Applying, Marking, Mounting, Unmounting, FiberActors, FiberAt, ListsArePast, OwnGeneration, Left, InHand
<1>5. Numbered /\ OneApplies /\ OneDisposes /\ ClosedByOwner /\ ContextDisposal
  BY <1>1, <1>2 DEF Numbered, OneApplies, OneDisposes, ClosedByOwner, ContextDisposal, FiberInit,
     FiberIdle, Applying, Marking, FiberActors, FiberAt, UnusedFiber, Fibers
<1>6. OwnedByLiveFiber
  <2>1. ProvidedBy = {1} /\ 1 \in Fibers /\ fibers[1].id = Host
    BY <1>1, <1>2 DEF ProvidedBy, UnusedFiber, Fibers
  <2>2. {f \in Fibers : fibers[f].st \in {"mounted", "disposing"}} = {1}
    BY <1>1, <1>2 DEF UnusedFiber, Fibers
  <2>3. \A f \in Fibers : fibers[f].st # "applying"
    BY <1>2 DEF UnusedFiber
  <2> QED
    BY <2>1, <2>2, <2>3 DEF OwnedByLiveFiber, FiberInit
<1>7. ASSUME NEW g \in FiberGens PROVE GenerationInv(g)
  <2>1. LiveFibers(g) = {} /\ KeysOf(g) = {}
    BY <1>1, <1>2 DEF LiveFibers, KeysOf, FiberInit, UnusedFiber, Host, Fibers
  <2> QED
    BY <2>1, <1>1, <1>2 DEF GenerationInv, OwnerStays, AllOrNothing, FiberIdle, FiberActors, Mounting, Unmounting
<1> QED
  BY <1>3, <1>4, <1>5, <1>6, <1>7 DEF FiberInv

\* What the context promises follows from the invariant.
LEMMA FibersFollow == FiberInv => FibersConsistent
<1> SUFFICES ASSUME FiberInv PROVE FibersConsistent
  OBVIOUS
<1>1. FibersTyped /\ OwnedByLiveFiber /\ ClosedByOwner /\ ContextDisposal
  BY DEF FiberInv
<1>2. ClosedLast
  <2> SUFFICES ASSUME NEW f \in ProvidedBy, fibers[f].conn \in closedConns, fibers[f].conn # f,
                      fibers[f].id[1] \notin crossed
               PROVE  FALSE
    BY DEF ClosedLast
  <2> DEFINE g == fibers[f].id[1]
  <2>1. f \in Fibers /\ fibers[f] \in FiberRecords /\ fibers[f].conn \in Fibers
    BY <1>1 DEF ProvidedBy, FibersTyped
  <2>2. CASE g \in FiberGens
    <3>1. OwnerStays(g) /\ f \in LiveFibers(g)
      BY <2>1, <2>2 DEF FiberInv, GenerationInv, LiveFibers, ProvidedBy
    <3> QED
      BY <3>1, <1>1 DEF OwnerStays, ClosedByOwner
  <2>3. CASE g \notin FiberGens
    BY <2>1, <2>3, <1>1 DEF FiberRecords, PluginKeys, ClosedByOwner, Fibers
  <2> QED
    BY <2>2, <2>3
<1>3. GenerationWhole
  BY DEF FiberInv, GenerationWhole, GenerationInv, AllOrNothing, KeysOf
<1>4. DisposedContextIsEmpty
  BY <1>1 DEF DisposedContextIsEmpty, ContextDisposal, OwnedByLiveFiber, ProvidedBy, ClosedByOwner
<1> QED
  BY <1>1, <1>2, <1>3, <1>4 DEF FibersConsistent
----------------------------------------------------------------------------
\* A step that is about other generations leaves this one as it was.
LEMMA GenerationKept ==
  ASSUME FiberInv, NEW g \in FiberGens \ crossed,
         \A f \in Fibers : fibers'[f] = fibers[f] \/ (f \notin LiveFibers(g) /\ f \notin LiveFibers(g)'),
         \A f \in Fibers : fibers[f].st # "unused" => fibers'[f].id = fibers[f].id,
         KeysOf(g)' = KeysOf(g),
         \A d \in FiberCallers : fcall[d].gen = g \/ fcall'[d].gen = g => fcall'[d] = fcall[d],
         contextDisposal' # "running" => contextDisposal # "running"
  PROVE  GenerationInv(g)'
<1>1. GenerationInv(g) /\ FibersTyped /\ CallsTyped /\ ListsArePast /\ OneDisposes
  BY DEF FiberInv
<1>2. LiveFibers(g)' = LiveFibers(g)
  BY DEF LiveFibers
<1>3. \A f \in LiveFibers(g) : f \in Fibers /\ fibers'[f] = fibers[f]
  BY DEF LiveFibers
<1>4. AllOrNothing(g)' <=> AllOrNothing(g)
  BY DEF AllOrNothing
<1>5. OwnerStays(g)'
  BY <1>1, <1>2, <1>3 DEF OwnerStays, GenerationInv
<1>6. Busy(g)' <=> Busy(g)
  BY DEF Busy, FiberAt
<1>7. ASSUME NEW c \in FiberCallers, fcall'[c].gen = g, Mounting(c)'
      PROVE  MountGoesOn(c, g)'
  <2>1. fcall'[c] = fcall[c] /\ MountGoesOn(c, g)
    BY <1>7, <1>1 DEF GenerationInv, Mounting
  <2>2. Applying(c)' <=> Applying(c)
    BY <2>1 DEF Applying
  <2>3. CASE fcall[c].ids \subseteq LiveFibers(g)
    BY <2>1, <2>2, <2>3, <1>2, <1>3, <1>4 DEF MountGoesOn, FiberAt
  <2>4. CASE ~(fcall[c].ids \subseteq LiveFibers(g))
    BY <2>1, <2>2, <2>4, <1>4 DEF MountGoesOn
  <2> QED
    BY <2>3, <2>4
<1>8. ASSUME NEW c \in FiberCallers, fcall'[c].gen = g, Unmounting(c)'
      PROVE  UnmountGoesOn(c, g)'
  <2>1. fcall'[c] = fcall[c] /\ UnmountGoesOn(c, g)
    BY <1>8, <1>1 DEF GenerationInv, Unmounting
  <2>2. /\ Marking(c)' <=> Marking(c)
        /\ InHand(c)' = InHand(c) /\ Left(c)' = Left(c)
    BY <2>1 DEF Marking, InHand, Left
  <2>3. CASE LiveFibers(g) = Left(c)
    <3>1. \A f \in fcall[c].ids \cup fcall[c].queue : fibers'[f] = fibers[f]
      BY <2>3, <1>3 DEF Left, InHand
    <3>2. CASE AllOrNothing(g) /\ \A f \in Left(c) : fibers[f].id[1] # g
      <4>1. Left(c) = {}
        BY <3>2, <2>3 DEF LiveFibers
      <4> QED
        BY <4>1, <3>2, <2>2, <1>4 DEF UnmountGoesOn
    <3>3. CASE ~(AllOrNothing(g) /\ \A f \in Left(c) : fibers[f].id[1] # g)
      BY <2>1, <2>2, <2>3, <3>1, <3>3, <1>2 DEF UnmountGoesOn
    <3> QED
      BY <3>2, <3>3
  <2>4. CASE LiveFibers(g) # Left(c)
    <3>1. (\A f \in Left(c) : fibers[f].id[1] # g) /\ AllOrNothing(g)
      BY <2>1, <2>4 DEF UnmountGoesOn
    <3>2. \A f \in Left(c) : f \in Fibers /\ fibers[f].st # "unused"
      BY <1>1 DEF Left, InHand, ListsArePast, OneDisposes, FiberActors, FibersTyped, FiberCalls
    <3>3. \A f \in Left(c) : fibers'[f].id = fibers[f].id
      BY <3>2
    <3> QED
      BY <3>1, <3>3, <2>2, <1>4 DEF UnmountGoesOn
  <2> QED
    BY <2>3, <2>4
<1>9. ~Busy(g)' /\ contextDisposal' # "running" => AllOrNothing(g)'
  BY <1>1, <1>4, <1>6 DEF GenerationInv
<1> QED
  BY <1>5, <1>7, <1>8, <1>9 DEF GenerationInv
----------------------------------------------------------------------------
Quiet == {"idle", "resolve", "plugin", "next"}   \* at work on no fiber

\* The call of c becomes x.
CallBecomes(c, x) ==
  /\ fcall' \in [FiberActors -> FiberCalls]
  /\ \A d \in FiberActors : fcall'[d] = IF d = c THEN x ELSE fcall[d]

\* A step that changes a call only, from one list of what is left to another.
LEMMA TablesKept ==
  ASSUME FiberInv, NEW c \in FiberActors, NEW x \in FiberCalls,
         CallBecomes(c, x), UNCHANGED fiberTables,
         fcall[c].pc \in Quiet, x.pc \in Quiet,
         \A f \in x.ids \cup x.queue : fibers[f].st \in {"mounted", "disposing", "disposed"},
         contextDisposal' \in {"no", "running", "done"}, crossed' \subseteq FiberGens
  PROVE  /\ FibersTyped' /\ Numbered' /\ OneApplies' /\ OneDisposes' /\ ListsArePast'
         /\ OwnedByLiveFiber' /\ ClosedByOwner'
<1>1. /\ FibersTyped /\ Numbered /\ OneApplies /\ OneDisposes /\ ListsArePast /\ OwnedByLiveFiber
      /\ ClosedByOwner
  BY DEF FiberInv
<1>2. /\ fibers' = fibers /\ plugins' = plugins /\ services' = services /\ applyMu' = applyMu
      /\ closedConns' = closedConns
  BY DEF fiberTables
<1>3. fcall' \in [FiberActors -> FiberCalls] /\ \A d \in FiberActors : fcall'[d] = IF d = c THEN x ELSE fcall[d]
  BY DEF CallBecomes
<1>4. \A d \in FiberActors : (Applying(d)' <=> Applying(d)) /\ (Marking(d)' <=> Marking(d))
                             /\ (Applying(d) \/ Marking(d) => fcall'[d] = fcall[d])
  BY <1>3 DEF Applying, Marking, Quiet
<1>5. FibersTyped'
  BY <1>1, <1>2, <1>3 DEF FibersTyped
<1>6. Numbered' /\ OwnedByLiveFiber'
  BY <1>1, <1>2 DEF Numbered, OwnedByLiveFiber, ProvidedBy
<1>7. OneApplies'
  <2>1. \A d \in FiberCallers : (Applying(d)' <=> Applying(d))
                               /\ (Applying(d) => fcall'[d] = fcall[d] /\ MountKey(d)' = MountKey(d))
    BY <1>4 DEF FiberActors, MountKey
  <2> QED
    BY <1>1, <1>2, <2>1 DEF OneApplies
<1>8. OneDisposes'
  BY <1>1, <1>2, <1>4 DEF OneDisposes
<1>9. ListsArePast'
  BY <1>1, <1>2, <1>3 DEF ListsArePast
<1>10. ClosedByOwner'
  <2>1. \A d \in FiberActors : FiberAt(d, "remove")' => FiberAt(d, "remove") /\ fcall'[d] = fcall[d]
    BY <1>3 DEF FiberAt, Quiet
  <2> QED
    BY <2>1, <1>1, <1>2 DEF ClosedByOwner
<1> QED
  BY <1>5, <1>6, <1>7, <1>8, <1>9, <1>10

\* The same for a caller: what is left to show is that its own generation is
\* in order.
LEMMA FiberCallerMoves ==
  ASSUME FiberInv, NEW c \in FiberCallers, NEW x \in FiberCalls,
         CallBecomes(c, x), UNCHANGED <<fiberTables, contextDisposal>>,
         contextDisposal = "no", crossed \subseteq crossed', crossed' \subseteq FiberGens,
         fcall[c].pc \in Quiet, x.pc \in Quiet,
         \A f \in x.ids \cup x.queue : /\ fibers[f].st \in {"mounted", "disposing", "disposed"}
                                       /\ fibers[f].id[1] \in {x.gen} \cup crossed',
         x.pc # "next" => x.queue = {},
         IF x.pc = "idle" THEN x.gen = NoFiber ELSE x.gen \in FiberGens,
         fcall[c].pc # "idle" /\ x.pc # "idle" => x.gen = fcall[c].gen,
         fcall[c].pc = "idle" => (Busy(x.gen) => x.gen \in crossed'),
         \A g \in FiberGens \ crossed' :
           /\ x.gen = g => (Mounting(c)' => MountGoesOn(c, g)') /\ (Unmounting(c)' => UnmountGoesOn(c, g)')
           /\ x.pc = "idle" /\ fcall[c].gen = g => AllOrNothing(g)
  PROVE  FiberInv'
<1> c \in FiberActors /\ NoFiber # c /\ NoFiber \in FiberActors /\ NoFiber \notin FiberGens
  BY FiberAssumption DEF FiberActors
<1>1. FibersTyped /\ CallsTyped /\ OwnGeneration /\ ContextDisposal
  BY DEF FiberInv
<1>2. /\ fibers' = fibers /\ plugins' = plugins /\ services' = services /\ contextDisposal' = "no"
  BY DEF fiberTables
<1>3. \A d \in FiberActors : fcall'[d] = IF d = c THEN x ELSE fcall[d]
  BY DEF CallBecomes
<1>4. /\ FibersTyped' /\ Numbered' /\ OneApplies' /\ OneDisposes' /\ ListsArePast'
      /\ OwnedByLiveFiber' /\ ClosedByOwner'
  BY <1>2, TablesKept
<1>5. CallsTyped'
  <2>1. \A d \in FiberActors \ {c} : fcall'[d] = fcall[d]
    BY <1>3
  <2>2. fcall'[c] = x /\ fcall'[NoFiber] = fcall[NoFiber]
    BY <1>3
  <2> QED
    BY <1>1, <1>2, <2>1, <2>2 DEF CallsTyped, Applying, Marking, Mounting, Unmounting, FiberAt, FiberActors, Quiet
<1>6. InHand(c)' = x.queue /\ \A d \in FiberCallers \ {c} : Left(d)' = Left(d)
  BY <1>3 DEF Left, InHand, Marking, FiberActors, Quiet
<1>7. OwnGeneration'
  <2>1. ASSUME NEW d \in FiberCallers, NEW f \in Left(d)'
        PROVE  fibers'[f].id[1] \in {fcall'[d].gen} \cup crossed'
    BY <2>1, <1>1, <1>2, <1>3, <1>6 DEF OwnGeneration, Left, FiberActors
  <2>2. ASSUME NEW a \in FiberCallers, NEW b \in FiberCallers, ~FiberAt(a, "idle")', ~FiberAt(b, "idle")',
               fcall'[a].gen = fcall'[b].gen, a # b
        PROVE  fcall'[a].gen \in crossed'
    <3>1. \A d \in FiberCallers : fcall'[d] = IF d = c THEN x ELSE fcall[d]
      BY <1>3 DEF FiberActors
    <3>2. CASE a # c /\ b # c
      BY <2>2, <3>1, <3>2, <1>1 DEF OwnGeneration, FiberAt
    <3>3. ASSUME NEW d \in FiberCallers, d # c, ~FiberAt(d, "idle"), fcall[d].gen = x.gen, x.pc # "idle"
          PROVE  x.gen \in crossed'
      BY <3>3, <1>1 DEF OwnGeneration, FiberAt, Busy
    <3>4. x.pc # "idle"  \/ (a # c /\ b # c)
      BY <2>2, <3>1 DEF FiberAt
    <3> QED
      BY <2>2, <3>1, <3>2, <3>3, <3>4 DEF FiberAt
  <2> QED
    BY <2>1, <2>2 DEF OwnGeneration
<1>8. ContextDisposal'
  BY <1>2 DEF ContextDisposal
<1>9. ASSUME NEW g \in FiberGens \ crossed'
      PROVE  GenerationInv(g)'
  <2>1. GenerationInv(g)
    BY DEF FiberInv
  <2>2. LiveFibers(g)' = LiveFibers(g) /\ KeysOf(g)' = KeysOf(g)
    BY <1>2 DEF LiveFibers, KeysOf
  <2>3. CASE g # x.gen /\ g # fcall[c].gen
    <3>1. \A d \in FiberCallers : fcall[d].gen = g \/ fcall'[d].gen = g => fcall'[d] = fcall[d]
      BY <2>3, <1>3 DEF FiberActors
    <3> QED
      BY <3>1, <2>2, <1>2, GenerationKept
  <2>4. CASE g = x.gen \/ g = fcall[c].gen
    <3>1. OwnerStays(g)' /\ (AllOrNothing(g)' <=> AllOrNothing(g))
      BY <2>1, <2>2, <1>2 DEF OwnerStays, GenerationInv, AllOrNothing
    <3>2. \A d \in FiberCallers : fcall'[d].gen = g => d = c
      <4> SUFFICES ASSUME NEW d \in FiberCallers, fcall'[d].gen = g, d # c PROVE FALSE
        OBVIOUS
      <4>1. fcall[d].gen = g /\ ~FiberAt(d, "idle")
        BY <1>1, <1>3 DEF FiberActors, CallsTyped
      <4>2. Busy(g)
        BY <4>1 DEF Busy
      <4>3. CASE fcall[c].pc = "idle"
        BY <4>2, <4>3, <2>4, <1>1 DEF CallsTyped, FiberAt
      <4>4. CASE fcall[c].pc # "idle"
        <5>1. fcall[c].gen = g
          BY <2>4, <4>4, <1>1 DEF CallsTyped, FiberAt
        <5> QED
          BY <5>1, <4>1, <4>4, <1>1 DEF OwnGeneration, FiberAt
      <4> QED
        BY <4>3, <4>4
    <3>3. fcall'[c] = x
      BY <1>3
    <3>4. ~Busy(g)' => AllOrNothing(g)
      <4>1. CASE x.pc = "idle"
        BY <4>1, <2>4
      <4>2. CASE x.pc # "idle"
        <5>1. x.gen = g
          BY <2>4, <4>2, <1>1 DEF CallsTyped, FiberAt
        <5> QED
          BY <5>1, <4>2, <3>3 DEF Busy, FiberAt
      <4> QED
        BY <4>1, <4>2
    <3> QED
      BY <3>1, <3>2, <3>3, <3>4 DEF GenerationInv
  <2> QED
    BY <2>3, <2>4
<1> QED
  BY <1>4, <1>5, <1>7, <1>8, <1>9 DEF FiberInv
----------------------------------------------------------------------------
\* Only a call about a generation has a fiber of it in its hands.
LEMMA HeldByItsCall ==
  ASSUME FiberInv, contextDisposal = "no", NEW g \in FiberGens \ crossed, NEW f \in LiveFibers(g),
         fibers[f].st # "mounted"
  PROVE  \E c \in FiberCallers :
           /\ fcall[c].gen = g /\ fcall[c].fiber = f /\ ~FiberAt(c, "idle")
           /\ IF fibers[f].st = "disposing" THEN Marking(c) ELSE Applying(c)
<1>1. /\ OneApplies /\ OneDisposes /\ OwnGeneration /\ CallsTyped /\ FibersTyped
      /\ f \in Fibers /\ fibers[f].id[1] = g
      /\ fibers[f].st \in {"applying", "provided", "mounted", "disposing"}
  BY DEF FiberInv, LiveFibers
<1>2. CASE fibers[f].st = "disposing"
  <2>1. PICK c \in FiberActors : Marking(c) /\ fcall[c].fiber = f
    BY <1>1, <1>2 DEF OneDisposes
  <2>2. c \in FiberCallers
    BY <2>1, <1>1 DEF CallsTyped, FiberActors, Marking, FiberAt
  <2>3. f \in Left(c)
    BY <2>1, <1>1 DEF Left, InHand
  <2> QED
    BY <2>1, <2>2, <2>3, <1>1, <1>2 DEF OwnGeneration, Marking, FiberAt
<1>3. CASE fibers[f].st # "disposing"
  <2>1. PICK c \in FiberCallers : Applying(c) /\ fcall[c].fiber = f
    BY <1>1, <1>3 DEF OneApplies
  <2>2. fibers[f].id = <<fcall[c].gen, fcall[c].service>>
    BY <2>1, <1>1 DEF OneApplies, MountKey
  <2> QED
    BY <2>1, <2>2, <1>1, <1>3 DEF Applying, FiberAt
<1> QED
  BY <1>2, <1>3

\* A call starts without a fiber in its hands.
LEMMA CallsStart ==
  ASSUME NEW pc \in FiberPcs, NEW g \in FiberGens, NEW S \in SUBSET Fibers
  PROVE  LET x == FiberCall(pc, g, S) IN
         x \in FiberCalls /\ x.pc = pc /\ x.gen = g /\ x.ids = S /\ x.queue = {} /\ x.service = 1
<1>1. 1 \in 1..FiberServices /\ 0 \in 0..MaxFibers
  BY FiberAssumption
<1>2. FiberIdle \in FiberCalls
  BY <1>1 DEF FiberIdle, FiberCalls, FiberPcs
<1>3. FiberCall(pc, g, S) \in FiberCalls
  BY <1>2 DEF FiberCall, FiberCalls
<1> QED
  BY <1>3 DEF FiberCall, FiberIdle

\* A mount begins at the first service, with nothing mounted yet.
LEMMA MountBegins ==
  ASSUME FiberInv, NEW c \in FiberCallers, NEW g \in FiberGens, mountProviderGeneration(c, g)
  PROVE  FiberInv'
<1> DEFINE x == FiberCall("resolve", g, {})
<1>1. /\ fcall[c].pc = "idle" /\ contextDisposal = "no" /\ UNCHANGED <<fiberTables, contextDisposal>>
      /\ fcall' = [fcall EXCEPT ![c] = x] /\ crossed' = crossed \cup {h \in {g} : Busy(h)}
  BY DEF mountProviderGeneration, FiberBegins, FiberAt
<1>2. /\ FibersTyped /\ CallsTyped /\ services' = services /\ c \in FiberActors
      /\ \A d \in FiberCallers : fcall[d].gen = g => ~FiberAt(d, "idle")
  BY <1>1, FiberAssumption DEF FiberInv, fiberTables, CallsTyped, FiberActors
<1>3. /\ x \in FiberCalls /\ x.pc = "resolve" /\ x.gen = g /\ x.ids = {} /\ x.queue = {} /\ x.service = 1
  BY <1>2, CallsStart DEF FiberPcs
<1>4. CallBecomes(c, x) /\ fcall'[c] = x
  BY <1>1, <1>2, <1>3 DEF FibersTyped, CallBecomes
<1> HIDE DEF x
<1>5. crossed \subseteq crossed' /\ crossed' \subseteq FiberGens /\ (Busy(g) => g \in crossed')
  BY <1>1, <1>2 DEF FibersTyped
<1>6. ASSUME NEW h \in FiberGens \ crossed'
      PROVE  x.gen = h => (Mounting(c)' => MountGoesOn(c, h)') /\ (Unmounting(c)' => UnmountGoesOn(c, h)')
  <2> SUFFICES ASSUME h = g PROVE (Mounting(c)' => MountGoesOn(c, h)') /\ ~Unmounting(c)'
    BY <1>3
  <2>1. AllOrNothing(g)
    BY <1>1, <1>5 DEF FiberInv, GenerationInv
  <2> QED
    BY <2>1, <1>2, <1>3, <1>4 DEF MountGoesOn, Unmounting, Applying, AllOrNothing, KeysOf
<1> QED
  BY <1>1, <1>3, <1>4, <1>5, <1>6, FiberCallerMoves DEF Quiet

\* A disposal begins with every plugin of the generation in the table.
LEMMA UnmountBegins ==
  ASSUME FiberInv, NEW c \in FiberCallers, NEW g \in FiberGens, unmountProviderGeneration(c, g)
  PROVE  FiberInv'
<1> DEFINE ids == {f \in plugins : fibers[f].id[1] = g}
           x == FiberCall("next", g, ids)
<1>1. /\ fcall[c].pc = "idle" /\ contextDisposal = "no" /\ UNCHANGED <<fiberTables, contextDisposal>>
      /\ fcall' = [fcall EXCEPT ![c] = x] /\ crossed' = crossed \cup {h \in {g} : Busy(h)}
  BY DEF unmountProviderGeneration, FiberBegins, FiberAt
<1>2. /\ FibersTyped /\ CallsTyped /\ services' = services /\ fibers' = fibers /\ c \in FiberActors
      /\ OwnedByLiveFiber
  BY <1>1, FiberAssumption DEF FiberInv, fiberTables, FiberActors
<1>3. /\ x \in FiberCalls /\ x.pc = "next" /\ x.gen = g /\ x.ids = ids /\ x.queue = {}
  <2>1. ids \in SUBSET Fibers
    BY <1>2 DEF FibersTyped
  <2> HIDE DEF ids
  <2> QED
    BY <2>1, CallsStart DEF FiberPcs
<1>4. CallBecomes(c, x) /\ fcall'[c] = x
  BY <1>1, <1>2, <1>3 DEF FibersTyped, CallBecomes
<1>5. \A f \in ids : f \in Fibers /\ fibers[f].st \in {"mounted", "disposing"} /\ fibers[f].id[1] = g
  BY <1>2 DEF OwnedByLiveFiber
<1> HIDE DEF x
<1>6. crossed \subseteq crossed' /\ crossed' \subseteq FiberGens /\ (Busy(g) => g \in crossed')
  BY <1>1, <1>2 DEF FibersTyped
<1>7. ASSUME g \notin crossed'
      PROVE  UnmountGoesOn(c, g)'
  <2>1. ~Busy(g) /\ g \in FiberGens \ crossed
    BY <1>6, <1>7
  <2>2. \A f \in LiveFibers(g) : fibers[f].st = "mounted"
    BY <2>1, <1>1, HeldByItsCall DEF Busy
  <2>3. LiveFibers(g) = ids
    BY <2>2, <1>2, <1>5 DEF LiveFibers, OwnedByLiveFiber
  <2>4. Left(c)' = ids /\ InHand(c)' = {} /\ ~Marking(c)' /\ LiveFibers(g)' = LiveFibers(g)
    BY <1>2, <1>3, <1>4 DEF Left, InHand, Marking, LiveFibers
  <2> QED
    BY <2>2, <2>3, <2>4, <1>2, <1>3, <1>4 DEF UnmountGoesOn
<1>8. ~Mounting(c)'
  BY <1>3, <1>4 DEF Mounting
<1>9. \A h \in FiberGens \ crossed' :
           /\ x.gen = h => (Mounting(c)' => MountGoesOn(c, h)') /\ (Unmounting(c)' => UnmountGoesOn(c, h)')
           /\ x.pc = "idle" /\ fcall[c].gen = h => AllOrNothing(h)
  BY <1>3, <1>7, <1>8
<1> HIDE DEF ids
<1> QED
  BY <1>1, <1>3, <1>4, <1>5, <1>6, <1>9, FiberCallerMoves DEF Quiet

\* A displacement takes plugins of other generations, and so crosses them.
LEMMA DisplacementBegins ==
  ASSUME FiberInv, NEW c \in FiberCallers, NEW g \in FiberGens, NEW family \in 1..FiberServices,
         displaceCordisCapabilityFamilies(c, g, family)
  PROVE  FiberInv'
<1> DEFINE ids == {f \in plugins : fibers[f].id[1] \in FiberGens \ {g} /\ fibers[f].id[2] = family
                                   /\ fibers[f].id \in services}
           x == FiberCall("next", g, ids)
<1>1. /\ fcall[c].pc = "idle" /\ contextDisposal = "no" /\ UNCHANGED <<fiberTables, contextDisposal>>
      /\ fcall' = [fcall EXCEPT ![c] = x]
      /\ crossed' = crossed \cup {h \in {g} : Busy(h)} \cup {fibers[f].id[1] : f \in ids}
  BY DEF displaceCordisCapabilityFamilies, FiberAt
<1>2. /\ FibersTyped /\ CallsTyped /\ services' = services /\ fibers' = fibers /\ c \in FiberActors
      /\ OwnedByLiveFiber
  BY <1>1, FiberAssumption DEF FiberInv, fiberTables, FiberActors
<1>3. /\ x \in FiberCalls /\ x.pc = "next" /\ x.gen = g /\ x.ids = ids /\ x.queue = {}
  <2>1. ids \in SUBSET Fibers
    BY <1>2 DEF FibersTyped
  <2> HIDE DEF ids
  <2> QED
    BY <2>1, CallsStart DEF FiberPcs
<1>4. CallBecomes(c, x) /\ fcall'[c] = x
  BY <1>1, <1>2, <1>3 DEF FibersTyped, CallBecomes
<1>5. \A f \in ids : /\ f \in Fibers /\ fibers[f].st \in {"mounted", "disposing"}
                     /\ fibers[f].id[1] \in crossed' /\ fibers[f].id[1] # g
  BY <1>1, <1>2 DEF OwnedByLiveFiber
<1>6. crossed \subseteq crossed' /\ crossed' \subseteq FiberGens /\ (Busy(g) => g \in crossed')
  BY <1>1, <1>2 DEF FibersTyped
<1> HIDE DEF x, ids
<1>7. ASSUME g \notin crossed'
      PROVE  UnmountGoesOn(c, g)'
  <2>1. AllOrNothing(g)
    BY <1>1, <1>6, <1>7 DEF FiberInv, GenerationInv
  <2>2. Left(c)' = ids
    BY <1>3, <1>4 DEF Left, InHand, Marking
  <2> QED
    BY <2>1, <2>2, <1>2, <1>5 DEF UnmountGoesOn, AllOrNothing, KeysOf
<1>8. ~Mounting(c)'
  BY <1>3, <1>4 DEF Mounting
<1>9. \A h \in FiberGens \ crossed' :
           /\ x.gen = h => (Mounting(c)' => MountGoesOn(c, h)') /\ (Unmounting(c)' => UnmountGoesOn(c, h)')
           /\ x.pc = "idle" /\ fcall[c].gen = h => AllOrNothing(h)
  BY <1>3, <1>7, <1>8
<1> QED
  BY <1>1, <1>3, <1>4, <1>5, <1>6, <1>9, FiberCallerMoves DEF Quiet

\* A resolution that fails leaves the mount with what it mounted so far to take
\* down.
LEMMA Resolves ==
  ASSUME FiberInv, NEW c \in FiberCallers, resolveProviderServiceDependencies(c)
  PROVE  FiberInv'
<1> DEFINE x == fcall'[c]
<1>1. /\ FibersTyped /\ CallsTyped /\ ListsArePast /\ OwnGeneration /\ c \in FiberActors
      /\ fcall[c] \in FiberCalls /\ fcall[c].pc = "resolve"
  BY DEF FiberInv, FibersTyped, FiberActors, resolveProviderServiceDependencies, FiberAt
<1> PICK g \in FiberGens : fcall[c].gen = g
  BY <1>1 DEF CallsTyped, FiberAt
<1>2. /\ contextDisposal = "no" /\ fcall[c].queue = {} /\ crossed' \subseteq FiberGens
      /\ UNCHANGED <<fiberTables, contextDisposal, crossed>>
  BY <1>1 DEF CallsTyped, FiberAt, Unmounting, FibersTyped, resolveProviderServiceDependencies
<1>3. PICK p \in {"plugin", "next"}, I \in SUBSET PluginKeys :
        fcall' = [fcall EXCEPT ![c].pc = p, ![c].inject = I]
  <2>1. PICK active \in SUBSET FiberGens :
        LET matches == [n \in FiberNeeds[MountKey(c)[2]] |-> injectableServiceFamilies(fcall[c].gen, active, n)] IN
        fcall' = [fcall EXCEPT
         ![c].pc = IF \A n \in DOMAIN matches : Cardinality(matches[n]) = 1 THEN "plugin" ELSE "next",
         ![c].inject = UNION {matches[n] : n \in DOMAIN matches}]
    BY DEF resolveProviderServiceDependencies
  <2> DEFINE matches == [n \in FiberNeeds[MountKey(c)[2]] |-> injectableServiceFamilies(fcall[c].gen, active, n)]
             p == IF \A n \in DOMAIN matches : Cardinality(matches[n]) = 1 THEN "plugin" ELSE "next"
             I == UNION {matches[n] : n \in DOMAIN matches}
  <2>2. p \in {"plugin", "next"}
    OBVIOUS
  <2>3. I \in SUBSET PluginKeys
    <3>1. \A n \in DOMAIN matches : matches[n] \subseteq services
      BY DEF injectableServiceFamilies
    <3> HIDE DEF matches
    <3> QED
      BY <3>1, <1>1 DEF FibersTyped
  <2>4. fcall' = [fcall EXCEPT ![c].pc = p, ![c].inject = I]
    BY <2>1
  <2> HIDE DEF p, I
  <2> QED
    BY <2>2, <2>3, <2>4
<1>4. /\ x \in FiberCalls /\ CallBecomes(c, x) /\ x.pc = p /\ x.gen = g /\ x.service = fcall[c].service
      /\ x.ids = fcall[c].ids /\ x.queue = {} /\ x.conn = fcall[c].conn
  <2>1. fcall' \in [FiberActors -> FiberCalls]
    BY <1>1, <1>3 DEF FibersTyped, FiberCalls, FiberPcs
  <2> QED
    BY <2>1, <1>1, <1>2, <1>3 DEF FibersTyped, FiberCalls, CallBecomes
<1>5. \A f \in x.ids \cup x.queue : /\ fibers[f].st \in {"mounted", "disposing", "disposed"}
                                    /\ fibers[f].id[1] \in {x.gen} \cup crossed'
  BY <1>1, <1>2, <1>4 DEF ListsArePast, OwnGeneration, Left
<1>6. ASSUME g \notin crossed'
      PROVE  (Mounting(c)' => MountGoesOn(c, g)') /\ (Unmounting(c)' => UnmountGoesOn(c, g)')
  <2>1. MountGoesOn(c, g)
    BY <1>1, <1>2, <1>6 DEF FiberInv, GenerationInv, Mounting
  <2>2. /\ fibers' = fibers /\ services' = services /\ LiveFibers(g)' = LiveFibers(g)
        /\ AllOrNothing(g)' <=> AllOrNothing(g)
    <3>1. fibers' = fibers /\ services' = services
      BY <1>2 DEF fiberTables
    <3>2. LiveFibers(g)' = LiveFibers(g) /\ KeysOf(g)' = KeysOf(g)
      BY <3>1 DEF LiveFibers, KeysOf
    <3> QED
      BY <3>1, <3>2 DEF AllOrNothing
  <2>3. /\ ~Applying(c) /\ ~Applying(c)' /\ ~Marking(c)' /\ Left(c)' = fcall[c].ids /\ InHand(c)' = {}
    BY <1>1, <1>3, <1>4 DEF Applying, Marking, Left, InHand
  <2>4. MountGoesOn(c, g)'
    BY <2>1, <2>2, <2>3, <1>1, <1>3, <1>4 DEF MountGoesOn, KeysOf, FiberAt
  <2>5. UnmountGoesOn(c, g)'
    BY <2>1, <2>2, <2>3, <1>1, <1>3, <1>4 DEF MountGoesOn, UnmountGoesOn
  <2> QED
    BY <2>4, <2>5
<1>7. \A h \in FiberGens \ crossed' :
           /\ x.gen = h => (Mounting(c)' => MountGoesOn(c, h)') /\ (Unmounting(c)' => UnmountGoesOn(c, h)')
           /\ x.pc = "idle" /\ fcall[c].gen = h => AllOrNothing(h)
  BY <1>3, <1>4, <1>6
<1> HIDE DEF x
<1> QED
  BY <1>1, <1>2, <1>3, <1>4, <1>5, <1>7, FiberCallerMoves DEF Quiet
\* What a call at work looks like.
LEMMA CallerAtWork ==
  ASSUME FiberInv, NEW c \in FiberCallers, fcall[c].pc # "idle"
  PROVE  /\ c \in FiberActors /\ fcall[c] \in FiberCalls /\ fcall[c].gen \in FiberGens
         /\ contextDisposal = "no" /\ crossed \subseteq FiberGens
         /\ FibersTyped /\ CallsTyped /\ ListsArePast /\ OwnGeneration /\ OwnedByLiveFiber
BY DEF FiberInv, FibersTyped, CallsTyped, FiberAt, FiberActors

\* A plugin that is refused leaves the mount with what it mounted so far.
LEMMA PluginRefused ==
  ASSUME FiberInv, NEW c \in FiberCallers, FiberAt(c, "plugin"), FiberGoes(c, "next"),
         UNCHANGED <<fiberTables, contextDisposal, crossed>>
  PROVE  FiberInv'
<1> DEFINE x == fcall'[c]
<1>1. /\ c \in FiberActors /\ fcall[c] \in FiberCalls /\ fcall[c].gen \in FiberGens
      /\ contextDisposal = "no" /\ crossed' \subseteq FiberGens
      /\ FibersTyped /\ CallsTyped /\ ListsArePast /\ OwnGeneration /\ fcall[c].pc = "plugin"
  BY CallerAtWork DEF FiberAt
<1> PICK g \in FiberGens : fcall[c].gen = g
  BY <1>1
<1>2. fcall[c].queue = {}
  BY <1>1 DEF CallsTyped, Unmounting
<1>3. /\ x \in FiberCalls /\ CallBecomes(c, x) /\ x.pc = "next" /\ x.gen = g
      /\ x.ids = fcall[c].ids /\ x.queue = {}
  <2>1. fcall' \in [FiberActors -> FiberCalls]
    BY <1>1 DEF FibersTyped, FiberCalls, FiberPcs, FiberGoes
  <2> QED
    BY <2>1, <1>1, <1>2 DEF FibersTyped, FiberCalls, CallBecomes, FiberGoes
<1>4. \A f \in x.ids \cup x.queue : /\ fibers[f].st \in {"mounted", "disposing", "disposed"}
                                    /\ fibers[f].id[1] \in {x.gen} \cup crossed'
  BY <1>1, <1>3 DEF ListsArePast, OwnGeneration, Left
<1>5. ASSUME g \notin crossed'
      PROVE  ~Mounting(c)' /\ UnmountGoesOn(c, g)'
  <2>1. MountGoesOn(c, g)
    BY <1>1, <1>5 DEF FiberInv, GenerationInv, Mounting
  <2>2. fibers' = fibers /\ services' = services
    BY DEF fiberTables
  <2>3. LiveFibers(g)' = LiveFibers(g) /\ (AllOrNothing(g)' <=> AllOrNothing(g))
    BY <2>2 DEF LiveFibers, AllOrNothing, KeysOf
  <2>4. /\ ~Applying(c) /\ ~Mounting(c)' /\ ~Marking(c)' /\ Left(c)' = fcall[c].ids /\ InHand(c)' = {}
    BY <1>1, <1>3 DEF Applying, Mounting, Marking, Left, InHand
  <2> QED
    BY <2>1, <2>2, <2>3, <2>4, <1>3 DEF MountGoesOn, UnmountGoesOn
<1>6. \A h \in FiberGens \ crossed' :
           /\ x.gen = h => (Mounting(c)' => MountGoesOn(c, h)') /\ (Unmounting(c)' => UnmountGoesOn(c, h)')
           /\ x.pc = "idle" /\ fcall[c].gen = h => AllOrNothing(h)
  BY <1>3, <1>5
<1> HIDE DEF x
<1> QED
  BY <1>1, <1>3, <1>4, <1>6, FiberCallerMoves DEF Quiet

\* A disposal goes on with the newest of the plugins left.
LEMMA CallerLooksUp ==
  ASSUME FiberInv, NEW c \in FiberCallers, DisposePlugin(c)
  PROVE  FiberInv'
<1> DEFINE x == fcall'[c]
<1>1. /\ c \in FiberActors /\ fcall[c] \in FiberCalls /\ fcall[c].gen \in FiberGens
      /\ contextDisposal = "no" /\ crossed' \subseteq FiberGens
      /\ FibersTyped /\ CallsTyped /\ ListsArePast /\ OwnGeneration /\ OwnedByLiveFiber
      /\ fcall[c].pc = "next" /\ fcall[c].queue = {}
      /\ UNCHANGED <<fiberTables, contextDisposal, crossed>>
  BY CallerAtWork DEF DisposePlugin, FiberAt
<1> PICK g \in FiberGens : fcall[c].gen = g
  BY <1>1
<1>2. PICK f \in Fibers :
        /\ LastMounted(fcall[c].ids, f)
        /\ fcall' = [fcall EXCEPT ![c].ids = @ \ {f}, ![c].queue = {h \in plugins : fibers[h].id = fibers[f].id}]
  BY DEF DisposePlugin
<1>3. PICK Q \in SUBSET Fibers : Q = {h \in plugins : fibers[h].id = fibers[f].id}
  BY <1>1 DEF FibersTyped
<1>4. /\ x \in FiberCalls /\ CallBecomes(c, x) /\ x.pc = "next" /\ x.gen = g
      /\ x.ids = fcall[c].ids \ {f} /\ x.queue = Q
  <2>1. fcall' \in [FiberActors -> FiberCalls]
    BY <1>1, <1>2, <1>3 DEF FibersTyped, FiberCalls
  <2> QED
    BY <2>1, <1>1, <1>2, <1>3 DEF FibersTyped, FiberCalls, CallBecomes
<1>5. f \in fcall[c].ids /\ \A h \in fcall[c].ids : h <= f
  BY <1>2 DEF LastMounted
<1>6. \A h \in x.ids \cup x.queue : /\ fibers[h].st \in {"mounted", "disposing", "disposed"}
                                    /\ fibers[h].id[1] \in {x.gen} \cup crossed'
  <2>1. \A h \in x.ids : /\ fibers[h].st \in {"mounted", "disposing", "disposed"}
                         /\ fibers[h].id[1] \in {x.gen} \cup crossed'
    BY <1>1, <1>4 DEF ListsArePast, OwnGeneration, Left
  <2>2. \A h \in Q : fibers[h].st \in {"mounted", "disposing"} /\ fibers[h].id = fibers[f].id
    BY <1>1, <1>3 DEF OwnedByLiveFiber
  <2>3. fibers[f].id[1] \in {x.gen} \cup crossed'
    BY <1>1, <1>4, <1>5 DEF OwnGeneration, Left
  <2> QED
    BY <2>1, <2>2, <2>3, <1>4
<1>7. ASSUME g \notin crossed'
      PROVE  ~Mounting(c)' /\ UnmountGoesOn(c, g)'
  <2>1. UnmountGoesOn(c, g)
    BY <1>1, <1>7 DEF FiberInv, GenerationInv, Unmounting
  <2>2. fibers' = fibers /\ services' = services
    BY <1>1 DEF fiberTables
  <2>3. LiveFibers(g)' = LiveFibers(g) /\ (AllOrNothing(g)' <=> AllOrNothing(g))
    BY <2>2 DEF LiveFibers, AllOrNothing, KeysOf
  <2>4. /\ ~Mounting(c)' /\ ~Marking(c)' /\ Left(c) = fcall[c].ids /\ InHand(c) = {}
        /\ Left(c)' = (fcall[c].ids \ {f}) \cup Q /\ InHand(c)' = Q
    BY <1>1, <1>4 DEF Mounting, Marking, Left, InHand
  <2>5. CASE LiveFibers(g) = Left(c) /\ \A h \in fcall[c].ids \cup fcall[c].queue : fibers[h].st = "mounted"
    <3>1. f \in plugins /\ f \in ProvidedBy
      BY <2>5, <1>1, <1>5 DEF OwnedByLiveFiber, ProvidedBy
    <3>2. \A h \in Q : h = f
      BY <3>1, <1>1, <1>3 DEF OwnedByLiveFiber, ProvidedBy
    <3>3. Q = {f}
      BY <3>1, <3>2, <1>3
    <3>4. (fcall[c].ids \ {f}) \cup Q = fcall[c].ids
      BY <3>3, <1>5
    <3>5. \A h \in fcall[c].ids \ {f} : h < f
      BY <1>1, <1>5 DEF Fibers, FiberCalls
    <3> QED
      BY <3>3, <3>4, <3>5, <2>2, <2>3, <2>4, <2>5, <1>4 DEF UnmountGoesOn
  <2>6. CASE (\A h \in Left(c) : fibers[h].id[1] # g) /\ AllOrNothing(g)
    <3>1. \A h \in Left(c)' : fibers[h].id[1] # g
      BY <2>4, <2>6, <1>3, <1>5
    <3>2. \A h \in Left(c)' : fibers'[h].id[1] # g
      BY <3>1, <2>2
    <3>3. AllOrNothing(g)'
      BY <2>3, <2>6
    <3> QED
      BY <3>2, <3>3, <2>4 DEF UnmountGoesOn
  <2> QED
    BY <2>1, <2>4, <2>5, <2>6 DEF UnmountGoesOn
<1>8. \A h \in FiberGens \ crossed' :
           /\ x.gen = h => (Mounting(c)' => MountGoesOn(c, h)') /\ (Unmounting(c)' => UnmountGoesOn(c, h)')
           /\ x.pc = "idle" /\ fcall[c].gen = h => AllOrNothing(h)
  BY <1>4, <1>7
<1> HIDE DEF x
<1> QED
  BY <1>1, <1>4, <1>6, <1>8, FiberCallerMoves DEF Quiet

\* A fiber that another call has marked is left to that call.
LEMMA CallerSkips ==
  ASSUME FiberInv, NEW c \in FiberCallers, NEW f \in Fibers,
         FiberAt(c, "next"), f \in fcall[c].queue, fibers[f].st \in {"disposing", "disposed"},
         fcall' = [fcall EXCEPT ![c].queue = @ \ {f}],
         UNCHANGED <<fiberTables, contextDisposal, crossed>>
  PROVE  FiberInv'
<1> DEFINE x == fcall'[c]
<1>1. /\ c \in FiberActors /\ fcall[c] \in FiberCalls /\ fcall[c].gen \in FiberGens
      /\ contextDisposal = "no" /\ crossed' \subseteq FiberGens
      /\ FibersTyped /\ CallsTyped /\ ListsArePast /\ OwnGeneration
      /\ fcall[c].pc = "next"
  BY CallerAtWork DEF FiberAt
<1> PICK g \in FiberGens : fcall[c].gen = g
  BY <1>1
<1>2. /\ x \in FiberCalls /\ CallBecomes(c, x) /\ x.pc = "next" /\ x.gen = g
      /\ x.ids = fcall[c].ids /\ x.queue = fcall[c].queue \ {f}
  <2>1. fcall' \in [FiberActors -> FiberCalls]
    BY <1>1 DEF FibersTyped, FiberCalls
  <2> QED
    BY <2>1, <1>1 DEF FibersTyped, FiberCalls, CallBecomes
<1>3. \A h \in x.ids \cup x.queue : /\ fibers[h].st \in {"mounted", "disposing", "disposed"}
                                    /\ fibers[h].id[1] \in {x.gen} \cup crossed'
  BY <1>1, <1>2 DEF ListsArePast, OwnGeneration, Left, InHand
<1>4. ASSUME g \notin crossed'
      PROVE  ~Mounting(c)' /\ UnmountGoesOn(c, g)'
  <2>1. UnmountGoesOn(c, g)
    BY <1>1, <1>4 DEF FiberInv, GenerationInv, Unmounting
  <2>2. (\A h \in Left(c) : fibers[h].id[1] # g) /\ AllOrNothing(g)
    BY <2>1 DEF UnmountGoesOn
  <2>3. fibers' = fibers /\ services' = services
    BY DEF fiberTables
  <2>4. AllOrNothing(g)'
    BY <2>2, <2>3 DEF AllOrNothing, KeysOf
  <2>5. ~Mounting(c)' /\ ~Marking(c)' /\ Left(c)' \subseteq Left(c)
    BY <1>1, <1>2 DEF Mounting, Marking, Left, InHand
  <2>6. \A h \in Left(c)' : fibers'[h].id[1] # g
    BY <2>2, <2>3, <2>5
  <2> QED
    BY <2>4, <2>5, <2>6 DEF UnmountGoesOn
<1>5. \A h \in FiberGens \ crossed' :
           /\ x.gen = h => (Mounting(c)' => MountGoesOn(c, h)') /\ (Unmounting(c)' => UnmountGoesOn(c, h)')
           /\ x.pc = "idle" /\ fcall[c].gen = h => AllOrNothing(h)
  BY <1>2, <1>4
<1> HIDE DEF x
<1> QED
  BY <1>1, <1>2, <1>3, <1>5, FiberCallerMoves DEF Quiet

\* A call that returns has taken down all it had to, or mounted every service.
LEMMA CallerReturns ==
  ASSUME FiberInv, NEW c \in FiberCallers, DisposalReturns(c)
  PROVE  FiberInv'
<1>1. /\ c \in FiberActors /\ fcall[c] \in FiberCalls /\ fcall[c].gen \in FiberGens
      /\ contextDisposal = "no" /\ crossed' \subseteq FiberGens
      /\ FibersTyped /\ CallsTyped /\ ListsArePast /\ OwnGeneration /\ OwnedByLiveFiber
      /\ fcall[c].pc = "next" /\ fcall[c].queue = {} /\ fcall[c].ids = {}
      /\ UNCHANGED <<fiberTables, contextDisposal, crossed>>
  BY CallerAtWork, FiberAssumption DEF DisposalReturns, FiberAt
<1>2. /\ FiberIdle \in FiberCalls /\ CallBecomes(c, FiberIdle)
      /\ FiberIdle.pc = "idle" /\ FiberIdle.gen = NoFiber /\ FiberIdle.ids = {} /\ FiberIdle.queue = {}
  <2>1. 1 \in 1..FiberServices /\ 0 \in 0..MaxFibers
    BY FiberAssumption
  <2>2. FiberIdle \in FiberCalls
    BY <2>1 DEF FiberIdle, FiberCalls, FiberPcs
  <2>3. CallBecomes(c, FiberIdle)
    BY <2>2, <1>1 DEF DisposalReturns, FibersTyped, CallBecomes
  <2> QED
    BY <2>2, <2>3 DEF FiberIdle
<1>3. ASSUME NEW g \in FiberGens \ crossed', fcall[c].gen = g
      PROVE  AllOrNothing(g)
  <2>1. UnmountGoesOn(c, g)
    BY <1>1, <1>3 DEF FiberInv, GenerationInv, Unmounting
  <2>2. CASE LiveFibers(g) = Left(c)
    <3>1. LiveFibers(g) = {}
      BY <2>2, <1>1 DEF Left, InHand, Marking
    <3>2. KeysOf(g) = {}
      BY <3>1, <1>1 DEF KeysOf, LiveFibers, OwnedByLiveFiber, ProvidedBy
    <3> QED
      BY <3>2 DEF AllOrNothing
  <2> QED
    BY <2>1, <2>2 DEF UnmountGoesOn
<1>4. \A h \in FiberGens \ crossed' :
           /\ FiberIdle.gen = h => (Mounting(c)' => MountGoesOn(c, h)') /\ (Unmounting(c)' => UnmountGoesOn(c, h)')
           /\ FiberIdle.pc = "idle" /\ fcall[c].gen = h => AllOrNothing(h)
  BY <1>2, <1>3, FiberAssumption
<1> QED
  BY <1>1, <1>2, <1>4, FiberCallerMoves DEF Quiet
----------------------------------------------------------------------------
\* A fiber changes its state, and nothing else of it changes.
FiberBecomes(f, st) ==
  /\ fibers' \in [Fibers -> FiberRecords]
  /\ \A h \in Fibers : /\ fibers'[h].id = fibers[h].id /\ fibers'[h].conn = fibers[h].conn
                       /\ fibers'[h].st = IF h = f THEN st ELSE fibers[h].st
                       /\ h # f => fibers'[h] = fibers[h]

\* A fiber that changes its state keeps its plugin and its connection.
LEMMA StateChanges ==
  ASSUME FibersTyped, NEW f \in Fibers, NEW st \in FiberStates, fibers' = [fibers EXCEPT ![f].st = st]
  PROVE  FiberBecomes(f, st)
<1>1. fibers \in [Fibers -> FiberRecords]
  BY DEF FibersTyped
<1>2. fibers' \in [Fibers -> FiberRecords]
  BY <1>1 DEF FiberRecords
<1> QED
  BY <1>1, <1>2 DEF FiberRecords, FiberBecomes

\* A call goes on, and nothing else of it changes.
LEMMA FiberCallGoes ==
  ASSUME FibersTyped, NEW c \in FiberActors, NEW pc \in FiberPcs, FiberGoes(c, pc)
  PROVE  /\ fcall' \in [FiberActors -> FiberCalls]
         /\ fcall'[c].pc = pc /\ fcall'[c].gen = fcall[c].gen /\ fcall'[c].service = fcall[c].service
         /\ fcall'[c].fiber = fcall[c].fiber /\ fcall'[c].ids = fcall[c].ids
         /\ fcall'[c].queue = fcall[c].queue /\ fcall'[c].conn = fcall[c].conn
         /\ \A d \in FiberActors \ {c} : fcall'[d] = fcall[d]
<1>1. fcall \in [FiberActors -> FiberCalls]
  BY DEF FibersTyped
<1>2. fcall' \in [FiberActors -> FiberCalls]
  BY <1>1 DEF FiberCalls, FiberGoes
<1> QED
  BY <1>1, <1>2 DEF FiberCalls, FiberGoes

\* A disposal works on fibers of its own generation or of crossed ones.
LEMMA OthersKept ==
  ASSUME FiberInv, NEW c \in FiberCallers, fcall[c].pc # "idle", NEW f \in Fibers,
         fibers[f].id[1] \in {fcall[c].gen} \cup crossed,
         NEW g \in FiberGens \ crossed, g # fcall[c].gen,
         \A h \in Fibers : fibers'[h].id = fibers[h].id /\ (h # f => fibers'[h] = fibers[h]),
         KeysOf(g)' = KeysOf(g), fcall'[c].gen # g,
         \A d \in FiberActors \ {c} : fcall'[d] = fcall[d], contextDisposal' = contextDisposal
  PROVE  GenerationInv(g)'
<1>1. fibers[f].id[1] # g
  OBVIOUS
<1>2. \A h \in Fibers : fibers'[h] = fibers[h] \/ (h \notin LiveFibers(g) /\ h \notin LiveFibers(g)')
  BY <1>1 DEF LiveFibers
<1>3. \A d \in FiberCallers : fcall[d].gen = g \/ fcall'[d].gen = g => fcall'[d] = fcall[d]
  BY DEF FiberActors
<1> QED
  BY <1>2, <1>3, GenerationKept

\* The state of an own generation that is left to show.
LEMMA OwnKept ==
  ASSUME FiberInv, NEW c \in FiberCallers, NEW g \in FiberGens \ crossed, fcall[c].gen = g,
         fcall'[c].gen = g \/ (FiberAt(c, "idle")' /\ AllOrNothing(g)'),
         FiberAt(c, "idle")' => fcall'[c].gen # g,
         \A d \in FiberActors \ {c} : fcall'[d] = fcall[d],
         OwnerStays(g)', fcall'[c].gen = g /\ Mounting(c)' => MountGoesOn(c, g)',
         fcall'[c].gen = g /\ Unmounting(c)' => UnmountGoesOn(c, g)'
  PROVE  GenerationInv(g)'
<1>1. OwnGeneration /\ CallsTyped /\ NoFiber # g /\ c \in FiberActors
  BY FiberAssumption DEF FiberInv, FiberActors
<1>2. \A d \in FiberCallers : fcall'[d].gen = g => d = c
  <2> SUFFICES ASSUME NEW d \in FiberCallers, fcall'[d].gen = g, d # c PROVE FALSE
    OBVIOUS
  <2>1. fcall[d].gen = g
    BY DEF FiberActors
  <2> QED
    BY <2>1, <1>1 DEF OwnGeneration, CallsTyped
<1>3. ~Busy(g)' => AllOrNothing(g)'
  BY DEF Busy
<1> QED
  BY <1>2, <1>3 DEF GenerationInv
----------------------------------------------------------------------------
\* fiber.Dispose marks a fiber that nobody has marked.
Marks(c, f) ==
  /\ FiberAt(c, "next") /\ LastMounted(fcall[c].queue, f)
  /\ fibers[f].st \notin {"disposing", "disposed"}
  /\ fcall' = [fcall EXCEPT ![c].pc = "effects", ![c].fiber = f, ![c].queue = @ \ {f}]
  /\ fibers' = [fibers EXCEPT ![f].st = "disposing"]
  /\ UNCHANGED <<plugins, services, applyMu, closedConns, contextDisposal, crossed>>

\* What marking a fiber does to the call: it holds the newest of its queue.
LEMMA MarkedCall ==
  ASSUME FiberInv, NEW c \in FiberActors, NEW f \in Fibers, Marks(c, f)
  PROVE  /\ fcall' \in [FiberActors -> FiberCalls]
         /\ fcall'[c].pc = "effects" /\ fcall'[c].gen = fcall[c].gen /\ fcall'[c].fiber = f
         /\ fcall'[c].ids = fcall[c].ids /\ fcall'[c].queue = fcall[c].queue \ {f}
         /\ \A d \in FiberActors \ {c} : fcall'[d] = fcall[d]
         /\ fibers[f].st = "mounted" /\ f \in fcall[c].queue /\ \A h \in fcall[c].queue : h <= f
<1>1. fcall \in [FiberActors -> FiberCalls] /\ ListsArePast
  BY DEF FiberInv, FibersTyped
<1>2. fcall' \in [FiberActors -> FiberCalls]
  <2>1. f \in 0..MaxFibers /\ fcall[c].queue \ {f} \in SUBSET Fibers
    BY <1>1, FiberAssumption DEF FiberCalls, Fibers
  <2>2. fcall' = [fcall EXCEPT ![c].pc = "effects", ![c].fiber = f, ![c].queue = fcall[c].queue \ {f}]
    BY <1>1 DEF Marks
  <2> DEFINE u == [fcall EXCEPT ![c].pc = "effects"]
             v == [u EXCEPT ![c].fiber = f]
  <2>3. u \in [FiberActors -> FiberCalls]
    BY <1>1 DEF FiberCalls, FiberPcs
  <2>4. v \in [FiberActors -> FiberCalls]
    BY <2>1, <2>3 DEF FiberCalls
  <2>5. u[c].queue = fcall[c].queue /\ v[c].queue = fcall[c].queue
    BY <1>1, <2>3 DEF FiberCalls
  <2>6. fcall' = [v EXCEPT ![c].queue = v[c].queue \ {f}]
    BY <2>2, <2>5
  <2>7. v[c].queue \ {f} \in SUBSET Fibers
    BY <2>1, <2>5
  <2> HIDE DEF v
  <2> QED
    BY <2>4, <2>6, <2>7 DEF FiberCalls
<1>3. f \in fcall[c].queue /\ \A h \in fcall[c].queue : h <= f
  BY DEF Marks, LastMounted
<1>4. fibers[f].st = "mounted"
  BY <1>1, <1>3 DEF ListsArePast, Marks
<1> QED
  BY <1>1, <1>2, <1>3, <1>4 DEF FiberCalls, Marks

\* Marking a fiber keeps what the tables say of fibers and calls.
LEMMA MarkKeepsTables ==
  ASSUME FiberInv, NEW c \in FiberActors, NEW f \in Fibers, Marks(c, f)
  PROVE  /\ FibersTyped' /\ CallsTyped' /\ Numbered' /\ OneApplies' /\ OneDisposes' /\ ListsArePast'
         /\ OwnedByLiveFiber' /\ ClosedByOwner' /\ OwnGeneration' /\ ContextDisposal'
<1>1. /\ FibersTyped /\ CallsTyped /\ Numbered /\ OneApplies /\ OneDisposes /\ ListsArePast
      /\ OwnedByLiveFiber /\ ClosedByOwner /\ OwnGeneration /\ ContextDisposal
  BY DEF FiberInv
<1>2. /\ fcall' \in [FiberActors -> FiberCalls]
      /\ fcall'[c].pc = "effects" /\ fcall'[c].gen = fcall[c].gen /\ fcall'[c].fiber = f
      /\ fcall'[c].ids = fcall[c].ids /\ fcall'[c].queue = fcall[c].queue \ {f}
      /\ \A d \in FiberActors \ {c} : fcall'[d] = fcall[d]
      /\ fibers[f].st = "mounted" /\ f \in fcall[c].queue /\ \A h \in fcall[c].queue : h <= f
  BY MarkedCall
<1>3. /\ fibers' \in [Fibers -> FiberRecords]
      /\ \A h \in Fibers : /\ fibers'[h].id = fibers[h].id /\ fibers'[h].conn = fibers[h].conn
                           /\ fibers'[h].st = IF h = f THEN "disposing" ELSE fibers[h].st
                           /\ h # f => fibers'[h] = fibers[h]
  <2>1. fibers' = [fibers EXCEPT ![f].st = "disposing"] /\ "disposing" \in FiberStates
    BY DEF Marks, FiberStates
  <2> QED
    BY <2>1, <1>1, StateChanges DEF FiberBecomes
<1>4. /\ plugins' = plugins /\ services' = services /\ applyMu' = applyMu /\ closedConns' = closedConns
      /\ contextDisposal' = contextDisposal /\ crossed' = crossed /\ fcall[c].pc = "next"
  BY DEF Marks, FiberAt
<1>5. FibersTyped'
  BY <1>1, <1>2, <1>3, <1>4 DEF FibersTyped
<1>6. CallsTyped'
  <2>1. \A d \in FiberActors : (Mounting(d)' <=> Mounting(d)) /\ (Unmounting(d)' <=> Unmounting(d))
                             /\ (Applying(d)' <=> Applying(d)) /\ (FiberAt(d, "idle")' <=> FiberAt(d, "idle"))
    BY <1>2, <1>4 DEF Mounting, Unmounting, Applying, FiberAt
  <2>2. \A d \in FiberActors : fcall'[d].gen = fcall[d].gen /\ (d # c => (Marking(d)' <=> Marking(d)))
    BY <1>2 DEF Marking
  <2>3. NoFiber \in FiberActors /\ FiberCallers \subseteq FiberActors
    BY DEF FiberActors
  <2>4. \A d \in FiberActors : Applying(d)' \/ Marking(d)' => fcall'[d].fiber \in Fibers
    BY <1>1, <1>2, <2>1, <2>2 DEF CallsTyped
  <2>5. \A d \in FiberActors : ~Unmounting(d)' => fcall'[d].queue = {}
    BY <1>1, <1>2, <2>1 DEF CallsTyped
  <2> QED
    BY <1>1, <1>4, <2>1, <2>2, <2>3, <2>4, <2>5 DEF CallsTyped
<1>7. Numbered'
  BY <1>1, <1>2, <1>3 DEF Numbered
<1>8. OneApplies'
  <2>1. \A d \in FiberCallers : (Applying(d)' <=> Applying(d)) /\ d \in FiberActors
                             /\ (Applying(d) => d # c /\ fcall'[d] = fcall[d] /\ MountKey(d)' = MountKey(d))
    BY <1>2, <1>4 DEF Applying, FiberActors, MountKey
  <2>2. \A d \in FiberCallers : Applying(d) => fcall[d].fiber \in Fibers /\ fcall[d].fiber # f
    BY <2>1, <1>1, <1>2 DEF OneApplies, CallsTyped
  <2> QED
    BY <1>1, <1>3, <1>4, <2>1, <2>2 DEF OneApplies
<1>9. OneDisposes'
  <2>1. \A d \in FiberActors : /\ d # c => (Marking(d)' <=> Marking(d)) /\ fcall'[d] = fcall[d]
                               /\ Marking(c)' /\ ~Marking(c)
    BY <1>2, <1>4 DEF Marking
  <2>2. \A d \in FiberActors : Marking(d) => fcall[d].fiber \in Fibers /\ fcall[d].fiber # f
    BY <1>1, <1>2 DEF OneDisposes, CallsTyped
  <2> QED
    BY <1>1, <1>2, <1>3, <2>1, <2>2 DEF OneDisposes
<1>10. ListsArePast'
  <2>1. \A d \in FiberActors : fcall'[d].ids \cup fcall'[d].queue \subseteq fcall[d].ids \cup fcall[d].queue
    BY <1>2
  <2>2. \A d \in FiberActors : fcall[d].ids \cup fcall[d].queue \subseteq Fibers
    BY <1>1 DEF FibersTyped, FiberCalls
  <2> QED
    BY <1>1, <1>3, <2>1, <2>2 DEF ListsArePast
<1>11. OwnedByLiveFiber'
  <2>1. ProvidedBy' = ProvidedBy /\ f \in ProvidedBy
    BY <1>2, <1>3 DEF ProvidedBy
  <2>2. \A h \in ProvidedBy : fibers'[h].id = fibers[h].id
    BY <1>3 DEF ProvidedBy
  <2>3. {h \in Fibers : fibers'[h].st \in {"mounted", "disposing"}} = {h \in Fibers : fibers[h].st \in {"mounted", "disposing"}}
    BY <1>2, <1>3
  <2> QED
    BY <1>1, <1>2, <1>3, <1>4, <2>1, <2>2, <2>3 DEF OwnedByLiveFiber
<1>12. ClosedByOwner'
  <2>1. \A d \in FiberActors : FiberAt(d, "remove")' => FiberAt(d, "remove") /\ d # c /\ fcall'[d] = fcall[d]
                                 /\ fcall[d].fiber \in Fibers
    BY <1>1, <1>2 DEF FiberAt, CallsTyped, Marking
  <2>2. closedConns \subseteq Fibers
    BY <1>1 DEF FibersTyped
  <2> QED
    BY <1>1, <1>3, <1>4, <2>1, <2>2 DEF ClosedByOwner
<1>13. OwnGeneration'
  <2>1. \A d \in FiberCallers : /\ Left(d)' = Left(d) /\ Left(d) \subseteq Fibers /\ fcall'[d].gen = fcall[d].gen
                                /\ (FiberAt(d, "idle")' <=> FiberAt(d, "idle"))
    <3>1. FiberCallers \subseteq FiberActors
      BY DEF FiberActors
    <3>2. ASSUME NEW d \in FiberActors, d # c PROVE Left(d)' = Left(d) /\ Left(d) \subseteq Fibers
      BY <3>2, <1>1, <1>2 DEF Left, InHand, Marking, FibersTyped, FiberCalls
    <3>3. Left(c)' = Left(c) /\ Left(c) \subseteq Fibers
      BY <1>1, <1>2, <1>4 DEF Left, InHand, Marking, FibersTyped, FiberCalls
    <3> QED
      BY <3>1, <3>2, <3>3, <1>2, <1>4 DEF FiberAt
  <2> QED
    BY <1>1, <1>3, <1>4, <2>1 DEF OwnGeneration
<1>14. ContextDisposal'
  <2>1. ASSUME contextDisposal = "running"
        PROVE  c = NoFiber
    BY <2>1, <1>1, <1>4 DEF CallsTyped, FiberActors, FiberAt
  <2>2. ProvidedBy' = ProvidedBy
    BY <1>2, <1>3 DEF ProvidedBy
  <2>3. contextDisposal # "done"
    BY <1>1, <1>2 DEF ContextDisposal
  <2>4. ASSUME contextDisposal = "running"
        PROVE  /\ InHand(NoFiber)' = InHand(NoFiber) /\ fcall'[NoFiber].ids = {}
               /\ \A h \in fcall'[NoFiber].queue : fibers'[h].st = "mounted" /\ h < fcall'[NoFiber].fiber
    <3>1. c = NoFiber
      BY <2>1, <2>4
    <3>2. InHand(c)' = InHand(c)
      BY <1>2, <1>4 DEF InHand, Marking
    <3>3. fcall[c].queue \subseteq Fibers
      BY <1>1 DEF FibersTyped, FiberCalls
    <3> QED
      BY <3>1, <3>2, <3>3, <2>4, <1>1, <1>2, <1>3 DEF ContextDisposal, Fibers
  <2> QED
    BY <2>2, <2>3, <2>4, <1>1, <1>4 DEF ContextDisposal
<1> QED
  BY <1>5, <1>6, <1>7, <1>8, <1>9, <1>10, <1>11, <1>12, <1>13, <1>14

\* Marking a fiber keeps the invariant, for a run and for the goroutine of Close.
LEMMA MarkKeepsFibers ==
  ASSUME FiberInv, NEW c \in FiberActors, NEW f \in Fibers, Marks(c, f)
  PROVE  FiberInv'
<1>1. /\ FibersTyped /\ CallsTyped /\ OwnedByLiveFiber /\ OwnGeneration /\ ContextDisposal
  BY DEF FiberInv
<1>2. /\ fcall' \in [FiberActors -> FiberCalls]
      /\ fcall'[c].pc = "effects" /\ fcall'[c].gen = fcall[c].gen /\ fcall'[c].fiber = f
      /\ fcall'[c].ids = fcall[c].ids /\ fcall'[c].queue = fcall[c].queue \ {f}
      /\ \A d \in FiberActors \ {c} : fcall'[d] = fcall[d]
      /\ fibers[f].st = "mounted" /\ f \in fcall[c].queue /\ \A h \in fcall[c].queue : h <= f
  BY MarkedCall
<1>3. /\ fibers' \in [Fibers -> FiberRecords]
      /\ \A h \in Fibers : /\ fibers'[h].id = fibers[h].id /\ fibers'[h].conn = fibers[h].conn
                           /\ fibers'[h].st = IF h = f THEN "disposing" ELSE fibers[h].st
                           /\ h # f => fibers'[h] = fibers[h]
  <2>1. fibers' = [fibers EXCEPT ![f].st = "disposing"] /\ "disposing" \in FiberStates
    BY DEF Marks, FiberStates
  <2> QED
    BY <2>1, <1>1, StateChanges DEF FiberBecomes
<1>4. services' = services /\ contextDisposal' = contextDisposal /\ crossed' = crossed /\ fcall[c].pc = "next"
  BY DEF Marks, FiberAt
<1>5. ASSUME NEW g \in FiberGens \ crossed
      PROVE  /\ LiveFibers(g)' = LiveFibers(g) /\ KeysOf(g)' = KeysOf(g)
             /\ (\A h \in LiveFibers(g) : fibers[h].conn = f => h = f) => OwnerStays(g)'
  <2>1. OwnerStays(g)
    BY DEF FiberInv, GenerationInv
  <2>2. LiveFibers(g)' = LiveFibers(g)
    BY <1>2, <1>3 DEF LiveFibers
  <2>3. KeysOf(g)' = KeysOf(g)
    BY <1>4 DEF KeysOf
  <2>4. \A h \in LiveFibers(g) : h \in Fibers
    BY DEF LiveFibers
  <2> QED
    BY <2>1, <2>2, <2>3, <2>4, <1>3 DEF OwnerStays
<1>6. ASSUME NEW g \in FiberGens \ crossed', c \in FiberCallers
      PROVE  GenerationInv(g)'
  <2>1. fibers[f].id[1] \in {fcall[c].gen} \cup crossed
    BY <1>1, <1>2, <1>6 DEF OwnGeneration, Left, InHand
  <2>2. CASE g # fcall[c].gen
    BY <2>1, <2>2, <1>2, <1>3, <1>4, <1>5, <1>6, OthersKept
  <2>3. CASE g = fcall[c].gen
    <3>1. UnmountGoesOn(c, g)
      BY <2>3, <1>4, <1>6 DEF FiberInv, GenerationInv, Unmounting
    <3>2. /\ ~Marking(c) /\ InHand(c) = fcall[c].queue /\ Left(c) = fcall[c].ids \cup fcall[c].queue
          /\ Marking(c)' /\ InHand(c)' = fcall[c].queue /\ Left(c)' = Left(c)
      BY <1>2, <1>4 DEF Marking, InHand, Left
    <3>3. OwnerStays(g)' /\ UnmountGoesOn(c, g)'
      <4>1. CASE /\ LiveFibers(g) = Left(c)
                 /\ \A h \in fcall[c].ids \cup fcall[c].queue : fibers[h].st = "mounted"
                 /\ \A k \in InHand(c) : \A h \in fcall[c].ids : h < k
                 /\ \A k, h \in InHand(c) : k = h
        <5>1. \A h \in LiveFibers(g) : h \in Fibers /\ h <= f
          BY <4>1, <3>2, <1>2 DEF LiveFibers, Fibers
        <5>2. \A h \in LiveFibers(g) : fibers[h].conn # h => fibers[h].conn < h /\ fibers[h].conn \in LiveFibers(g)
          BY <1>4, <1>6 DEF FiberInv, GenerationInv, OwnerStays
        <5>3. \A h \in LiveFibers(g) : fibers[h].conn = f => h = f
          BY <5>1, <5>2, <1>2 DEF Fibers
        <5>4. OwnerStays(g)'
          BY <5>3, <1>4, <1>5, <1>6
        <5>5. fcall[c].queue = {f}
          BY <4>1, <3>2, <1>2
        <5>6. f \notin fcall[c].ids /\ fcall[c].ids \subseteq Fibers
          BY <4>1, <3>2, <5>5, <1>1 DEF Fibers, FibersTyped, FiberCalls
        <5>7. \A h \in fcall'[c].ids \cup fcall'[c].queue : fibers'[h].st = "mounted"
          BY <5>5, <5>6, <4>1, <1>2, <1>3
        <5>8. LiveFibers(g)' = Left(c)' /\ fcall'[c].queue = {}
          BY <5>5, <4>1, <3>2, <1>2, <1>4, <1>5, <1>6
        <5>9. \A k \in InHand(c)' : \A h \in fcall'[c].ids : h < k
          BY <4>1, <3>2, <1>2
        <5>10. \A k, h \in InHand(c)' : k = h
          BY <4>1, <3>2
        <5> QED
          BY <5>4, <5>7, <5>8, <5>9, <5>10 DEF UnmountGoesOn
      <4>2. CASE (\A h \in Left(c) : fibers[h].id[1] # g) /\ AllOrNothing(g)
        <5>1. f \notin LiveFibers(g) /\ OwnerStays(g)
          BY <4>2, <3>2, <1>2, <1>4, <1>6 DEF LiveFibers, FiberInv, GenerationInv
        <5>2. \A h \in LiveFibers(g) : fibers[h].conn = f => h = f
          BY <5>1 DEF OwnerStays
        <5>3. OwnerStays(g)' /\ AllOrNothing(g)'
          BY <5>2, <4>2, <1>4, <1>5, <1>6 DEF AllOrNothing
        <5>4. Left(c) \subseteq Fibers
          BY <3>2, <1>1 DEF FibersTyped, FiberCalls
        <5>5. \A h \in Left(c)' : fibers'[h].id[1] # g
          BY <5>4, <4>2, <3>2, <1>3
        <5> QED
          BY <5>3, <5>5 DEF UnmountGoesOn
      <4> QED
        BY <3>1, <4>1, <4>2 DEF UnmountGoesOn
    <3>4. ~FiberAt(c, "idle")' /\ ~Mounting(c)'
      BY <1>2 DEF FiberAt, Mounting
    <3> QED
      BY <3>3, <3>4, <2>3, <1>2, <1>4, <1>6, OwnKept
  <2> QED
    BY <2>2, <2>3
<1>7. ASSUME NEW g \in FiberGens \ crossed', c \notin FiberCallers
      PROVE  GenerationInv(g)'
  <2>1. c = NoFiber /\ contextDisposal = "running"
    BY <1>1, <1>4, <1>7 DEF FiberActors, CallsTyped, FiberAt
  <2>2. ProvidedBy = fcall[c].queue
    BY <2>1, <1>1, <1>4 DEF ContextDisposal, InHand, Marking
  <2>3. \A d \in FiberCallers : FiberAt(d, "idle") /\ fcall'[d] = fcall[d] /\ fcall[d].gen # g
    BY <2>1, <1>1, <1>2, <1>7, FiberAssumption DEF CallsTyped, FiberActors
  <2>4. \A h \in LiveFibers(g) : h \in ProvidedBy
    <3> SUFFICES ASSUME NEW h \in LiveFibers(g), fibers[h].st = "applying" PROVE FALSE
      BY DEF LiveFibers, ProvidedBy
    <3>1. OneApplies /\ h \in Fibers
      BY DEF FiberInv, LiveFibers
    <3> QED
      BY <3>1, <2>3 DEF OneApplies, Applying, FiberAt
  <2>5. OwnerStays(g)
    BY <1>4, <1>7 DEF FiberInv, GenerationInv
  <2>6. \A h \in LiveFibers(g) : fibers[h].conn = f => h = f
    BY <2>2, <2>4, <2>5, <1>2 DEF OwnerStays, LiveFibers, Fibers
  <2>7. OwnerStays(g)'
    BY <2>6, <1>4, <1>5, <1>7
  <2> QED
    BY <2>1, <2>3, <2>7, <1>4 DEF GenerationInv
<1> QED
  BY <1>6, <1>7, MarkKeepsTables DEF FiberInv
----------------------------------------------------------------------------
\* The effects of a fiber close the connection if it owns one; whoever shares it is
\* gone by then.
LEMMA EffectsKeepFibers ==
  ASSUME FiberInv, NEW c \in FiberActors, DisposeEffects(c)
  PROVE  FiberInv'
<1>1. /\ FibersTyped /\ CallsTyped /\ Numbered /\ OneApplies /\ OneDisposes /\ ListsArePast
      /\ OwnedByLiveFiber /\ ClosedByOwner /\ OwnGeneration /\ ContextDisposal
  BY DEF FiberInv
<1>2. /\ fibers' = fibers /\ plugins' = plugins /\ services' = services /\ applyMu' = applyMu
      /\ contextDisposal' = contextDisposal /\ crossed' = crossed /\ fcall[c].pc = "effects"
      /\ closedConns' = closedConns \cup ({fcall[c].fiber} \cap {fibers[fcall[c].fiber].conn})
      /\ FiberGoes(c, "remove")
  BY DEF DisposeEffects, FiberAt
<1>3. /\ fcall' \in [FiberActors -> FiberCalls]
      /\ fcall'[c].pc = "remove" /\ fcall'[c].gen = fcall[c].gen /\ fcall'[c].fiber = fcall[c].fiber
      /\ fcall'[c].ids = fcall[c].ids /\ fcall'[c].queue = fcall[c].queue
      /\ \A d \in FiberActors \ {c} : fcall'[d] = fcall[d]
  BY <1>1, <1>2, FiberCallGoes DEF FiberPcs
<1>4. /\ fcall[c].fiber \in Fibers /\ fibers[fcall[c].fiber].st = "disposing"
  BY <1>1, <1>2 DEF CallsTyped, OneDisposes, Marking
<1>5. \A d \in FiberActors :
        /\ (Mounting(d)' <=> Mounting(d)) /\ (Unmounting(d)' <=> Unmounting(d)) /\ (Marking(d)' <=> Marking(d))
        /\ (Applying(d)' <=> Applying(d)) /\ (FiberAt(d, "idle")' <=> FiberAt(d, "idle"))
        /\ fcall'[d].fiber = fcall[d].fiber /\ fcall'[d].gen = fcall[d].gen
        /\ fcall'[d].ids = fcall[d].ids /\ fcall'[d].queue = fcall[d].queue
        /\ d # c => fcall'[d] = fcall[d]
  BY <1>2, <1>3 DEF Mounting, Unmounting, Applying, Marking, FiberAt
<1>6. \A d \in FiberActors : InHand(d)' = InHand(d) /\ Left(d)' = Left(d)
  BY <1>5 DEF InHand, Left
<1>7. FiberCallers \subseteq FiberActors /\ NoFiber \in FiberActors
  BY DEF FiberActors
<1>8. FibersTyped'
  BY <1>1, <1>2, <1>3, <1>4 DEF FibersTyped
<1>9. CallsTyped'
  BY <1>1, <1>2, <1>5, <1>7 DEF CallsTyped
<1>10. Numbered' /\ OwnedByLiveFiber'
  BY <1>1, <1>2 DEF Numbered, OwnedByLiveFiber, ProvidedBy
<1>11. OneApplies'
  <2>1. \A d \in FiberCallers : /\ (Applying(d)' <=> Applying(d))
                                /\ Applying(d) => fcall'[d] = fcall[d] /\ MountKey(d)' = MountKey(d)
    BY <1>2, <1>5, <1>7 DEF Applying, MountKey
  <2> QED
    BY <2>1, <1>1, <1>2 DEF OneApplies
<1>12. OneDisposes' /\ ListsArePast'
  BY <1>1, <1>2, <1>5 DEF OneDisposes, ListsArePast
<1>13. ClosedByOwner'
  <2>1. \A d \in FiberActors \ {c} : FiberAt(d, "remove")' <=> FiberAt(d, "remove")
    BY <1>3 DEF FiberAt
  <2> QED
    BY <2>1, <1>1, <1>2, <1>3, <1>4 DEF ClosedByOwner
<1>14. OwnGeneration'
  BY <1>1, <1>2, <1>5, <1>6, <1>7 DEF OwnGeneration
<1>15. ContextDisposal'
  BY <1>1, <1>2, <1>5, <1>6, <1>7 DEF ContextDisposal, ProvidedBy
<1>16. ASSUME NEW g \in FiberGens \ crossed'
       PROVE  GenerationInv(g)'
  <2>1. GenerationInv(g)
    BY <1>2 DEF FiberInv
  <2>2. LiveFibers(g)' = LiveFibers(g) /\ KeysOf(g)' = KeysOf(g)
    BY <1>2 DEF LiveFibers, KeysOf
  <2>3. OwnerStays(g)' /\ (AllOrNothing(g)' <=> AllOrNothing(g)) /\ (Busy(g)' <=> Busy(g))
    BY <2>1, <2>2, <1>2, <1>5, <1>7 DEF OwnerStays, GenerationInv, AllOrNothing, Busy
  <2>4. ASSUME NEW d \in FiberCallers, fcall'[d].gen = g, Mounting(d)'
        PROVE  MountGoesOn(d, g)'
    <3>1. d # c /\ d \in FiberActors
      BY <2>4, <1>3, <1>7 DEF Mounting
    <3>2. MountGoesOn(d, g) /\ fcall'[d] = fcall[d]
      BY <3>1, <2>1, <2>4, <1>5 DEF GenerationInv
    <3> QED
      BY <3>1, <3>2, <2>2, <2>3, <1>2, <1>5 DEF MountGoesOn, FiberAt
  <2>5. ASSUME NEW d \in FiberCallers, fcall'[d].gen = g, Unmounting(d)'
        PROVE  UnmountGoesOn(d, g)'
    <3>1. UnmountGoesOn(d, g)
      BY <2>1, <2>5, <1>5, <1>7 DEF GenerationInv
    <3> QED
      BY <3>1, <2>2, <2>3, <1>2, <1>5, <1>6, <1>7 DEF UnmountGoesOn
  <2> QED
    BY <2>1, <2>3, <2>4, <2>5, <1>2 DEF GenerationInv
<1> QED
  BY <1>8, <1>9, <1>10, <1>11, <1>12, <1>13, <1>14, <1>15, <1>16 DEF FiberInv
----------------------------------------------------------------------------
\* The last critical section of fiber.Dispose, and what it leaves of the fiber.
LEMMA RemovedFiber ==
  ASSUME FiberInv, NEW c \in FiberActors, DisposeRemoves(c), NEW f \in Fibers, f = fcall[c].fiber
  PROVE  /\ f \in Fibers /\ fibers[f].st = "disposing" /\ f \in ProvidedBy /\ FiberGoes(c, "next")
         /\ fibers[f].conn = f => f \in closedConns
         /\ fibers' \in [Fibers -> FiberRecords]
         /\ \A h \in Fibers : /\ fibers'[h].id = fibers[h].id /\ fibers'[h].conn = fibers[h].conn
                              /\ fibers'[h].st = IF h = f THEN "disposed" ELSE fibers[h].st
                              /\ h # f => fibers'[h] = fibers[h]
         /\ fcall' \in [FiberActors -> FiberCalls]
         /\ fcall'[c].pc = "next" /\ fcall'[c].gen = fcall[c].gen
         /\ fcall'[c].ids = fcall[c].ids /\ fcall'[c].queue = fcall[c].queue
         /\ \A d \in FiberActors \ {c} : fcall'[d] = fcall[d]
         /\ services' = services \ {fibers[f].id} /\ plugins' = plugins \ {f}
         /\ applyMu' = applyMu /\ closedConns' = closedConns
         /\ contextDisposal' = contextDisposal /\ crossed' = crossed /\ fcall[c].pc = "remove"
<1>1. FibersTyped /\ CallsTyped /\ OneDisposes /\ ClosedByOwner
  BY DEF FiberInv
<1>2. /\ FiberAt(c, "remove") /\ FiberGoes(c, "next") /\ fibers' = [fibers EXCEPT ![f].st = "disposed"]
      /\ services' = services \ {fibers[f].id} /\ plugins' = plugins \ {f}
      /\ applyMu' = applyMu /\ closedConns' = closedConns
      /\ contextDisposal' = contextDisposal /\ crossed' = crossed /\ fcall[c].pc = "remove"
  BY DEF DisposeRemoves, ReleasedServices, FiberAt
<1>3. f \in Fibers /\ fibers[f].st = "disposing" /\ (fibers[f].conn = f => f \in closedConns)
  BY <1>1, <1>2 DEF CallsTyped, OneDisposes, ClosedByOwner, Marking
<1>4. f \in ProvidedBy
  BY <1>3 DEF ProvidedBy
<1>5. /\ fibers' \in [Fibers -> FiberRecords]
      /\ \A h \in Fibers : /\ fibers'[h].id = fibers[h].id /\ fibers'[h].conn = fibers[h].conn
                           /\ fibers'[h].st = IF h = f THEN "disposed" ELSE fibers[h].st
                           /\ h # f => fibers'[h] = fibers[h]
  <2>1. "disposed" \in FiberStates /\ fibers' = [fibers EXCEPT ![f].st = "disposed"]
    BY <1>2 DEF FiberStates
  <2>2. FiberBecomes(f, "disposed")
    BY <2>1, <1>1, StateChanges
  <2> QED
    BY <2>2 DEF FiberBecomes
<1>6. /\ fcall' \in [FiberActors -> FiberCalls]
      /\ fcall'[c].pc = "next" /\ fcall'[c].gen = fcall[c].gen
      /\ fcall'[c].ids = fcall[c].ids /\ fcall'[c].queue = fcall[c].queue
      /\ \A d \in FiberActors \ {c} : fcall'[d] = fcall[d]
  BY <1>1, <1>2, FiberCallGoes DEF FiberPcs
<1> QED
  BY <1>2, <1>3, <1>4, <1>5, <1>6

\* Taking a fiber out of the tables keeps what they say of the other fibers.
LEMMA RemovalKeepsTables ==
  ASSUME FiberInv, NEW c \in FiberActors, DisposeRemoves(c)
  PROVE  /\ FibersTyped' /\ CallsTyped' /\ Numbered' /\ OneApplies' /\ OneDisposes' /\ ListsArePast'
         /\ OwnedByLiveFiber' /\ ClosedByOwner' /\ OwnGeneration' /\ ContextDisposal'
<1>1. /\ FibersTyped /\ CallsTyped /\ Numbered /\ OneApplies /\ OneDisposes /\ ListsArePast
      /\ OwnedByLiveFiber /\ ClosedByOwner /\ OwnGeneration /\ ContextDisposal
  BY DEF FiberInv
<1> PICK f \in Fibers : f = fcall[c].fiber
  BY <1>1 DEF CallsTyped, Marking, DisposeRemoves, FiberAt
<1>2. /\ f \in Fibers /\ fibers[f].st = "disposing" /\ f \in ProvidedBy
      /\ fibers[f].conn = f => f \in closedConns
      /\ fibers' \in [Fibers -> FiberRecords]
      /\ \A h \in Fibers : /\ fibers'[h].id = fibers[h].id /\ fibers'[h].conn = fibers[h].conn
                           /\ fibers'[h].st = IF h = f THEN "disposed" ELSE fibers[h].st
                           /\ h # f => fibers'[h] = fibers[h]
      /\ fcall' \in [FiberActors -> FiberCalls]
      /\ fcall'[c].pc = "next" /\ fcall'[c].gen = fcall[c].gen
      /\ fcall'[c].ids = fcall[c].ids /\ fcall'[c].queue = fcall[c].queue
      /\ \A d \in FiberActors \ {c} : fcall'[d] = fcall[d]
      /\ services' = services \ {fibers[f].id} /\ plugins' = plugins \ {f}
      /\ applyMu' = applyMu /\ closedConns' = closedConns
      /\ contextDisposal' = contextDisposal /\ crossed' = crossed /\ fcall[c].pc = "remove"
  BY RemovedFiber
<1>3. FiberCallers \subseteq FiberActors /\ NoFiber \in FiberActors
  BY DEF FiberActors
<1>4. \A d \in FiberActors :
        /\ (Mounting(d)' <=> Mounting(d)) /\ (Unmounting(d)' <=> Unmounting(d))
        /\ (Applying(d)' <=> Applying(d)) /\ (FiberAt(d, "idle")' <=> FiberAt(d, "idle"))
        /\ fcall'[d].gen = fcall[d].gen
        /\ fcall'[d].ids = fcall[d].ids /\ fcall'[d].queue = fcall[d].queue
        /\ d # c => fcall'[d] = fcall[d] /\ (Marking(d)' <=> Marking(d))
  BY <1>2 DEF Mounting, Unmounting, Applying, Marking, FiberAt
<1>5. Marking(c) /\ ~Marking(c)' /\ ~Applying(c)
  BY <1>2 DEF Marking, Applying
<1>6. FibersTyped'
  BY <1>1, <1>2 DEF FibersTyped
<1>7. CallsTyped'
  <2>1. \A d \in FiberActors : Applying(d)' \/ Marking(d)' => fcall'[d].fiber \in Fibers
    BY <1>1, <1>4, <1>5 DEF CallsTyped
  <2> QED
    BY <2>1, <1>1, <1>2, <1>3, <1>4 DEF CallsTyped
<1>8. Numbered'
  BY <1>1, <1>2 DEF Numbered
<1>9. OneApplies'
  <2>1. \A d \in FiberCallers : (Applying(d)' <=> Applying(d)) /\ d \in FiberActors
                             /\ (Applying(d) => d # c /\ fcall'[d] = fcall[d] /\ MountKey(d)' = MountKey(d))
    BY <1>3, <1>4, <1>5 DEF MountKey
  <2>2. \A d \in FiberCallers : Applying(d) => fcall[d].fiber \in Fibers /\ fcall[d].fiber # f
    BY <2>1, <1>1, <1>2 DEF OneApplies, CallsTyped
  <2> QED
    BY <1>1, <1>2, <2>1, <2>2 DEF OneApplies
<1>10. OneDisposes'
  <2>1. \A d \in FiberActors : Marking(d)' => d # c /\ Marking(d) /\ fcall'[d] = fcall[d] /\ fcall[d].fiber # f
                                                /\ fcall[d].fiber \in Fibers
    BY <1>1, <1>2, <1>4, <1>5 DEF OneDisposes, CallsTyped
  <2>2. ASSUME NEW h \in Fibers, fibers'[h].st = "disposing"
        PROVE  \E d \in FiberActors : Marking(d)' /\ fcall'[d].fiber = h
    <3>1. h # f /\ fibers[h].st = "disposing"
      BY <1>2, <2>2
    <3>2. PICK d \in FiberActors : Marking(d) /\ fcall[d].fiber = h
      BY <3>1, <1>1 DEF OneDisposes
    <3>3. d # c
      BY <3>1, <3>2
    <3> QED
      BY <3>2, <3>3, <1>4
  <2> QED
    BY <2>1, <2>2, <1>1, <1>2 DEF OneDisposes
<1>11. ListsArePast'
  <2>1. \A d \in FiberActors : fcall[d].ids \cup fcall[d].queue \subseteq Fibers
    BY <1>1 DEF FibersTyped, FiberCalls
  <2> QED
    BY <2>1, <1>1, <1>2, <1>4 DEF ListsArePast
<1>12. ProvidedBy' = ProvidedBy \ {f}
  BY <1>2 DEF ProvidedBy
<1>13. OwnedByLiveFiber'
  <2>1. \A h \in ProvidedBy : h \in Fibers /\ fibers'[h].id = fibers[h].id
    BY <1>2 DEF ProvidedBy
  <2>2. \A h \in ProvidedBy : fibers[h].id = fibers[f].id => h = f
    BY <1>1, <1>2 DEF OwnedByLiveFiber
  <2>3. services' = {fibers'[h].id : h \in ProvidedBy'}
    BY <2>1, <2>2, <1>1, <1>2, <1>12 DEF OwnedByLiveFiber
  <2>4. plugins' = {h \in Fibers : fibers'[h].st \in {"mounted", "disposing"}}
    BY <1>1, <1>2 DEF OwnedByLiveFiber
  <2>5. \A h \in Fibers : fibers'[h].st = "applying" => fibers'[h].id \notin services'
    BY <1>1, <1>2 DEF OwnedByLiveFiber
  <2>6. \A h, k \in ProvidedBy' : fibers'[h].id = fibers'[k].id => h = k
    BY <2>1, <1>1, <1>12 DEF OwnedByLiveFiber
  <2> QED
    BY <2>3, <2>4, <2>5, <2>6 DEF OwnedByLiveFiber
<1>14. ClosedByOwner'
  <2>1. \A d \in FiberActors : FiberAt(d, "remove")' => FiberAt(d, "remove") /\ d # c /\ fcall'[d] = fcall[d]
                                 /\ fcall[d].fiber \in Fibers
    BY <1>1, <1>2 DEF FiberAt, CallsTyped, Marking
  <2>2. closedConns \subseteq Fibers
    BY <1>1 DEF FibersTyped
  <2> QED
    BY <1>1, <1>2, <2>1, <2>2 DEF ClosedByOwner
<1>15. \A d \in FiberActors : /\ Left(d)' \subseteq Left(d) /\ Left(d) \subseteq Fibers
                              /\ InHand(c)' = fcall[c].queue /\ InHand(c) = fcall[c].queue \cup {f}
  <2>1. \A d \in FiberActors : fcall[d].ids \cup fcall[d].queue \subseteq Fibers
    BY <1>1 DEF FibersTyped, FiberCalls
  <2> QED
    BY <2>1, <1>2, <1>4, <1>5 DEF Left, InHand
<1>16. OwnGeneration'
  BY <1>1, <1>2, <1>3, <1>4, <1>15 DEF OwnGeneration
<1>17. ContextDisposal'
  <2>1. ASSUME contextDisposal = "running"
        PROVE  c = NoFiber
    BY <2>1, <1>1, <1>2 DEF CallsTyped, FiberActors, FiberAt
  <2>2. contextDisposal # "done"
    BY <1>1, <1>2 DEF ContextDisposal
  <2>3. ASSUME contextDisposal = "running"
        PROVE  /\ ProvidedBy' = InHand(NoFiber)' /\ fcall'[NoFiber].ids = {}
               /\ \A h \in fcall'[NoFiber].queue : fibers'[h].st = "mounted"
    <3>1. c = NoFiber
      BY <2>1, <2>3
    <3>2. fcall[c].queue \subseteq Fibers
      BY <1>1 DEF FibersTyped, FiberCalls
    <3>3. f \notin fcall[c].queue
      BY <3>1, <2>3, <1>1, <1>2 DEF ContextDisposal
    <3> QED
      BY <3>1, <3>2, <3>3, <2>3, <1>1, <1>2, <1>12, <1>15 DEF ContextDisposal
  <2> QED
    BY <2>1, <2>2, <2>3, <1>2, <1>5 DEF ContextDisposal
<1> QED
  BY <1>6, <1>7, <1>8, <1>9, <1>10, <1>11, <1>13, <1>14, <1>16, <1>17

\* Taking a fiber out of the tables keeps the invariant.
LEMMA RemovalKeepsFibers ==
  ASSUME FiberInv, NEW c \in FiberActors, DisposeRemoves(c)
  PROVE  FiberInv'
<1>1. /\ FibersTyped /\ CallsTyped /\ OwnedByLiveFiber /\ OwnGeneration /\ ContextDisposal
  BY DEF FiberInv
<1> PICK f \in Fibers : f = fcall[c].fiber
  BY <1>1 DEF CallsTyped, Marking, DisposeRemoves, FiberAt
<1>2. /\ f \in Fibers /\ fibers[f].st = "disposing" /\ f \in ProvidedBy
      /\ fibers' \in [Fibers -> FiberRecords]
      /\ \A h \in Fibers : /\ fibers'[h].id = fibers[h].id /\ fibers'[h].conn = fibers[h].conn
                           /\ fibers'[h].st = IF h = f THEN "disposed" ELSE fibers[h].st
                           /\ h # f => fibers'[h] = fibers[h]
      /\ fcall' \in [FiberActors -> FiberCalls]
      /\ fcall'[c].pc = "next" /\ fcall'[c].gen = fcall[c].gen
      /\ fcall'[c].ids = fcall[c].ids /\ fcall'[c].queue = fcall[c].queue
      /\ \A d \in FiberActors \ {c} : fcall'[d] = fcall[d]
      /\ services' = services \ {fibers[f].id}
      /\ contextDisposal' = contextDisposal /\ crossed' = crossed /\ fcall[c].pc = "remove"
  BY RemovedFiber
<1>3. ASSUME NEW g \in FiberGens \ crossed
      PROVE  /\ LiveFibers(g)' = LiveFibers(g) \ {f} /\ OwnerStays(g)'
             /\ fibers[f].id[1] # g => KeysOf(g)' = KeysOf(g)
  <2>1. OwnerStays(g)
    BY DEF FiberInv, GenerationInv
  <2>2. LiveFibers(g)' = LiveFibers(g) \ {f}
    BY <1>2 DEF LiveFibers
  <2>3. fibers[f].id[1] # g => KeysOf(g)' = KeysOf(g)
    BY <1>2 DEF KeysOf
  <2>4. \A h \in LiveFibers(g) : h \in Fibers
    BY DEF LiveFibers
  <2>5. \A h \in LiveFibers(g) : fibers[h].conn # h => fibers[h].conn # f
    BY <2>1, <1>2 DEF OwnerStays
  <2> QED
    BY <2>1, <2>2, <2>3, <2>4, <2>5, <1>2 DEF OwnerStays
<1>4. ASSUME NEW g \in FiberGens \ crossed', c \in FiberCallers
      PROVE  GenerationInv(g)'
  <2>1. f \in Left(c)
    BY <1>2 DEF Left, InHand, Marking
  <2>2. fibers[f].id[1] \in {fcall[c].gen} \cup crossed
    BY <2>1, <1>1, <1>4 DEF OwnGeneration
  <2>3. CASE g # fcall[c].gen
    BY <2>2, <2>3, <1>2, <1>3, <1>4, OthersKept
  <2>4. CASE g = fcall[c].gen
    <3>1. UnmountGoesOn(c, g)
      BY <2>4, <1>2, <1>4 DEF FiberInv, GenerationInv, Unmounting
    <3>2. /\ Marking(c) /\ InHand(c) = fcall[c].queue \cup {f} /\ Left(c) = fcall[c].ids \cup fcall[c].queue \cup {f}
          /\ ~Marking(c)' /\ InHand(c)' = fcall[c].queue /\ Left(c)' = fcall[c].ids \cup fcall[c].queue
      BY <1>2 DEF Marking, InHand, Left
    <3>3. UnmountGoesOn(c, g)'
      <4>1. CASE /\ LiveFibers(g) = Left(c)
                 /\ \A h \in fcall[c].ids \cup fcall[c].queue : fibers[h].st = "mounted"
                 /\ \A k \in InHand(c) : \A h \in fcall[c].ids : h < k
                 /\ fcall[c].queue = {}
        <5>1. f \notin fcall[c].ids /\ fcall[c].ids \subseteq Fibers
          BY <4>1, <3>2, <1>1, <1>2 DEF Fibers, FibersTyped, FiberCalls
        <5>2. LiveFibers(g)' = Left(c)' /\ InHand(c)' = {}
          <6>1. LiveFibers(g)' = Left(c) \ {f}
            BY <4>1, <1>2, <1>3, <1>4
          <6> QED
            BY <6>1, <5>1, <4>1, <3>2
        <5>3. \A h \in fcall'[c].ids \cup fcall'[c].queue : fibers'[h].st = "mounted"
          BY <5>1, <4>1, <1>2
        <5> QED
          BY <5>2, <5>3, <3>2, <1>2, <4>1 DEF UnmountGoesOn
      <4>2. CASE (\A h \in Left(c) : fibers[h].id[1] # g) /\ AllOrNothing(g)
        <5>1. AllOrNothing(g)'
          BY <4>2, <3>2, <1>2, <1>3, <1>4 DEF AllOrNothing
        <5>2. Left(c) \subseteq Fibers /\ Left(c)' \subseteq Left(c)
          BY <3>2, <1>1, <1>2 DEF FibersTyped, FiberCalls
        <5>3. \A h \in Left(c)' : fibers'[h].id[1] # g
          BY <5>2, <4>2, <1>2
        <5> QED
          BY <5>1, <5>3 DEF UnmountGoesOn
      <4> QED
        BY <3>1, <3>2, <4>1, <4>2 DEF UnmountGoesOn
    <3>4. ~FiberAt(c, "idle")' /\ ~Mounting(c)'
      BY <1>2 DEF FiberAt, Mounting
    <3>5. OwnerStays(g)'
      BY <1>2, <1>3, <1>4
    <3> QED
      BY <3>3, <3>4, <3>5, <2>4, <1>2, <1>4, OwnKept
  <2> QED
    BY <2>3, <2>4
<1>5. ASSUME NEW g \in FiberGens \ crossed', c \notin FiberCallers
      PROVE  GenerationInv(g)'
  <2>1. c = NoFiber /\ contextDisposal = "running"
    BY <1>1, <1>2, <1>5 DEF FiberActors, CallsTyped, FiberAt
  <2>2. \A d \in FiberCallers : FiberAt(d, "idle") /\ fcall'[d] = fcall[d] /\ fcall[d].gen # g
    BY <2>1, <1>1, <1>2, <1>5, FiberAssumption DEF CallsTyped, FiberActors
  <2>3. OwnerStays(g)'
    BY <1>2, <1>3, <1>5
  <2> QED
    BY <2>1, <2>2, <2>3, <1>2 DEF GenerationInv
<1> QED
  BY <1>4, <1>5, RemovalKeepsTables DEF FiberInv
----------------------------------------------------------------------------
\* One plugin applies at a time.
LEMMA OneApplier ==
  ASSUME FiberInv, NEW c \in FiberCallers, Applying(c)
  PROVE  /\ \A d \in FiberActors : Applying(d) => d = c
         /\ \A h \in Fibers : fibers[h].st \in {"applying", "provided"} => h = fcall[c].fiber
<1>1. OneApplies /\ CallsTyped
  BY DEF FiberInv
<1>2. \A d \in FiberActors : Applying(d) => d \in FiberCallers
  BY <1>1 DEF CallsTyped, Applying, Mounting, FiberActors
<1> QED
  BY <1>1, <1>2 DEF OneApplies

\* A plugin provides its service while it alone applies.
LEMMA ProvideKeepsFibers ==
  ASSUME FiberInv, NEW c \in FiberCallers, Provide(c)
  PROVE  FiberInv'
<1>1. /\ FibersTyped /\ CallsTyped /\ Numbered /\ OneApplies /\ OneDisposes /\ ListsArePast
      /\ OwnedByLiveFiber /\ ClosedByOwner /\ OwnGeneration /\ ContextDisposal
  BY DEF FiberInv
<1>2. /\ FiberCallers \subseteq FiberActors /\ NoFiber \in FiberActors /\ c \in FiberActors
      /\ fcall[c].pc = "apply" /\ Applying(c) /\ NoFiber # c /\ NoFiber \notin FiberGens
  BY FiberAssumption DEF FiberActors, Provide, Applying, FiberAt
<1> PICK f \in Fibers : f = fcall[c].fiber
  BY <1>1, <1>2 DEF CallsTyped
<1> PICK g \in FiberGens : g = fcall[c].gen
  BY <1>1, <1>2 DEF CallsTyped, FiberAt
<1> PICK s \in 1..FiberServices : s = fcall[c].service
  BY <1>1, <1>2 DEF FibersTyped, FiberCalls
<1>3. /\ services' = services \cup {<<g, s>>} /\ fibers' = [fibers EXCEPT ![f].st = "provided"]
      /\ FiberGoes(c, "applied") /\ plugins' = plugins /\ applyMu' = applyMu /\ closedConns' = closedConns
      /\ contextDisposal' = contextDisposal /\ crossed' = crossed
  BY DEF Provide, MountKey
<1>4. /\ fibers' \in [Fibers -> FiberRecords]
      /\ \A h \in Fibers : /\ fibers'[h].id = fibers[h].id /\ fibers'[h].conn = fibers[h].conn
                           /\ fibers'[h].st = IF h = f THEN "provided" ELSE fibers[h].st
                           /\ h # f => fibers'[h] = fibers[h]
  <2>1. "provided" \in FiberStates /\ fibers' = [fibers EXCEPT ![f].st = "provided"]
    BY <1>3 DEF FiberStates
  <2>2. FiberBecomes(f, "provided")
    BY <2>1, <1>1, StateChanges
  <2> QED
    BY <2>2 DEF FiberBecomes
<1>5. /\ fcall' \in [FiberActors -> FiberCalls]
      /\ fcall'[c].pc = "applied" /\ fcall'[c].gen = g /\ fcall'[c].service = s
      /\ fcall'[c].fiber = f /\ fcall'[c].ids = fcall[c].ids
      /\ fcall'[c].queue = fcall[c].queue /\ fcall'[c].conn = fcall[c].conn
      /\ \A d \in FiberActors \ {c} : fcall'[d] = fcall[d]
  BY <1>1, <1>2, <1>3, FiberCallGoes DEF FiberPcs
<1>6. /\ applyMu = c /\ fibers[f].id = <<g, s>> /\ fibers[f].conn = fcall[c].conn /\ fibers[f].st = "applying"
      /\ contextDisposal = "no"
  BY <1>1, <1>2 DEF OneApplies, MountKey, CallsTyped, FiberAt
<1>7. \A d \in FiberActors :
        /\ (Mounting(d)' <=> Mounting(d)) /\ (Unmounting(d)' <=> Unmounting(d))
        /\ (Applying(d)' <=> Applying(d)) /\ (FiberAt(d, "idle")' <=> FiberAt(d, "idle"))
        /\ (Marking(d)' <=> Marking(d)) /\ (Marking(d) => d # c)
        /\ fcall'[d].gen = fcall[d].gen /\ fcall'[d].fiber = fcall[d].fiber
        /\ fcall'[d].ids = fcall[d].ids /\ fcall'[d].queue = fcall[d].queue
        /\ d # c => fcall'[d] = fcall[d]
  BY <1>2, <1>5 DEF Mounting, Unmounting, Applying, Marking, FiberAt
<1>8. \A d \in FiberActors : InHand(d)' = InHand(d) /\ Left(d)' = Left(d) /\ Left(d) \subseteq Fibers
  BY <1>1, <1>7 DEF InHand, Left, FibersTyped, FiberCalls
<1>9. FibersTyped'
  BY <1>1, <1>2, <1>3, <1>4, <1>5 DEF FibersTyped, PluginKeys
<1>10. CallsTyped'
  BY <1>1, <1>2, <1>3, <1>7 DEF CallsTyped
<1>11. Numbered' /\ ListsArePast'
  <2>1. \A d \in FiberActors : fcall[d].ids \cup fcall[d].queue \subseteq Fibers
    BY <1>1 DEF FibersTyped, FiberCalls
  <2> QED
    BY <2>1, <1>1, <1>4, <1>6, <1>7 DEF Numbered, ListsArePast
<1>12. OneApplies'
  <2>1. \A d \in FiberCallers : Applying(d) => d = c
    BY <1>2, OneApplier
  <2>2. \A h \in Fibers : fibers[h].st \in {"applying", "provided"} => h = f
    BY <1>2, OneApplier
  <2>3. MountKey(c)' = <<g, s>> /\ Applying(c)'
    BY <1>2, <1>5, <1>7 DEF MountKey
  <2> QED
    BY <2>1, <2>2, <2>3, <1>2, <1>3, <1>4, <1>5, <1>6, <1>7 DEF OneApplies
<1>13. OneDisposes'
  BY <1>1, <1>4, <1>6, <1>7 DEF OneDisposes, CallsTyped
<1>14. OwnedByLiveFiber'
  <2>1. ProvidedBy' = ProvidedBy \cup {f} /\ f \notin ProvidedBy
    BY <1>4, <1>6 DEF ProvidedBy
  <2>2. \A h \in ProvidedBy : h \in Fibers /\ fibers'[h].id = fibers[h].id
    BY <1>4 DEF ProvidedBy
  <2>3. services' = {fibers'[h].id : h \in ProvidedBy'}
    <3>1. services = {fibers'[h].id : h \in ProvidedBy} /\ fibers'[f].id = <<g, s>>
      BY <2>2, <1>1, <1>4, <1>6 DEF OwnedByLiveFiber
    <3> QED
      BY <3>1, <2>1, <1>3
  <2>4. plugins' = {h \in Fibers : fibers'[h].st \in {"mounted", "disposing"}}
    BY <1>1, <1>3, <1>4, <1>6 DEF OwnedByLiveFiber
  <2>5. \A h \in Fibers : fibers'[h].st # "applying"
    BY <1>2, <1>4, OneApplier
  <2>6. \A h \in ProvidedBy : fibers[h].id # fibers[f].id
    BY <1>1, <1>6 DEF OwnedByLiveFiber
  <2>7. \A h, k \in ProvidedBy' : fibers'[h].id = fibers'[k].id => h = k
    BY <2>1, <2>2, <2>6, <1>1, <1>4 DEF OwnedByLiveFiber
  <2> QED
    BY <2>3, <2>4, <2>5, <2>7 DEF OwnedByLiveFiber
<1>15. ClosedByOwner'
  <2>1. \A d \in FiberActors : FiberAt(d, "remove")' => FiberAt(d, "remove") /\ d # c /\ fcall'[d] = fcall[d]
                                 /\ fcall[d].fiber \in Fibers
    BY <1>1, <1>5 DEF FiberAt, CallsTyped, Marking
  <2>2. closedConns \subseteq Fibers
    BY <1>1 DEF FibersTyped
  <2> QED
    BY <1>1, <1>3, <1>4, <1>6, <2>1, <2>2 DEF ClosedByOwner
<1>16. OwnGeneration'
  BY <1>1, <1>2, <1>3, <1>4, <1>7, <1>8 DEF OwnGeneration
<1>17. ContextDisposal'
  BY <1>3, <1>6 DEF ContextDisposal
<1>18. ASSUME NEW k \in FiberGens \ crossed'
       PROVE  GenerationInv(k)'
  <2>1. CASE k # g
    <3>1. KeysOf(k)' = KeysOf(k)
      BY <2>1, <1>3 DEF KeysOf
    <3>2. \A h \in Fibers : fibers'[h] = fibers[h] \/ (h \notin LiveFibers(k) /\ h \notin LiveFibers(k)')
      BY <2>1, <1>4, <1>6 DEF LiveFibers
    <3>3. \A d \in FiberCallers : fcall[d].gen = k \/ fcall'[d].gen = k => fcall'[d] = fcall[d]
      BY <2>1, <1>2, <1>7
    <3> QED
      BY <3>1, <3>2, <3>3, <1>3, <1>4, <1>18, GenerationKept
  <2>2. CASE k = g
    <3>1. MountGoesOn(c, g) /\ OwnerStays(g)
      BY <2>2, <1>2, <1>3, <1>18 DEF FiberInv, GenerationInv, Mounting
    <3>2. LiveFibers(g)' = LiveFibers(g) /\ LiveFibers(g) \subseteq Fibers
      BY <1>4, <1>6 DEF LiveFibers
    <3>3. OwnerStays(g)'
      BY <3>1, <3>2, <1>4, <1>6 DEF OwnerStays
    <3>4. KeysOf(g)' = KeysOf(g) \cup {<<g, s>>}
      BY <1>3 DEF KeysOf
    <3>5. {g} \X (1..s) = ({g} \X (1..(s-1))) \cup {<<g, s>>}
      <4>1. s \in Nat /\ s >= 1
        BY FiberAssumption
      <4>2. 1..s = 1..(s-1) \cup {s}
        BY <4>1
      <4> QED
        BY <4>2
    <3>6. /\ LiveFibers(g) = fcall[c].ids \cup {h \in Fibers : h = f}
          /\ KeysOf(g) = {g} \X (1..(s-1))
          /\ \A h \in fcall[c].ids : fibers[h].st = "mounted" /\ fibers[h].conn = fcall[c].conn
          /\ fcall[c].conn \in LiveFibers(g)
      BY <3>1, <1>2 DEF MountGoesOn, FiberAt
    <3>7. \A h \in fcall[c].ids : h \in Fibers /\ h # f
      BY <3>6, <1>6, <3>2
    <3>8. \A h \in fcall'[c].ids : fibers'[h].st = "mounted" /\ fibers'[h].conn = fcall'[c].conn
      BY <3>6, <3>7, <1>4, <1>5
    <3>9. KeysOf(g)' = {g} \X (1..(IF FiberAt(c, "applied")' THEN fcall'[c].service ELSE fcall'[c].service - 1))
      BY <3>4, <3>5, <3>6, <1>5 DEF FiberAt
    <3>10. LiveFibers(g)' = fcall'[c].ids \cup {h \in Fibers : Applying(c)' /\ fcall'[c].fiber = h}
      BY <3>2, <3>6, <1>2, <1>5, <1>7
    <3>11. MountGoesOn(c, g)'
      BY <3>2, <3>6, <3>8, <3>9, <3>10, <1>2, <1>5, <1>7 DEF MountGoesOn
    <3>12. ~FiberAt(c, "idle")' /\ ~Unmounting(c)'
      BY <1>5 DEF FiberAt, Unmounting
    <3> QED
      BY <3>3, <3>11, <3>12, <2>2, <1>3, <1>5, <1>18, OwnKept
  <2> QED
    BY <2>1, <2>2
<1> QED
  BY <1>9, <1>10, <1>11, <1>12, <1>13, <1>14, <1>15, <1>16, <1>17, <1>18 DEF FiberInv
\* The call of a plugin that is mounted: the next service, or done.
LEMMA MountedCall ==
  ASSUME FiberInv, NEW c \in FiberCallers, PluginMounted(c),
         NEW f \in Fibers, f = fcall[c].fiber, NEW s \in 1..FiberServices, s = fcall[c].service
  PROVE  /\ fcall' \in [FiberActors -> FiberCalls]
         /\ \A d \in FiberActors \ {c} : fcall'[d] = fcall[d]
         /\ fcall'[c].queue = {} /\ fcall'[c].ids \subseteq fcall[c].ids \cup {f}
         /\ IF s = FiberServices
            THEN fcall'[c].pc = "idle" /\ fcall'[c].gen = NoFiber /\ fcall'[c].ids = {}
            ELSE /\ fcall'[c].pc = "resolve" /\ fcall'[c].gen = fcall[c].gen /\ fcall'[c].service = s + 1
                 /\ fcall'[c].ids = fcall[c].ids \cup {f} /\ fcall'[c].conn = fcall[c].conn
<1>1. /\ fcall \in [FiberActors -> FiberCalls] /\ c \in FiberActors /\ fcall[c] \in FiberCalls
      /\ fcall[c].queue = {}
  BY DEF FiberInv, FibersTyped, FiberActors, CallsTyped, Unmounting, PluginMounted, FiberAt
<1>2. FiberServices \in Nat \ {0}
  BY FiberAssumption
<1>3. CASE s = FiberServices
  <2>1. fcall' = [fcall EXCEPT ![c] = FiberIdle]
    BY <1>3 DEF PluginMounted
  <2>2. 1 \in 1..FiberServices /\ 0 \in 0..MaxFibers
    BY FiberAssumption
  <2>3. FiberIdle \in FiberCalls
    BY <2>2 DEF FiberIdle, FiberCalls, FiberPcs
  <2>4. fcall'[c] = FiberIdle /\ fcall' \in [FiberActors -> FiberCalls]
    BY <2>1, <2>3, <1>1
  <2>5. FiberIdle.pc = "idle" /\ FiberIdle.gen = NoFiber /\ FiberIdle.ids = {} /\ FiberIdle.queue = {}
    BY DEF FiberIdle
  <2> QED
    BY <2>1, <2>4, <2>5, <1>1, <1>3
<1>4. CASE s # FiberServices
  <2> DEFINE x == [fcall[c] EXCEPT !.pc = "resolve", !.ids = @ \cup {fcall[c].fiber}, !.service = @ + 1]
  <2>1. fcall' = [fcall EXCEPT ![c] = x]
    BY <1>1, <1>4 DEF PluginMounted
  <2>2. s + 1 \in 1..FiberServices /\ fcall[c].ids \cup {f} \in SUBSET Fibers
    BY <1>1, <1>2, <1>4 DEF FiberCalls
  <2>3. x \in FiberCalls
    BY <1>1, <2>2 DEF FiberCalls, FiberPcs
  <2>4. /\ x.pc = "resolve" /\ x.gen = fcall[c].gen /\ x.service = s + 1
        /\ x.ids = fcall[c].ids \cup {f} /\ x.conn = fcall[c].conn /\ x.queue = {}
    BY <1>1 DEF FiberCalls
  <2> HIDE DEF x
  <2> QED
    BY <2>1, <2>3, <2>4, <1>1, <1>4
<1> QED
  BY <1>3, <1>4

\* A plugin that has applied is mounted: it joins what the call would take down.
LEMMA MountedKeepsFibers ==
  ASSUME FiberInv, NEW c \in FiberCallers, PluginMounted(c)
  PROVE  FiberInv'
<1>1. /\ FibersTyped /\ CallsTyped /\ Numbered /\ OneApplies /\ OneDisposes /\ ListsArePast
      /\ OwnedByLiveFiber /\ ClosedByOwner /\ OwnGeneration /\ ContextDisposal
  BY DEF FiberInv
<1>2. /\ FiberCallers \subseteq FiberActors /\ NoFiber \in FiberActors /\ c \in FiberActors
      /\ fcall[c].pc = "applied" /\ Applying(c) /\ NoFiber # c /\ NoFiber \notin FiberGens
  BY FiberAssumption DEF FiberActors, PluginMounted, Applying, FiberAt
<1> PICK f \in Fibers : f = fcall[c].fiber
  BY <1>1, <1>2 DEF CallsTyped
<1> PICK g \in FiberGens : g = fcall[c].gen
  BY <1>1, <1>2 DEF CallsTyped, FiberAt
<1> PICK s \in 1..FiberServices : s = fcall[c].service
  BY <1>1, <1>2 DEF FibersTyped, FiberCalls
<1>3. /\ services' = services /\ fibers' = [fibers EXCEPT ![f].st = "mounted"]
      /\ plugins' = plugins \cup {f} /\ applyMu' = NoFiber /\ closedConns' = closedConns
      /\ contextDisposal' = contextDisposal /\ crossed' = crossed
  BY DEF PluginMounted
<1>4. /\ fibers' \in [Fibers -> FiberRecords]
      /\ \A h \in Fibers : /\ fibers'[h].id = fibers[h].id /\ fibers'[h].conn = fibers[h].conn
                           /\ fibers'[h].st = IF h = f THEN "mounted" ELSE fibers[h].st
                           /\ h # f => fibers'[h] = fibers[h]
  <2>1. "mounted" \in FiberStates /\ fibers' = [fibers EXCEPT ![f].st = "mounted"]
    BY <1>3 DEF FiberStates
  <2>2. FiberBecomes(f, "mounted")
    BY <2>1, <1>1, StateChanges
  <2> QED
    BY <2>2 DEF FiberBecomes
<1>5. /\ fcall' \in [FiberActors -> FiberCalls]
      /\ \A d \in FiberActors \ {c} : fcall'[d] = fcall[d]
      /\ fcall'[c].queue = {} /\ fcall'[c].ids \subseteq fcall[c].ids \cup {f}
      /\ IF s = FiberServices
         THEN fcall'[c].pc = "idle" /\ fcall'[c].gen = NoFiber /\ fcall'[c].ids = {}
         ELSE /\ fcall'[c].pc = "resolve" /\ fcall'[c].gen = g /\ fcall'[c].service = s + 1
              /\ fcall'[c].ids = fcall[c].ids \cup {f} /\ fcall'[c].conn = fcall[c].conn
  BY MountedCall
<1>6. /\ applyMu = c /\ fibers[f].id = <<g, s>> /\ fibers[f].conn = fcall[c].conn /\ fibers[f].st = "provided"
      /\ contextDisposal = "no" /\ fcall[c].queue = {}
  BY <1>1, <1>2 DEF OneApplies, MountKey, CallsTyped, FiberAt, Unmounting
<1>7. /\ ~Applying(c)' /\ ~Marking(c)' /\ ~Marking(c) /\ ~Unmounting(c)'
      /\ \A d \in FiberActors \ {c} : (Marking(d)' <=> Marking(d)) /\ (Unmounting(d)' <=> Unmounting(d))
                                      /\ (FiberAt(d, "idle")' <=> FiberAt(d, "idle"))
  BY <1>2, <1>5 DEF Unmounting, Applying, Marking, FiberAt
<1>8. \A d \in FiberActors : ~Applying(d)'
  <2>1. \A d \in FiberActors : Applying(d) => d = c
    BY <1>2, OneApplier
  <2> QED
    BY <2>1, <1>5, <1>7 DEF Applying
<1>9. FibersTyped'
  BY <1>1, <1>2, <1>3, <1>4, <1>5 DEF FibersTyped
<1>10. CallsTyped'
  <2>1. \A d \in FiberActors : Marking(d)' => fcall'[d].fiber \in Fibers
    BY <1>1, <1>5, <1>7 DEF CallsTyped
  <2>2. \A d \in FiberActors : fcall'[d].queue = {} \/ Unmounting(d)'
    BY <1>1, <1>5, <1>7 DEF CallsTyped
  <2>3. \A d \in FiberCallers : IF FiberAt(d, "idle")' THEN fcall'[d].gen = NoFiber ELSE fcall'[d].gen \in FiberGens
    BY <1>1, <1>2, <1>5, <1>7 DEF CallsTyped, FiberAt
  <2>4. ~Mounting(NoFiber)' /\ FiberAt(NoFiber, "idle")'
    BY <1>1, <1>2, <1>5, <1>6, <1>7 DEF CallsTyped, Mounting
  <2> QED
    BY <2>1, <2>2, <2>3, <2>4, <1>3, <1>6, <1>8 DEF CallsTyped
<1>11. \A d \in FiberActors : fcall[d].ids \cup fcall[d].queue \subseteq Fibers
  BY <1>1 DEF FibersTyped, FiberCalls
<1>12. Numbered' /\ ListsArePast'
  <2>1. ASSUME NEW d \in FiberActors, NEW h \in fcall'[d].ids \cup fcall'[d].queue
        PROVE  fibers'[h].st \in {"mounted", "disposing", "disposed"}
    <3>1. CASE d = c
      BY <3>1, <2>1, <1>1, <1>4, <1>5, <1>11 DEF ListsArePast
    <3>2. CASE d # c
      BY <3>2, <2>1, <1>1, <1>4, <1>5, <1>11 DEF ListsArePast
    <3> QED
      BY <3>1, <3>2
  <2> QED
    BY <2>1, <1>1, <1>4, <1>6 DEF Numbered, ListsArePast
<1>13. OneApplies'
  <2>1. \A h \in Fibers : fibers'[h].st \notin {"applying", "provided"}
    BY <1>2, <1>4, OneApplier
  <2> QED
    BY <2>1, <1>2, <1>8 DEF OneApplies
<1>14. OneDisposes'
  <2>1. \A d \in FiberActors : Marking(d)' => d # c /\ Marking(d) /\ fcall'[d] = fcall[d]
                                              /\ fcall[d].fiber \in Fibers /\ fcall[d].fiber # f
    BY <1>1, <1>5, <1>6, <1>7 DEF OneDisposes, CallsTyped
  <2>2. ASSUME NEW h \in Fibers, fibers'[h].st = "disposing"
        PROVE  \E d \in FiberActors : Marking(d)' /\ fcall'[d].fiber = h
    <3>1. fibers[h].st = "disposing"
      BY <1>4, <2>2
    <3>2. PICK d \in FiberActors : Marking(d) /\ fcall[d].fiber = h
      BY <3>1, <1>1 DEF OneDisposes
    <3> QED
      BY <3>2, <1>5, <1>7
  <2> QED
    BY <2>1, <2>2, <1>1, <1>4 DEF OneDisposes
<1>15. OwnedByLiveFiber'
  <2>1. ProvidedBy' = ProvidedBy
    BY <1>4, <1>6 DEF ProvidedBy
  <2>2. \A h \in ProvidedBy : h \in Fibers /\ fibers'[h].id = fibers[h].id
    BY <1>4 DEF ProvidedBy
  <2>3. services' = {fibers'[h].id : h \in ProvidedBy'}
    BY <2>1, <2>2, <1>1, <1>3 DEF OwnedByLiveFiber
  <2>4. plugins' = {h \in Fibers : fibers'[h].st \in {"mounted", "disposing"}}
    BY <1>1, <1>3, <1>4, <1>6 DEF OwnedByLiveFiber
  <2>5. \A h \in Fibers : fibers'[h].st # "applying"
    BY <1>2, <1>4, OneApplier
  <2>6. \A h, k \in ProvidedBy' : fibers'[h].id = fibers'[k].id => h = k
    BY <2>1, <2>2, <1>1 DEF OwnedByLiveFiber
  <2> QED
    BY <2>3, <2>4, <2>5, <2>6 DEF OwnedByLiveFiber
<1>16. ClosedByOwner'
  <2>1. \A d \in FiberActors : FiberAt(d, "remove")' => FiberAt(d, "remove") /\ d # c /\ fcall'[d] = fcall[d]
                                 /\ fcall[d].fiber \in Fibers
    BY <1>1, <1>5 DEF FiberAt, CallsTyped, Marking
  <2>2. closedConns \subseteq Fibers
    BY <1>1 DEF FibersTyped
  <2> QED
    BY <1>1, <1>3, <1>4, <1>6, <2>1, <2>2 DEF ClosedByOwner
<1>17. OwnGeneration'
  <2>1. \A d \in FiberActors \ {c} : Left(d)' = Left(d) /\ Left(d) \subseteq Fibers
    BY <1>5, <1>7, <1>11 DEF Left, InHand
  <2>2. Left(c)' = fcall'[c].ids /\ Left(c)' \subseteq fcall[c].ids \cup {f}
    BY <1>5, <1>7 DEF Left, InHand
  <2>3. ASSUME NEW d \in FiberCallers, NEW h \in Left(d)'
        PROVE  fibers'[h].id[1] \in {fcall'[d].gen} \cup crossed'
    <3>1. CASE d # c
      BY <3>1, <2>1, <2>3, <1>1, <1>2, <1>3, <1>4, <1>5 DEF OwnGeneration
    <3>2. CASE d = c
      <4>1. s # FiberServices /\ fcall'[c].gen = g
        BY <2>2, <2>3, <3>2, <1>5
      <4>2. CASE h = f
        BY <4>1, <4>2, <3>2, <1>4, <1>6
      <4>3. CASE h \in fcall[c].ids
        <5>1. h \in Left(c) /\ h \in Fibers
          BY <4>3, <1>2, <1>11 DEF Left
        <5> QED
          BY <5>1, <4>1, <3>2, <1>1, <1>3, <1>4 DEF OwnGeneration
      <4> QED
        BY <4>2, <4>3, <3>2, <2>2, <2>3
    <3> QED
      BY <3>1, <3>2
  <2>4. \A d \in FiberCallers : ~FiberAt(d, "idle")' => ~FiberAt(d, "idle") /\ fcall'[d].gen = fcall[d].gen
    BY <1>2, <1>5, <1>7 DEF FiberAt
  <2> QED
    BY <2>3, <2>4, <1>1, <1>3 DEF OwnGeneration
<1>18. ContextDisposal'
  BY <1>3, <1>6 DEF ContextDisposal
<1>19. ASSUME NEW k \in FiberGens \ crossed'
       PROVE  GenerationInv(k)'
  <2>1. CASE k # g
    <3>1. KeysOf(k)' = KeysOf(k)
      BY <1>3 DEF KeysOf
    <3>2. \A h \in Fibers : fibers'[h] = fibers[h] \/ (h \notin LiveFibers(k) /\ h \notin LiveFibers(k)')
      BY <2>1, <1>4, <1>6 DEF LiveFibers
    <3>3. \A d \in FiberCallers : fcall[d].gen = k \/ fcall'[d].gen = k => fcall'[d] = fcall[d]
      BY <2>1, <1>2, <1>5
    <3> QED
      BY <3>1, <3>2, <3>3, <1>3, <1>4, <1>19, GenerationKept
  <2>2. CASE k = g
    <3>1. MountGoesOn(c, g) /\ OwnerStays(g)
      BY <2>2, <1>2, <1>3, <1>19 DEF FiberInv, GenerationInv, Mounting
    <3>2. LiveFibers(g)' = LiveFibers(g) /\ LiveFibers(g) \subseteq Fibers
      BY <1>4, <1>6 DEF LiveFibers
    <3>3. OwnerStays(g)'
      BY <3>1, <3>2, <1>4, <1>6 DEF OwnerStays
    <3>4. KeysOf(g)' = KeysOf(g)
      BY <1>3 DEF KeysOf
    <3>5. /\ LiveFibers(g) = fcall[c].ids \cup {h \in Fibers : h = f}
          /\ KeysOf(g) = {g} \X (1..s)
          /\ \A h \in fcall[c].ids : fibers[h].st = "mounted" /\ fibers[h].conn = fcall[c].conn
          /\ fcall[c].conn \in LiveFibers(g)
      BY <3>1, <1>2 DEF MountGoesOn, FiberAt
    <3>6. CASE s = FiberServices
      <4>1. AllOrNothing(g)'
        BY <3>4, <3>5, <3>6 DEF AllOrNothing
      <4>2. FiberAt(c, "idle")' /\ ~Mounting(c)' /\ fcall'[c].gen = NoFiber
        BY <3>6, <1>5 DEF FiberAt, Mounting
      <4> QED
        BY <4>1, <4>2, <3>3, <2>2, <1>2, <1>3, <1>5, <1>7, <1>19, OwnKept
    <3>7. CASE s # FiberServices
      <4>1. \A h \in fcall'[c].ids : fibers'[h].st = "mounted" /\ fibers'[h].conn = fcall'[c].conn
        BY <3>5, <3>7, <1>4, <1>5, <1>6, <1>11, <1>2
      <4>2. LiveFibers(g)' = fcall'[c].ids \cup {h \in Fibers : Applying(c)' /\ fcall'[c].fiber = h}
        BY <3>2, <3>5, <3>7, <1>5, <1>7
      <4>3. fcall'[c].service - 1 = s /\ fcall'[c].service > 1
        BY <3>7, <1>5, FiberAssumption
      <4>4. KeysOf(g)' = {g} \X (1..(IF FiberAt(c, "applied")' THEN fcall'[c].service ELSE fcall'[c].service - 1))
        BY <4>3, <3>4, <3>5, <3>7, <1>5 DEF FiberAt
      <4>5. MountGoesOn(c, g)'
        BY <4>1, <4>2, <4>3, <4>4, <3>2, <3>5, <3>7, <1>5 DEF MountGoesOn
      <4>6. ~FiberAt(c, "idle")' /\ fcall'[c].gen = g
        BY <3>7, <1>5 DEF FiberAt
      <4> QED
        BY <4>5, <4>6, <3>3, <2>2, <1>3, <1>5, <1>7, <1>19, OwnKept
    <3> QED
      BY <3>6, <3>7
  <2> QED
    BY <2>1, <2>2
<1> QED
  BY <1>9, <1>10, <1>12, <1>13, <1>14, <1>15, <1>16, <1>17, <1>18, <1>19 DEF FiberInv
----------------------------------------------------------------------------
\* Plugin lets a fiber apply whose key nobody provides.
Accepts(c, g, s, f, conn) ==
  /\ conn = IF s = 1 THEN f ELSE fcall[c].conn
  /\ fibers[f].st = "unused" /\ fibers' \in [Fibers -> FiberRecords]
  /\ fibers'[f].id = <<g, s>> /\ fibers'[f].st = "applying" /\ fibers'[f].conn = conn
  /\ \A h \in Fibers : h # f => fibers'[h] = fibers[h]
  /\ \A h \in Fibers : fibers[h].st = "unused" => f <= h
  /\ fcall' \in [FiberActors -> FiberCalls]
  /\ \A d \in FiberActors \ {c} : fcall'[d] = fcall[d]
  /\ fcall'[c].pc = "apply" /\ fcall'[c].gen = g /\ fcall'[c].service = s /\ fcall'[c].fiber = f
  /\ fcall'[c].ids = fcall[c].ids /\ fcall'[c].queue = {} /\ fcall'[c].conn = conn
  /\ <<g, s>> \notin services
  /\ \A h \in Fibers : fibers[h].st \notin {"applying", "provided"}
  /\ fcall[c].pc = "plugin" /\ fcall[c].queue = {} /\ contextDisposal = "no" /\ applyMu' = c
  /\ plugins' = plugins /\ services' = services /\ closedConns' = closedConns
  /\ contextDisposal' = contextDisposal /\ crossed' = crossed

\* A plugin that is accepted takes the next number, and the connection of the
\* first service of its mount.
LEMMA AcceptedPlugin ==
  ASSUME FiberInv, NEW c \in FiberCallers, Plugin(c), fcall'[c].pc # "next",
         NEW g \in FiberGens, g = fcall[c].gen, NEW s \in 1..FiberServices, s = fcall[c].service
  PROVE  \E f \in Fibers, conn \in 0..MaxFibers : Accepts(c, g, s, f, conn)
<1>1. /\ fcall \in [FiberActors -> FiberCalls] /\ fibers \in [Fibers -> FiberRecords] /\ c \in FiberActors
      /\ fcall[c] \in FiberCalls /\ fcall[c].queue = {} /\ contextDisposal = "no"
      /\ FiberAt(c, "plugin") /\ applyMu = NoFiber /\ OneApplies /\ OwnedByLiveFiber
  BY DEF FiberInv, FibersTyped, FiberActors, CallsTyped, Unmounting, Plugin, FiberAt
<1>2. fcall'[c].pc = "next" \/ ~((\E f \in plugins : fibers[f].id = <<g, s>>) \/ ~(fcall[c].inject \subseteq services))
  <2>1. CASE (\E f \in plugins : fibers[f].id = <<g, s>>) \/ ~(fcall[c].inject \subseteq services)
    <3>1. FiberGoes(c, "next")
      BY <2>1 DEF Plugin, MountKey
    <3> QED
      BY <3>1, <1>1 DEF FiberGoes, FiberCalls
  <2> QED
    BY <2>1
<1>3. \A f \in plugins : fibers[f].id # <<g, s>>
  BY <1>2
<1>4. PICK f \in Fibers :
        /\ nextFiberSeq(f)
        /\ fibers' = [fibers EXCEPT ![f] = [id |-> <<g, s>>, st |-> "applying",
                                            conn |-> IF s = 1 THEN f ELSE fcall[c].conn]]
        /\ fcall' = [fcall EXCEPT ![c].pc = "apply", ![c].fiber = f,
                                  ![c].conn = IF s = 1 THEN f ELSE fcall[c].conn]
        /\ applyMu' = c
  BY <1>2 DEF Plugin, MountKey
<1> DEFINE conn == IF s = 1 THEN f ELSE fcall[c].conn
<1>5. conn \in 0..MaxFibers /\ f \in 0..MaxFibers
  BY <1>1, FiberAssumption DEF FiberCalls, Fibers
<1>6. fibers' \in [Fibers -> FiberRecords] /\ fibers'[f] = [id |-> <<g, s>>, st |-> "applying", conn |-> conn]
  <2>1. <<g, s>> \in PluginKeys /\ "applying" \in FiberStates
    BY DEF PluginKeys, FiberStates
  <2> DEFINE r == [id |-> <<g, s>>, st |-> "applying", conn |-> conn]
  <2>2. r \in FiberRecords
    BY <2>1, <1>5 DEF FiberRecords
  <2>3. fibers' = [fibers EXCEPT ![f] = r]
    BY <1>4
  <2> HIDE DEF r
  <2>4. fibers' \in [Fibers -> FiberRecords] /\ fibers'[f] = r
    BY <2>2, <2>3, <1>1
  <2> QED
    BY <2>4 DEF r
<1>7. \A h \in Fibers : fibers[h].st \notin {"applying", "provided"}
  BY <1>1, FiberAssumption DEF OneApplies
<1>8. <<g, s>> \notin services
  BY <1>1, <1>3, <1>7 DEF OwnedByLiveFiber, ProvidedBy
<1>9. /\ fcall' \in [FiberActors -> FiberCalls]
      /\ \A d \in FiberActors \ {c} : fcall'[d] = fcall[d]
      /\ fcall'[c].pc = "apply" /\ fcall'[c].gen = g /\ fcall'[c].service = s /\ fcall'[c].fiber = f
      /\ fcall'[c].ids = fcall[c].ids /\ fcall'[c].queue = {} /\ fcall'[c].conn = conn
  <2> DEFINE u == [fcall EXCEPT ![c].pc = "apply"]
             v == [u EXCEPT ![c].fiber = f]
  <2>1. u \in [FiberActors -> FiberCalls]
    BY <1>1 DEF FiberCalls, FiberPcs
  <2>2. v \in [FiberActors -> FiberCalls]
    BY <2>1, <1>5 DEF FiberCalls
  <2>3. fcall' = [v EXCEPT ![c].conn = conn]
    BY <1>4
  <2>4. /\ \A d \in FiberActors \ {c} : v[d] = fcall[d]
        /\ v[c].pc = "apply" /\ v[c].gen = g /\ v[c].service = s /\ v[c].fiber = f
        /\ v[c].ids = fcall[c].ids /\ v[c].queue = {}
    BY <2>1, <1>1 DEF FiberCalls
  <2> HIDE DEF v, conn
  <2>5. fcall' \in [FiberActors -> FiberCalls]
    BY <2>2, <2>3, <1>5 DEF FiberCalls
  <2> QED
    BY <2>2, <2>3, <2>4, <2>5, <1>1 DEF FiberCalls
<1>10. /\ fibers'[f].id = <<g, s>> /\ fibers'[f].st = "applying" /\ fibers'[f].conn = conn
       /\ \A h \in Fibers : h # f => fibers'[h] = fibers[h]
  BY <1>1, <1>4, <1>6
<1>11. /\ fibers[f].st = "unused" /\ \A h \in Fibers : fibers[h].st = "unused" => f <= h
       /\ fcall[c].pc = "plugin" /\ UNCHANGED <<plugins, services, closedConns, contextDisposal, crossed>>
  BY <1>1, <1>4 DEF nextFiberSeq, Plugin, FiberAt
<1>12. conn = IF s = 1 THEN f ELSE fcall[c].conn
  OBVIOUS
<1> HIDE DEF conn
<1>13. Accepts(c, g, s, f, conn)
  BY <1>1, <1>4, <1>6, <1>7, <1>8, <1>9, <1>10, <1>11, <1>12 DEF Accepts
<1> QED
  BY <1>5, <1>13

\* Accepting a plugin keeps the invariant.
LEMMA PluginKeepsFibers ==
  ASSUME FiberInv, NEW c \in FiberCallers, Plugin(c), fcall'[c].pc # "next"
  PROVE  FiberInv'
<1>1. /\ FibersTyped /\ CallsTyped /\ Numbered /\ OneApplies /\ OneDisposes /\ ListsArePast
      /\ OwnedByLiveFiber /\ ClosedByOwner /\ OwnGeneration /\ ContextDisposal
  BY DEF FiberInv
<1>2. /\ FiberCallers \subseteq FiberActors /\ NoFiber \in FiberActors /\ c \in FiberActors
      /\ ~FiberAt(c, "idle") /\ NoFiber # c /\ NoFiber \notin FiberGens
  BY FiberAssumption DEF FiberActors, Plugin, FiberAt
<1> PICK g \in FiberGens : g = fcall[c].gen
  BY <1>1, <1>2 DEF CallsTyped
<1> PICK s \in 1..FiberServices : s = fcall[c].service
  BY <1>1, <1>2 DEF FibersTyped, FiberCalls
<1> PICK f \in Fibers, conn \in 0..MaxFibers : Accepts(c, g, s, f, conn)
  BY AcceptedPlugin
<1>3. /\ conn = IF s = 1 THEN f ELSE fcall[c].conn
      /\ fibers[f].st = "unused" /\ fibers' \in [Fibers -> FiberRecords]
      /\ fibers'[f].id = <<g, s>> /\ fibers'[f].st = "applying" /\ fibers'[f].conn = conn
      /\ \A h \in Fibers : h # f => fibers'[h] = fibers[h]
      /\ \A h \in Fibers : fibers[h].st = "unused" => f <= h
  BY DEF Accepts
<1>4. /\ fcall' \in [FiberActors -> FiberCalls]
      /\ \A d \in FiberActors \ {c} : fcall'[d] = fcall[d]
      /\ fcall'[c].pc = "apply" /\ fcall'[c].gen = g /\ fcall'[c].service = s /\ fcall'[c].fiber = f
      /\ fcall'[c].ids = fcall[c].ids /\ fcall'[c].queue = {} /\ fcall'[c].conn = conn
  BY DEF Accepts
<1>5. /\ <<g, s>> \notin services
      /\ \A h \in Fibers : fibers[h].st \notin {"applying", "provided"}
      /\ fcall[c].pc = "plugin" /\ fcall[c].queue = {} /\ contextDisposal = "no" /\ applyMu' = c
      /\ plugins' = plugins /\ services' = services /\ closedConns' = closedConns
      /\ contextDisposal' = contextDisposal /\ crossed' = crossed
  BY DEF Accepts
<1>6. \A d \in FiberActors : ~Applying(d)
  <2>1. \A d \in FiberActors : Applying(d) => d \in FiberCallers
    BY <1>1 DEF CallsTyped, Applying, Mounting, FiberActors
  <2>2. \A d \in FiberCallers : Applying(d) => fcall[d].fiber \in Fibers
    BY <1>1, <1>2 DEF CallsTyped
  <2> QED
    <3>1. \A d \in FiberCallers : Applying(d) => fibers[fcall[d].fiber].st \in {"applying", "provided"}
      BY <1>1 DEF OneApplies
    <3> QED
      BY <3>1, <2>1, <2>2, <1>5
<1>7. /\ Applying(c)' /\ ~Marking(c)' /\ ~Marking(c) /\ ~Unmounting(c)' /\ ~Unmounting(c) /\ Mounting(c)'
      /\ ~FiberAt(c, "idle")'
      /\ \A d \in FiberActors \ {c} :
           /\ (Marking(d)' <=> Marking(d)) /\ (Unmounting(d)' <=> Unmounting(d)) /\ ~Applying(d)'
           /\ (Mounting(d)' <=> Mounting(d)) /\ (FiberAt(d, "idle")' <=> FiberAt(d, "idle"))
  BY <1>4, <1>5, <1>6 DEF Unmounting, Mounting, Applying, Marking, FiberAt
<1>8. \A d \in FiberActors : fcall[d].ids \cup fcall[d].queue \subseteq Fibers
  BY <1>1 DEF FibersTyped, FiberCalls
<1>9. FibersTyped'
  BY <1>1, <1>2, <1>3, <1>4, <1>5 DEF FibersTyped
<1>10. CallsTyped'
  <2>1. \A d \in FiberActors : Applying(d)' \/ Marking(d)' => fcall'[d].fiber \in Fibers
    BY <1>1, <1>4, <1>7 DEF CallsTyped
  <2>2. \A d \in FiberActors : ~Unmounting(d)' => fcall'[d].queue = {}
    BY <1>1, <1>4, <1>7 DEF CallsTyped
  <2>3. \A d \in FiberCallers : IF FiberAt(d, "idle")' THEN fcall'[d].gen = NoFiber ELSE fcall'[d].gen \in FiberGens
    BY <1>1, <1>2, <1>4, <1>7 DEF CallsTyped
  <2>4. ~Mounting(NoFiber)' /\ FiberAt(NoFiber, "idle")'
    BY <1>1, <1>2, <1>5, <1>7 DEF CallsTyped
  <2> QED
    BY <2>1, <2>2, <2>3, <2>4, <1>5 DEF CallsTyped
<1>11. Numbered'
  <2>1. ASSUME NEW k \in Fibers, NEW h \in Fibers, fibers'[k].st = "unused", fibers'[h].st # "unused"
        PROVE  h < k
    <3>1. k # f /\ fibers[k].st = "unused" /\ f <= k
      BY <2>1, <1>3
    <3>2. CASE h = f
      BY <3>1, <3>2 DEF Fibers
    <3>3. CASE h # f
      BY <3>1, <3>3, <2>1, <1>1, <1>3 DEF Numbered
    <3> QED
      BY <3>2, <3>3
  <2> QED
    BY <2>1 DEF Numbered
<1>12. ListsArePast'
  <2>1. ASSUME NEW d \in FiberActors, NEW h \in fcall[d].ids \cup fcall[d].queue
        PROVE  h \in Fibers /\ h # f /\ fibers'[h] = fibers[h]
    BY <2>1, <1>1, <1>3, <1>8 DEF ListsArePast
  <2>2. \A d \in FiberActors : fcall'[d].ids = fcall[d].ids /\ fcall'[d].queue = fcall[d].queue
    BY <1>4, <1>5
  <2> QED
    BY <2>1, <2>2, <1>1 DEF ListsArePast
<1>13. OneApplies'
  <2>1. \A d \in FiberCallers : Applying(d)' => d = c
    BY <1>2, <1>7
  <2>2. \A h \in Fibers : fibers'[h].st \in {"applying", "provided"} => h = f
    BY <1>3, <1>5
  <2>3. MountKey(c)' = <<g, s>>
    BY <1>4 DEF MountKey
  <2> QED
    BY <2>1, <2>2, <2>3, <1>3, <1>4, <1>5, <1>7 DEF OneApplies
<1>14. OneDisposes'
  <2>1. \A d \in FiberActors : Marking(d)' => d # c /\ Marking(d) /\ fcall'[d] = fcall[d]
                                              /\ fcall[d].fiber \in Fibers /\ fcall[d].fiber # f
    BY <1>1, <1>3, <1>4, <1>7 DEF OneDisposes, CallsTyped
  <2>2. ASSUME NEW h \in Fibers, fibers'[h].st = "disposing"
        PROVE  \E d \in FiberActors : Marking(d)' /\ fcall'[d].fiber = h
    <3>1. fibers[h].st = "disposing"
      BY <1>3, <2>2
    <3>2. PICK d \in FiberActors : Marking(d) /\ fcall[d].fiber = h
      BY <3>1, <1>1 DEF OneDisposes
    <3> QED
      BY <3>2, <1>4, <1>7
  <2> QED
    <3>1. \A d \in FiberActors : Marking(d)' => fibers'[fcall'[d].fiber].st = "disposing"
      <4>1. \A d \in FiberActors : Marking(d) => fibers[fcall[d].fiber].st = "disposing"
        BY <1>1 DEF OneDisposes
      <4>2. \A h \in Fibers : h # f => fibers'[h] = fibers[h]
        BY <1>3
      <4> QED
        BY <4>1, <4>2, <2>1
    <3>2. \A d, e \in FiberActors : Marking(d)' /\ Marking(e)' /\ fcall'[d].fiber = fcall'[e].fiber => d = e
      BY <2>1, <1>1 DEF OneDisposes
    <3> QED
      BY <2>2, <3>1, <3>2 DEF OneDisposes
<1>15. OwnedByLiveFiber'
  <2>1. ProvidedBy' = ProvidedBy
    BY <1>3 DEF ProvidedBy
  <2>2. \A h \in ProvidedBy : h \in Fibers /\ fibers'[h].id = fibers[h].id
    BY <1>3 DEF ProvidedBy
  <2>3. services' = {fibers'[h].id : h \in ProvidedBy'}
    BY <2>1, <2>2, <1>1, <1>5 DEF OwnedByLiveFiber
  <2>4. plugins' = {h \in Fibers : fibers'[h].st \in {"mounted", "disposing"}}
    <3>1. plugins = {h \in Fibers : fibers[h].st \in {"mounted", "disposing"}}
      BY <1>1 DEF OwnedByLiveFiber
    <3>2. \A h \in Fibers : fibers'[h].st \in {"mounted", "disposing"} <=> fibers[h].st \in {"mounted", "disposing"}
      BY <1>3
    <3> QED
      BY <3>1, <3>2, <1>5
  <2>5. \A h \in Fibers : fibers'[h].st = "applying" => fibers'[h].id \notin services'
    BY <1>3, <1>5
  <2>6. \A h, k \in ProvidedBy' : fibers'[h].id = fibers'[k].id => h = k
    BY <2>1, <2>2, <1>1 DEF OwnedByLiveFiber
  <2> QED
    BY <2>3, <2>4, <2>5, <2>6 DEF OwnedByLiveFiber
<1>16. ClosedByOwner'
  <2>1. \A d \in FiberActors : FiberAt(d, "remove")' => FiberAt(d, "remove") /\ d # c /\ fcall'[d] = fcall[d]
                                 /\ fcall[d].fiber \in Fibers /\ fcall[d].fiber # f
    BY <1>1, <1>3, <1>4 DEF FiberAt, CallsTyped, Marking, OneDisposes
  <2>2. closedConns \subseteq Fibers /\ f \notin closedConns
    BY <1>1, <1>3 DEF FibersTyped, ClosedByOwner
  <2>3. <<g, s>> # Host
    BY <1>2 DEF Host
  <2>4. \A h \in closedConns : fibers'[h] = fibers[h]
    BY <2>2, <1>3
  <2>5. \A h \in Fibers : fibers'[h].id = Host => fibers'[h].conn = 0
    <3>1. \A h \in Fibers : fibers[h].id = Host => fibers[h].conn = 0
      BY <1>1 DEF ClosedByOwner
    <3>2. fibers'[f].id # Host /\ \A h \in Fibers : h # f => fibers'[h] = fibers[h]
      BY <2>3, <1>3
    <3> QED
      BY <3>1, <3>2
  <2>6. \A h \in Fibers : fibers'[h].st = "disposed" /\ fibers'[h].conn = h => h \in closedConns
    BY <1>1, <1>3 DEF ClosedByOwner
  <2> QED
    <3>1. \A h \in closedConns : fibers'[h].conn = h /\ fibers'[h].st \in {"disposing", "disposed"}
      BY <2>4, <1>1 DEF ClosedByOwner
    <3>2. \A d \in FiberActors : FiberAt(d, "remove")' /\ fibers'[fcall'[d].fiber].conn = fcall'[d].fiber =>
            fcall'[d].fiber \in closedConns
      BY <2>1, <1>1, <1>3 DEF ClosedByOwner
    <3> QED
      BY <3>1, <3>2, <2>5, <2>6, <1>5 DEF ClosedByOwner
<1>17. OwnGeneration'
  <2>1. \A d \in FiberActors \ {c} : Left(d)' = Left(d) /\ Left(d) \subseteq Fibers
    BY <1>1, <1>4, <1>7, <1>8 DEF Left, InHand
  <2>2. Left(c)' = fcall[c].ids /\ fcall[c].ids \subseteq Left(c)
    BY <1>4, <1>7 DEF Left, InHand
  <2>3. \A d \in FiberActors : f \notin Left(d)
    BY <1>1, <1>3, <1>8 DEF Left, InHand, ListsArePast, OneDisposes
  <2>4. ASSUME NEW d \in FiberCallers, NEW h \in Left(d)'
        PROVE  fibers'[h].id[1] \in {fcall'[d].gen} \cup crossed'
    <3>1. h \in Left(d) /\ h \in Fibers /\ h # f /\ fcall'[d].gen = fcall[d].gen
      BY <2>1, <2>2, <2>3, <2>4, <1>2, <1>4, <1>8
    <3> QED
      BY <3>1, <1>1, <1>3, <1>5 DEF OwnGeneration
  <2>5. \A d \in FiberCallers : fcall'[d].gen = fcall[d].gen /\ (FiberAt(d, "idle")' <=> FiberAt(d, "idle"))
    BY <1>2, <1>4, <1>7
  <2> QED
    BY <2>4, <2>5, <1>1, <1>5 DEF OwnGeneration
<1>18. ContextDisposal'
  BY <1>5 DEF ContextDisposal
<1>19. ASSUME NEW k \in FiberGens \ crossed'
       PROVE  GenerationInv(k)'
  <2>0. KeysOf(k)' = KeysOf(k)
    BY <1>5 DEF KeysOf
  <2>1. CASE k # g
    <3>1. \A h \in Fibers : fibers'[h] = fibers[h] \/ (h \notin LiveFibers(k) /\ h \notin LiveFibers(k)')
      BY <2>1, <1>3 DEF LiveFibers
    <3>2. \A d \in FiberCallers : fcall[d].gen = k \/ fcall'[d].gen = k => fcall'[d] = fcall[d]
      BY <2>1, <1>2, <1>4
    <3>3. \A h \in Fibers : fibers[h].st # "unused" => fibers'[h].id = fibers[h].id
      BY <1>3
    <3> QED
      BY <3>1, <3>2, <3>3, <2>0, <1>5, <1>19, GenerationKept
  <2>2. CASE k = g
    <3>1. MountGoesOn(c, g) /\ OwnerStays(g)
      BY <2>2, <1>2, <1>5, <1>19 DEF FiberInv, GenerationInv, Mounting
    <3>2. LiveFibers(g)' = LiveFibers(g) \cup {f} /\ f \notin LiveFibers(g) /\ LiveFibers(g) \subseteq Fibers
      <4>1. f \in Fibers /\ \A h \in Fibers \ {f} : fibers'[h].id = fibers[h].id /\ fibers'[h].st = fibers[h].st
        BY <1>3
      <4>2. f \in LiveFibers(g)' /\ f \notin LiveFibers(g)
        BY <1>3, <4>1 DEF LiveFibers
      <4>3. \A h \in Fibers \ {f} : h \in LiveFibers(g)' <=> h \in LiveFibers(g)
        BY <4>1 DEF LiveFibers
      <4>4. LiveFibers(g) \subseteq Fibers /\ LiveFibers(g)' \subseteq Fibers
        BY DEF LiveFibers, Fibers
      <4> QED
        BY <4>1, <4>2, <4>3, <4>4
    <3>3. ~Applying(c) /\ ~FiberAt(c, "applied") /\ FiberServices \in Nat \ {0}
      BY <1>2, <1>5, <1>6, FiberAssumption DEF FiberAt
    <3>4. /\ LiveFibers(g) = fcall[c].ids /\ KeysOf(g) = {g} \X (1..(s-1))
          /\ \A h \in fcall[c].ids : fibers[h].st = "mounted" /\ fibers[h].conn = conn
          /\ conn \in fcall[c].ids \cup {f}
      <4>1. CASE s = 1 /\ fcall[c].ids = {} /\ AllOrNothing(g)
        <5>1. <<g, 1>> \in {g} \X (1..FiberServices) /\ <<g, 1>> \notin KeysOf(g)
          BY <4>1, <3>3, <1>5 DEF KeysOf
        <5>2. KeysOf(g) = {}
          BY <5>1, <4>1 DEF AllOrNothing
        <5>3. \A h \in LiveFibers(g) : h \in ProvidedBy /\ fibers[h].id[1] = g
          BY <1>5 DEF LiveFibers, ProvidedBy
        <5>4. LiveFibers(g) = {}
          BY <5>2, <5>3, <1>1 DEF KeysOf, OwnedByLiveFiber
        <5>5. {g} \X (1..(s-1)) = {}
          BY <4>1
        <5> QED
          BY <5>2, <5>4, <5>5, <4>1, <1>3
      <4>2. CASE ~(s = 1 /\ fcall[c].ids = {} /\ AllOrNothing(g))
        <5>1. /\ s > 1 /\ LiveFibers(g) = fcall[c].ids \cup {h \in Fibers : Applying(c) /\ fcall[c].fiber = h}
              /\ KeysOf(g) = {g} \X (1..(s-1))
              /\ \A h \in fcall[c].ids : fibers[h].st = "mounted" /\ fibers[h].conn = fcall[c].conn
              /\ fcall[c].conn \in LiveFibers(g)
          BY <4>2, <3>1, <3>3 DEF MountGoesOn
        <5>2. {h \in Fibers : Applying(c) /\ fcall[c].fiber = h} = {}
          BY <3>3
        <5>3. conn = fcall[c].conn
          BY <5>1, <1>3
        <5> QED
          BY <5>1, <5>2, <5>3
      <4> QED
        BY <4>1, <4>2
    <3>5. \A h \in fcall[c].ids : h \in Fibers /\ h # f /\ h < f
      BY <3>2, <3>4, <1>1, <1>3 DEF Numbered, LiveFibers
    <3>6. OwnerStays(g)'
      <4>1. ASSUME NEW h \in LiveFibers(g), fibers'[h].conn # h
            PROVE  /\ fibers'[h].conn \in LiveFibers(g)' /\ fibers'[h].conn < h
                   /\ fibers'[fibers'[h].conn].st = "mounted"
        <5>1. h \in Fibers /\ h # f /\ fibers'[h] = fibers[h]
          BY <3>2, <1>3
        <5>2. fibers[h].conn \in LiveFibers(g) /\ fibers[h].conn < h /\ fibers[fibers[h].conn].st = "mounted"
          BY <5>1, <4>1, <3>1 DEF OwnerStays
        <5> QED
          BY <5>1, <5>2, <3>2, <1>3
      <4>2. ASSUME conn # f
            PROVE  conn \in LiveFibers(g)' /\ conn < f /\ fibers'[conn].st = "mounted"
        BY <4>2, <3>2, <3>4, <3>5, <1>3
      <4> QED
        BY <4>1, <4>2, <3>2, <1>3 DEF OwnerStays
    <3>7. \A h \in fcall'[c].ids : fibers'[h].st = "mounted" /\ fibers'[h].conn = fcall'[c].conn
      <4>1. \A h \in fcall[c].ids : fibers'[h] = fibers[h]
        BY <3>5, <1>3
      <4> QED
        BY <4>1, <3>4, <1>4
    <3>8. LiveFibers(g)' = fcall'[c].ids \cup {h \in Fibers : Applying(c)' /\ fcall'[c].fiber = h}
      BY <3>2, <3>4, <1>4, <1>7
    <3>9. KeysOf(g)' = {g} \X (1..(IF FiberAt(c, "applied")' THEN fcall'[c].service ELSE fcall'[c].service - 1))
      BY <3>4, <2>0, <2>2, <1>4 DEF FiberAt
    <3>10. MountGoesOn(c, g)'
      BY <3>2, <3>4, <3>7, <3>8, <3>9, <1>4, <1>7 DEF MountGoesOn
    <3> QED
      BY <3>6, <3>10, <2>2, <1>4, <1>5, <1>7, <1>19, OwnKept
  <2> QED
    BY <2>1, <2>2
<1> QED
  BY <1>9, <1>10, <1>11, <1>12, <1>13, <1>14, <1>15, <1>16, <1>17, <1>18, <1>19 DEF FiberInv
----------------------------------------------------------------------------
\* Close disposes what is in the table, and nobody mounts any more.
LEMMA ContextDisposalBegins ==
  ASSUME FiberInv, DisposeContext
  PROVE  FiberInv'
<1> DEFINE x == [FiberIdle EXCEPT !.pc = "next", !.queue = plugins]
<1>1. /\ FibersTyped /\ CallsTyped /\ OneApplies /\ OneDisposes /\ OwnedByLiveFiber /\ OwnGeneration
      /\ NoFiber \in FiberActors /\ FiberCallers \subseteq FiberActors /\ NoFiber \notin FiberCallers
  BY FiberAssumption DEF FiberInv, FiberActors
<1>2. /\ contextDisposal = "no" /\ \A c \in FiberCallers : FiberAt(c, "idle")
      /\ contextDisposal' = "running" /\ fcall' = [fcall EXCEPT ![NoFiber] = x]
      /\ UNCHANGED fiberTables /\ crossed' = crossed
      /\ fibers' = fibers /\ plugins' = plugins /\ services' = services
  BY DEF DisposeContext, fiberTables
<1>3. FiberAt(NoFiber, "idle") /\ \A c \in FiberActors : FiberAt(c, "idle")
  BY <1>1, <1>2 DEF CallsTyped, FiberActors
<1>4. x \in FiberCalls /\ x.pc = "next" /\ x.gen = NoFiber /\ x.ids = {} /\ x.queue = plugins
  <2>1. 1 \in 1..FiberServices /\ 0 \in 0..MaxFibers
    BY FiberAssumption
  <2>2. FiberIdle \in FiberCalls
    BY <2>1 DEF FiberIdle, FiberCalls, FiberPcs
  <2>3. x \in FiberCalls
    BY <2>2, <1>1 DEF FibersTyped, FiberCalls, FiberPcs
  <2> QED
    BY <2>2, <2>3 DEF FiberIdle, FiberCalls
<1> HIDE DEF x
<1>5. CallBecomes(NoFiber, x)
  BY <1>1, <1>2, <1>4 DEF CallBecomes, FibersTyped
<1>6. /\ fcall'[NoFiber] = x /\ \A c \in FiberCallers : fcall'[c] = fcall[c]
  BY <1>1, <1>5 DEF CallBecomes
<1>7. \A f \in Fibers : fibers[f].st \notin {"applying", "provided", "disposing"}
  BY <1>1, <1>3 DEF OneApplies, OneDisposes, Applying, Marking, FiberAt, FiberActors
<1>8. ProvidedBy = plugins /\ plugins \subseteq Fibers /\ \A f \in plugins : fibers[f].st = "mounted"
  BY <1>1, <1>7 DEF ProvidedBy, OwnedByLiveFiber
<1>9. /\ FibersTyped' /\ Numbered' /\ OneApplies' /\ OneDisposes' /\ ListsArePast'
      /\ OwnedByLiveFiber' /\ ClosedByOwner'
  <2>1. \A f \in x.ids \cup x.queue : fibers[f].st \in {"mounted", "disposing", "disposed"}
    BY <1>4, <1>8
  <2>2. fcall[NoFiber].pc \in Quiet /\ x.pc \in Quiet
    BY <1>3, <1>4 DEF FiberAt, Quiet
  <2>3. contextDisposal' \in {"no", "running", "done"} /\ crossed' \subseteq FiberGens
    BY <1>1, <1>2 DEF FibersTyped
  <2> QED
    BY <2>1, <2>2, <2>3, <1>1, <1>2, <1>4, <1>5, TablesKept
<1>10. \A c \in FiberCallers : FiberAt(c, "idle")' /\ fcall'[c].gen = NoFiber
  BY <1>1, <1>2, <1>6 DEF FiberAt, CallsTyped
<1>11. CallsTyped'
  <2>1. \A c \in FiberActors : ~(Applying(c)' \/ Marking(c)') /\ (~Unmounting(c)' => fcall'[c].queue = {})
    <3>1. \A c \in FiberActors : c = NoFiber \/ c \in FiberCallers
      BY DEF FiberActors
    <3>2. \A c \in FiberCallers : fcall[c].queue = {}
      BY <1>1, <1>2 DEF CallsTyped, Unmounting, FiberAt
    <3> QED
      BY <3>1, <3>2, <1>4, <1>6, <1>10 DEF Applying, Marking, Unmounting, FiberAt
  <2> QED
    BY <2>1, <1>2, <1>4, <1>6, <1>10 DEF CallsTyped, Mounting
<1>12. OwnGeneration'
  BY <1>1, <1>2, <1>6, <1>10 DEF OwnGeneration, Left, InHand, Marking
<1>13. ContextDisposal'
  <2>1. InHand(NoFiber)' = plugins /\ ~Marking(NoFiber)'
    BY <1>4, <1>6 DEF InHand, Marking
  <2>2. ProvidedBy' = ProvidedBy
    BY <1>2 DEF ProvidedBy
  <2> QED
    BY <2>1, <2>2, <1>2, <1>4, <1>6, <1>8 DEF ContextDisposal
<1>14. ASSUME NEW g \in FiberGens \ crossed'
       PROVE  GenerationInv(g)'
  <2>1. OwnerStays(g)
    BY <1>2, <1>14 DEF FiberInv, GenerationInv
  <2>2. LiveFibers(g)' = LiveFibers(g)
    BY <1>2 DEF LiveFibers
  <2>3. OwnerStays(g)'
    BY <2>1, <2>2, <1>2 DEF OwnerStays
  <2>4. \A c \in FiberCallers : fcall'[c].gen # g
    BY <1>10, FiberAssumption
  <2> QED
    BY <2>3, <2>4, <1>2 DEF GenerationInv
<1> QED
  BY <1>9, <1>11, <1>12, <1>13, <1>14 DEF FiberInv

\* Close has disposed what was in the table, and nothing has come since.
LEMMA ContextDisposalEnds ==
  ASSUME FiberInv, DisposalReturns(NoFiber)
  PROVE  FiberInv'
<1>1. /\ FibersTyped /\ CallsTyped /\ OneApplies /\ ContextDisposal /\ OwnGeneration /\ OwnedByLiveFiber
      /\ NoFiber \in FiberActors /\ FiberCallers \subseteq FiberActors /\ NoFiber \notin FiberCallers
  BY FiberAssumption DEF FiberInv, FiberActors
<1>2. /\ FiberAt(NoFiber, "next") /\ fcall[NoFiber].queue = {} /\ fcall[NoFiber].ids = {}
      /\ contextDisposal' = "done" /\ fcall' = [fcall EXCEPT ![NoFiber] = FiberIdle]
      /\ UNCHANGED fiberTables /\ crossed' = crossed
      /\ fibers' = fibers /\ plugins' = plugins /\ services' = services
  BY DEF DisposalReturns, fiberTables
<1>3. contextDisposal = "running" /\ \A c \in FiberCallers : FiberAt(c, "idle")
  BY <1>1, <1>2 DEF CallsTyped, FiberAt
<1>4. FiberIdle \in FiberCalls /\ FiberIdle.pc = "idle" /\ FiberIdle.ids = {} /\ FiberIdle.queue = {}
  <2>1. 1 \in 1..FiberServices /\ 0 \in 0..MaxFibers
    BY FiberAssumption
  <2>2. FiberIdle \in FiberCalls
    BY <2>1 DEF FiberIdle, FiberCalls, FiberPcs
  <2> QED
    BY <2>2 DEF FiberIdle
<1>5. CallBecomes(NoFiber, FiberIdle)
  BY <1>1, <1>2, <1>4 DEF CallBecomes, FibersTyped
<1>6. fcall'[NoFiber] = FiberIdle /\ \A c \in FiberCallers : fcall'[c] = fcall[c]
  BY <1>1, <1>5 DEF CallBecomes
<1>7. ProvidedBy = {}
  BY <1>1, <1>2, <1>3 DEF ContextDisposal, InHand, Marking, FiberAt
<1>8. \A f \in Fibers : fibers[f].st \in {"unused", "disposed"}
  <2>1. \A f \in Fibers : fibers[f].st # "applying"
    BY <1>1, <1>3 DEF OneApplies, Applying, FiberAt
  <2>2. \A f \in Fibers : fibers[f].st \in FiberStates
    BY <1>1 DEF FibersTyped, FiberRecords
  <2> QED
    BY <2>1, <2>2, <1>7 DEF ProvidedBy, FiberStates
<1>9. /\ FibersTyped' /\ Numbered' /\ OneApplies' /\ OneDisposes' /\ ListsArePast'
      /\ OwnedByLiveFiber' /\ ClosedByOwner'
  <2>1. fcall[NoFiber].pc \in Quiet /\ FiberIdle.pc \in Quiet
    BY <1>2, <1>4 DEF FiberAt, Quiet
  <2>2. contextDisposal' \in {"no", "running", "done"} /\ crossed' \subseteq FiberGens
    BY <1>1, <1>2 DEF FibersTyped
  <2> QED
    BY <2>1, <2>2, <1>1, <1>2, <1>4, <1>5, TablesKept
<1>10. \A c \in FiberCallers : FiberAt(c, "idle")' /\ fcall'[c].gen = NoFiber /\ fcall'[c].queue = {}
  BY <1>1, <1>3, <1>6 DEF FiberAt, CallsTyped, Unmounting
<1>11. \A c \in FiberActors : FiberAt(c, "idle")' /\ fcall'[c].queue = {}
  BY <1>4, <1>6, <1>10 DEF FiberActors, FiberAt
<1>12. CallsTyped'
  BY <1>1, <1>2, <1>10, <1>11 DEF CallsTyped, Applying, Marking, Mounting, FiberAt
<1>13. OwnGeneration'
  BY <1>1, <1>2, <1>6, <1>10 DEF OwnGeneration, Left, InHand, Marking
<1>14. ContextDisposal'
  BY <1>2, <1>8 DEF ContextDisposal
<1>15. ASSUME NEW g \in FiberGens \ crossed'
       PROVE  GenerationInv(g)'
  <2>1. LiveFibers(g)' = {}
    BY <1>2, <1>8 DEF LiveFibers
  <2>2. services = {}
    BY <1>1, <1>7 DEF OwnedByLiveFiber
  <2>3. AllOrNothing(g)'
    BY <2>2, <1>2 DEF AllOrNothing, KeysOf
  <2>4. \A c \in FiberCallers : fcall'[c].gen # g
    BY <1>10, FiberAssumption
  <2> QED
    BY <2>1, <2>3, <2>4 DEF GenerationInv, OwnerStays
<1> QED
  BY <1>9, <1>12, <1>13, <1>14, <1>15 DEF FiberInv

\* At any moment, however the mounts and disposals of any number of runs
\* interleave: what is provided belongs to one live fiber each, the first mount
\* goes last, a generation is mounted whole or not at all once nobody works on
\* it, and Close leaves nothing (Context.Plugin, fiber.Dispose,
\* mountProviderGeneration, unmountProviderPlugins).
THEOREM FibersAreConsistent == FiberSpec => []FibersConsistent
<1>1. FiberInit => FiberInv
  BY FibersStart
<1>2. ASSUME FiberInv, [FiberNext]_<<fiberVars, budget>>
      PROVE  FiberInv'
  <2>1. CASE DisposeContext
    BY <1>2, <2>1, ContextDisposalBegins
  <2>2. ASSUME NEW c \in FiberCallers,
               \/ resolveProviderServiceDependencies(c) \/ Plugin(c) \/ Provide(c) \/ PluginMounted(c)
               \/ \E g \in FiberGens :
                    \/ mountProviderGeneration(c, g) \/ unmountProviderGeneration(c, g)
                    \/ \E family \in 1..FiberServices : displaceCordisCapabilityFamilies(c, g, family)
        PROVE  FiberInv'
    <3>1. CASE Plugin(c)
      <4>1. CASE fcall'[c].pc # "next"
        BY <1>2, <3>1, <4>1, PluginKeepsFibers
      <4>2. CASE fcall'[c].pc = "next"
        <5>1. FibersTyped /\ c \in FiberActors
          BY <1>2 DEF FiberInv, FiberActors
        <5>2. FiberGoes(c, "next") /\ UNCHANGED <<fibers, applyMu>>
          <6>1. ASSUME NEW f \in Fibers, NEW k \in 0..MaxFibers,
                       fcall' = [fcall EXCEPT ![c].pc = "apply", ![c].fiber = f, ![c].conn = k]
                PROVE  FALSE
            BY <6>1, <5>1, <4>2 DEF FibersTyped, FiberCalls
          <6>2. \A f \in Fibers : (IF fcall[c].service = 1 THEN f ELSE fcall[c].conn) \in 0..MaxFibers
            BY <5>1, FiberAssumption DEF FibersTyped, FiberCalls, Fibers
          <6> QED
            BY <6>1, <6>2, <3>1 DEF Plugin
        <5>3. FiberAt(c, "plugin") /\ UNCHANGED <<fiberTables, contextDisposal, crossed>>
          BY <3>1, <5>2 DEF Plugin, fiberTables
        <5> QED
          BY <1>2, <5>2, <5>3, PluginRefused
      <4> QED
        BY <4>1, <4>2
    <3> QED
      BY <1>2, <2>2, <3>1, Resolves, ProvideKeepsFibers, MountedKeepsFibers, MountBegins, UnmountBegins,
         DisplacementBegins
  <2>3. ASSUME NEW c \in FiberActors, Dispose(c)
        PROVE  FiberInv'
    <3>1. PICK f \in Fibers :
            /\ LastMounted(fcall[c].queue, f)
            /\ IF fibers[f].st \in {"disposing", "disposed"}
               THEN fcall' = [fcall EXCEPT ![c].queue = @ \ {f}] /\ UNCHANGED fibers
               ELSE /\ fcall' = [fcall EXCEPT ![c].pc = "effects", ![c].fiber = f, ![c].queue = @ \ {f}]
                    /\ fibers' = [fibers EXCEPT ![f].st = "disposing"]
      BY <2>3 DEF Dispose
    <3>2. FiberAt(c, "next") /\ UNCHANGED <<plugins, services, applyMu, closedConns, contextDisposal, crossed>>
      BY <2>3 DEF Dispose
    <3>3. CASE fibers[f].st \notin {"disposing", "disposed"}
      <4>1. Marks(c, f)
        BY <3>1, <3>2, <3>3 DEF Marks
      <4> QED
        BY <1>2, <4>1, MarkKeepsFibers
    <3>4. CASE fibers[f].st \in {"disposing", "disposed"}
      <4>1. f \in fcall[c].queue
        BY <3>1 DEF LastMounted
      <4>2. c \in FiberCallers
        <5>1. CallsTyped /\ ContextDisposal
          BY <1>2 DEF FiberInv
        <5>2. c = NoFiber => contextDisposal = "running"
          BY <5>1, <3>2, <1>2 DEF CallsTyped, FiberAt
        <5> QED
          BY <5>1, <5>2, <4>1, <3>4 DEF ContextDisposal, FiberActors
      <4>3. UNCHANGED <<fiberTables, contextDisposal, crossed>>
        BY <3>1, <3>2, <3>4 DEF fiberTables
      <4> QED
        BY <1>2, <3>1, <3>2, <3>4, <4>1, <4>2, <4>3, CallerSkips
    <3> QED
      BY <3>3, <3>4
  <2>4. ASSUME NEW c \in FiberActors, DisposePlugin(c) \/ DisposalReturns(c)
        PROVE  FiberInv'
    <3>1. CASE c \in FiberCallers
      BY <1>2, <2>4, <3>1, CallerLooksUp, CallerReturns
    <3>2. CASE c = NoFiber
      <4>1. ~DisposePlugin(c)
        <5>1. CallsTyped /\ ContextDisposal
          BY <1>2 DEF FiberInv
        <5> QED
          BY <5>1, <3>2 DEF CallsTyped, ContextDisposal, DisposePlugin, FiberAt, LastMounted
      <4> QED
        BY <1>2, <2>4, <3>2, <4>1, ContextDisposalEnds
    <3> QED
      BY <3>1, <3>2 DEF FiberActors
  <2>5. CASE UNCHANGED <<fiberVars, budget>>
    <3>1. /\ fibers' = fibers /\ plugins' = plugins /\ services' = services /\ applyMu' = applyMu
          /\ closedConns' = closedConns /\ fcall' = fcall /\ contextDisposal' = contextDisposal
          /\ crossed' = crossed
      BY <2>5 DEF fiberVars
    <3>2. \A c \in FiberActors : (Mounting(c)' <=> Mounting(c)) /\ (Unmounting(c)' <=> Unmounting(c))
            /\ (Applying(c)' <=> Applying(c)) /\ (Marking(c)' <=> Marking(c))
            /\ Left(c)' = Left(c) /\ InHand(c)' = InHand(c)
      BY <3>1 DEF Mounting, Unmounting, Applying, Marking, Left, InHand
    <3> QED
      BY <1>2, <3>1 DEF FiberInv, FibersTyped, CallsTyped, Numbered, OneApplies, OneDisposes, ListsArePast,
         OwnedByLiveFiber, ClosedByOwner, OwnGeneration, ContextDisposal, GenerationInv, OwnerStays,
         MountGoesOn, UnmountGoesOn, AllOrNothing, KeysOf, LiveFibers, ProvidedBy, Mounting, Unmounting,
         Applying, Marking, Left, InHand, FiberAt, Busy, MountKey
  <2> QED
    BY <1>2, <2>1, <2>2, <2>3, <2>4, <2>5, EffectsKeepFibers, RemovalKeepsFibers DEF FiberNext
<1>3. FiberInv => FibersConsistent
  BY FibersFollow
<1> QED
  BY <1>1, <1>2, <1>3, PTL DEF FiberSpec
============================================================================
