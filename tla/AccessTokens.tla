---------------------------- MODULE AccessTokens ----------------------------
(***************************************************************************)
(* The agent's own authorization server (internal/authz): registered       *)
(* clients, single-use authorization codes and bearer tokens in one SQLite *)
(* store.  A statement or a transaction of the store is one step; handlers *)
(* of concurrent requests interleave between them.  Secrets, challenges    *)
(* and hashes are compared, so a request either presents the right one or  *)
(* not.  One unit of time is a code's lifetime.                            *)
(***************************************************************************)
EXTENDS ToolCalls, FiniteSets

CONSTANTS MetadataClients,  \* clients named by an https metadata URL
          AccessResources,  \* audiences: scheme and host of the MCP endpoint
          AuthCodes, AccessTokenIds, AuthRequests, NoAccess,
          TokenTTL, TokenGrace, MaxClock
ASSUME AccessAssumption ==
  /\ TokenTTL \in Nat /\ TokenGrace \in Nat /\ MaxClock \in Nat
  /\ NoAccess \notin AuthCodes

BootstrapClient == "host-agent-bootstrap"
OputeClient == "opute-mcp-host"
OAuthClients == MetadataClients \cup {BootstrapClient, OputeClient}

VARIABLES
  authClock,     \* seconds, in units of authCodeTTL
  authClients,   \* table clients: client_id -> confidential, has a secret
  authCodes,     \* table codes
  authTokens,    \* table tokens
  authHandler,   \* the token request a handler is in the middle of
  minted,        \* history: tokens handed to a client
  withdrawn,     \* history: tokens whose revocation was answered
  unwritten      \* history: those of them whose revocation the store refused

accessVars == <<authClock, authClients, authCodes, authTokens, authHandler, minted, withdrawn, unwritten>>

NoHandler == [pc |-> "idle", client |-> NoAccess, resource |-> NoAccess, code |-> NoAccess]

CodeRows == [client : OAuthClients, resource : AccessResources, expires : Nat, used : BOOLEAN]
TokenRows == [client : OAuthClients, resource : AccessResources, expires : Nat, revoked : BOOLEAN]
TokenRequests == [pc : {"mint"}, client : OAuthClients, resource : AccessResources,
                  code : AuthCodes \cup {NoAccess}]

AccessTypeOK ==
  /\ authClock \in 0..MaxClock
  /\ authClients \in [OAuthClients -> [confidential : BOOLEAN, secret : BOOLEAN] \cup {NoAccess}]
  /\ DOMAIN authCodes \subseteq AuthCodes /\ authCodes \in [DOMAIN authCodes -> CodeRows]
  /\ DOMAIN authTokens \subseteq AccessTokenIds /\ authTokens \in [DOMAIN authTokens -> TokenRows]
  /\ authHandler \in [AuthRequests -> TokenRequests \cup {NoHandler}]
  /\ DOMAIN minted \subseteq AccessTokenIds
  /\ minted \in [DOMAIN minted -> [row : TokenRows, code : AuthCodes \cup {NoAccess}]]
  /\ unwritten \subseteq withdrawn /\ withdrawn \subseteq DOMAIN minted

Added(f, k, v) == [x \in DOMAIN f \cup {k} |-> IF x = k THEN v ELSE f[x]]

\* Open registers the two built-in clients again at every start; the secret of
\* the second is whatever the configuration says now.
Registered(clients, secret) ==
  [c \in OAuthClients |->
     IF c = BootstrapClient THEN [confidential |-> TRUE, secret |-> FALSE]
     ELSE IF c = OputeClient THEN [confidential |-> TRUE, secret |-> secret]
     ELSE clients[c]]

AccessInit ==
  /\ authClock = 0
  /\ \E secret \in BOOLEAN : authClients = Registered([c \in OAuthClients |-> NoAccess], secret)
  /\ authCodes = [c \in {} |-> NoAccess] /\ authTokens = [t \in {} |-> NoAccess]
  /\ authHandler = [h \in AuthRequests |-> NoHandler]
  /\ minted = [t \in {} |-> NoAccess] /\ withdrawn = {} /\ unwritten = {}

HandlerAt(h, pc) == authHandler[h].pc = pc
HandlerEnds(h) == authHandler' = [authHandler EXCEPT ![h] = NoHandler]

----------------------------------------------------------------------------
\* A client of the table may use a registered or a loopback redirect; another
\* is fetched from its metadata URL, which must list the redirect.
resolveClient(client, listed, fetched) ==
  IF authClients[client] # NoAccess THEN listed
  ELSE client \in MetadataClients /\ fetched /\ listed

fetchCIMD == [confidential |-> FALSE, secret |-> FALSE]

\* handleAuthorize: a well-formed request of a known client gets a code.  The
\* upsert of a fetched client may fail and is ignored.
handleAuthorize(client, resource, code) ==
  /\ Called /\ code \notin DOMAIN authCodes
  /\ \E listed, fetched, saved \in BOOLEAN :
       /\ resolveClient(client, listed, fetched)
       /\ authClients' = IF authClients[client] = NoAccess /\ saved
                           THEN [authClients EXCEPT ![client] = fetchCIMD] ELSE authClients
  /\ authCodes' = Added(authCodes, code,
       [client |-> client, resource |-> resource, expires |-> authClock + 1, used |-> FALSE])
  /\ UNCHANGED <<authClock, authTokens, authHandler, minted, withdrawn, unwritten>>

\* Mutant of consumeCode: the code is read but not marked.
ReadsCode(code) == UNCHANGED authCodes

\* The transaction: read, refuse a used or expired code, mark it used.
consumeCode(code) == authCodes' = [authCodes EXCEPT ![code].used = TRUE]

CodeUsable(code) == ~authCodes[code].used /\ authClock <= authCodes[code].expires

\* issueAuthorizationCodeToken: the code is spent before the client, the
\* audience, the redirect and the challenge are compared.
issueAuthorizationCodeToken(h, code) ==
  /\ HandlerAt(h, "idle") /\ Called
  /\ code \in DOMAIN authCodes /\ CodeUsable(code) /\ consumeCode(code)
  /\ \E matches \in BOOLEAN :
       authHandler' = IF ~matches THEN authHandler
                      ELSE [authHandler EXCEPT ![h] = [pc |-> "mint", code |-> code,
                              client |-> authCodes[code].client, resource |-> authCodes[code].resource]]
  /\ UNCHANGED <<authClock, authClients, authTokens, minted, withdrawn, unwritten>>

\* issueClientCredentialsToken: a confidential client, with its secret if the
\* table has one.
issueClientCredentialsToken(h, client, resource, right) ==
  /\ HandlerAt(h, "idle") /\ Called
  /\ authClients[client] # NoAccess /\ authClients[client].confidential
  /\ authClients[client].secret => right
  /\ authHandler' = [authHandler EXCEPT ![h] = [pc |-> "mint", code |-> NoAccess,
                       client |-> client, resource |-> resource]]
  /\ UNCHANGED <<authClock, authClients, authCodes, authTokens, minted, withdrawn, unwritten>>

\* The rows the write that follows the insert keeps.
Pruned(tokens) ==
  [t \in {u \in DOMAIN tokens : tokens[u].expires + TokenGrace >= authClock} |-> tokens[t]]

\* saveToken: the insert may fail (a locked database, a full disk), which ends
\* the request; the prune may fail, which nobody notices.
saveToken(h, token) ==
  /\ HandlerAt(h, "mint") /\ token \notin DOMAIN minted
  /\ LET row  == [client |-> authHandler[h].client, resource |-> authHandler[h].resource,
                  expires |-> authClock + TokenTTL, revoked |-> FALSE]
         rows == Added(authTokens, token, row)
     IN  \/ /\ authTokens' = Pruned(rows) /\ UNCHANGED budget
            /\ minted' = Added(minted, token, [row |-> row, code |-> authHandler[h].code])
         \/ /\ authTokens' = rows /\ Trouble
            /\ minted' = Added(minted, token, [row |-> row, code |-> authHandler[h].code])
         \/ UNCHANGED <<authTokens, minted>> /\ Trouble
  /\ HandlerEnds(h)
  /\ UNCHANGED <<authClock, authClients, authCodes, withdrawn, unwritten>>

\* The UPDATE of revokeHash, which may match no row.
revokeHash(token) ==
  authTokens' = IF token \in DOMAIN authTokens
                  THEN [authTokens EXCEPT ![token].revoked = TRUE] ELSE authTokens

\* handleRevoke: an unknown token and an UPDATE that fails are answered 200 as
\* a revocation is.  The client that was told so cannot know that its token is
\* still honoured; another revocation may write it.
handleRevoke(token) ==
  /\ token \in DOMAIN minted /\ withdrawn' = withdrawn \cup {token}
  /\ \/ Called /\ revokeHash(token) /\ unwritten' = unwritten \ {token}
     \/ /\ Trouble /\ UNCHANGED authTokens
        /\ unwritten' = IF token \in withdrawn \ unwritten THEN unwritten ELSE unwritten \cup {token}
  /\ UNCHANGED <<authClock, authClients, authCodes, authHandler, minted>>

\* Authorize for a token of the store.
Authorize(token, resource) ==
  /\ token \in DOMAIN authTokens
  /\ ~authTokens[token].revoked /\ authClock <= authTokens[token].expires
  /\ authTokens[token].resource = resource

\* The agent restarts: handlers are lost, the tables stay.
AgentReopens(secret) ==
  /\ Trouble
  /\ authClients' = Registered(authClients, secret)
  /\ authHandler' = [h \in AuthRequests |-> NoHandler]
  /\ UNCHANGED <<authClock, authCodes, authTokens, minted, withdrawn, unwritten>>

AuthClockTicks ==
  /\ authClock < MaxClock /\ authClock' = authClock + 1
  /\ UNCHANGED <<authClients, authCodes, authTokens, authHandler, minted, withdrawn, unwritten, budget>>

AccessNext ==
  \/ \E client \in OAuthClients, resource \in AccessResources :
       \/ \E code \in AuthCodes : handleAuthorize(client, resource, code)
       \/ \E h \in AuthRequests, right \in BOOLEAN :
            issueClientCredentialsToken(h, client, resource, right)
  \/ \E h \in AuthRequests :
       \/ \E code \in AuthCodes : issueAuthorizationCodeToken(h, code)
       \/ \E token \in AccessTokenIds : saveToken(h, token)
  \/ \E token \in AccessTokenIds : handleRevoke(token)
  \/ \E secret \in BOOLEAN : AgentReopens(secret)
  \/ AuthClockTicks

AccessSpec == AccessInit /\ [][AccessNext]_accessVars

----------------------------------------------------------------------------
\* An authorization code buys at most one token, whatever two concurrent
\* exchanges of it, failed writes and restarts do (consumeCode's transaction).
CodeBuysOneToken ==
  \A t, u \in DOMAIN minted :
    minted[t].code # NoAccess /\ minted[t].code = minted[u].code => t = u

\* A token handed to a client is honoured, for its audience and no other,
\* exactly until it expires or is revoked: neither collecting old rows nor a
\* restart ends it earlier, and no later write brings it back.  The answer to
\* a revocation means this only when the store took the UPDATE: the tokens it
\* refused to mark stay honoured (Authorize, saveToken's prune, handleRevoke).
TokenHonouredExactly ==
  \A t \in DOMAIN minted, resource \in AccessResources :
    Authorize(t, resource) <=>
      /\ minted[t].row.resource = resource /\ (t \in withdrawn => t \in unwritten)
      /\ authClock <= minted[t].row.expires

\* Tokens follow the grants: one per code, honoured as granted.
TokensFollowGrants == CodeBuysOneToken /\ TokenHonouredExactly
=============================================================================
