---------------------------- MODULE McpTransport ----------------------------
(***************************************************************************)
(* One request through the HTTP transport (internal/transport): origin and *)
(* credential, the 2026-07-28 contract or the enumerated bypass of it, the *)
(* rewriting of a catalog tool name to the prefixed wire name, and the     *)
(* handler it ends at.  A header value is what decodeRFC2047 makes of it,  *)
(* with a flag that says whether it was sent encoded.                      *)
(***************************************************************************)
EXTENDS Naturals

CONSTANTS NoRequest

Methods == {"initialize", "tools/call", "prompts/list", "tasks/get", "server/discover"}

VARIABLES legacyAllowed,  \* the option AllowLegacyHandshake
          toolPrefixed,   \* the agent publishes its tools under a prefix
          httpFront,      \* origin, host and credential of the request
          httpRequest,    \* its method, metadata and headers
          httpOutcome     \* where it ended

transportVars == <<legacyAllowed, toolPrefixed, httpFront, httpRequest, httpOutcome>>

Versions == {"absent", "modern", "other"}
\* A tool's or task's name; "catalog" is a tool's name without the prefix.
WireNames == {"absent", "catalog", "wire"}
Fronts == [origin : BOOLEAN, local : BOOLEAN,
           credential : {"none", "bootstrap", "token", "otherAudience", "deadToken"}]
Requests ==
  [method : Methods, metaVersion : Versions, headerVersion : Versions,
   headerMethod : {"same", "other"}, clientInfo : BOOLEAN, tasksExtension : BOOLEAN,
   name : WireNames, headerName : WireNames, encoded : BOOLEAN]

TransportTypeOK ==
  /\ httpFront = NoRequest \/ httpFront \in Fronts
  /\ httpRequest = NoRequest \/ httpRequest \in Requests
  /\ httpOutcome \in {"none", "refused", "accepted", "protocolError", "extension", "sdk"}

TransportInit ==
  /\ legacyAllowed \in BOOLEAN /\ toolPrefixed \in BOOLEAN
  /\ httpFront = NoRequest /\ httpRequest = NoRequest /\ httpOutcome = "none"

----------------------------------------------------------------------------
\* The bootstrap token counts only on an address of this host; a stored one
\* must be alive and made out to this endpoint.
AuthorizeRequest(front) ==
  \/ front.credential = "bootstrap" /\ front.local
  \/ front.credential = "token"

\* handleMCP up to the decision.
ReceivesRequest(front) ==
  /\ httpOutcome = "none"
  /\ httpFront' = front
  /\ httpOutcome' = IF front.origin /\ AuthorizeRequest(front) THEN "accepted" ELSE "refused"
  /\ UNCHANGED <<legacyAllowed, toolPrefixed, httpRequest>>

isRetiredHandshake(method) == method = "initialize"
isLegacyCompatibleMethod(method) == method \in {"initialize", "tools/call", "prompts/list"}
isModernOnlyMethod(method) == method \in {"server/discover", "tasks/get"}
isModernMCPRequest(r) == r.metaVersion # "absent"

\* Mutant of skipModernValidation: a request that does not ask to be checked
\* is not.
SkipsUnasked(r) == legacyAllowed /\ (isRetiredHandshake(r.method) \/ ~isModernMCPRequest(r))

skipModernValidation(r) ==
  /\ legacyAllowed /\ isLegacyCompatibleMethod(r.method)
  /\ isRetiredHandshake(r.method) \/ ~isModernMCPRequest(r)

\* The version key, the three headers against the body, the two metadata
\* keys, and for tasks/* the extension and the task it names.
validateModernMCPRequest(r) ==
  /\ r.metaVersion = "modern" /\ r.headerVersion = "modern" /\ r.headerMethod = "same"
  /\ r.clientInfo
  /\ r.method = "tools/call" => r.headerName # "absent" /\ r.headerName = r.name
  /\ r.method = "tasks/get" => r.tasksExtension /\ r.name # "absent" /\ r.headerName = r.name

ResolveIncomingToolCallName(name) == IF toolPrefixed /\ name = "catalog" THEN "wire" ELSE name

\* The body takes the resolved name, and so does a header that was absent or
\* equal to the name as sent; an encoded header is not equal to it.
rewriteIncomingToolCallName(r) ==
  IF r.method # "tools/call" \/ r.name = "absent" THEN r
  ELSE LET resolved == ResolveIncomingToolCallName(r.name) IN
       IF resolved = r.name THEN r
       ELSE [r EXCEPT !.name = resolved,
               !.headerName = IF r.headerName = "absent" \/ (r.headerName = r.name /\ ~r.encoded)
                                THEN resolved ELSE r.headerName]

\* handleMCP from the body on, once the request is accepted.
handleMCP(r) ==
  /\ httpRequest' = rewriteIncomingToolCallName(r)
  /\ httpOutcome' =
       IF \/ isRetiredHandshake(r.method) /\ ~legacyAllowed
          \/ ~skipModernValidation(r) /\ ~validateModernMCPRequest(r) THEN "protocolError"
       ELSE IF isModernOnlyMethod(r.method) THEN "extension" ELSE "sdk"
  /\ UNCHANGED <<legacyAllowed, toolPrefixed, httpFront>>

TransportNext ==
  \/ \E front \in Fronts : ReceivesRequest(front)
  \/ httpOutcome = "accepted" /\ \E r \in Requests : handleMCP(r)

TransportSpec == TransportInit /\ [][TransportNext]_transportVars

----------------------------------------------------------------------------
\* Whatever the legacy option, a method of the 2026-07-28 surface reaches its
\* handler only under the full contract, a client that negotiates is held to
\* it on every method but the retired handshake, and the header of a tool
\* call still agrees with the body after the name was rewritten (handleMCP,
\* skipModernValidation).
ServedUnderContract ==
  httpOutcome \in {"extension", "sdk"} =>
    LET r == httpRequest IN
    /\ isModernOnlyMethod(r.method) \/ ~legacyAllowed
         \/ (isModernMCPRequest(r) /\ r.method # "initialize")
       => /\ r.metaVersion = "modern" /\ r.headerVersion = "modern" /\ r.headerMethod = "same"
          /\ r.method = "tools/call" /\ ~r.encoded => r.headerName = r.name
    /\ r.method = "tasks/get" => r.tasksExtension
=============================================================================
