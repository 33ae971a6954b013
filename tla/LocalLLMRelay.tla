--------------------------- MODULE LocalLLMRelay ---------------------------
(***************************************************************************)
(* The relay sessions in front of the host's inference runtime             *)
(* (internal/domain/llm/relay.go).  The manager's mutex covers its table   *)
(* only: a start looks at the table, closes what it replaces, listens,     *)
(* registers and saves, and every other call can run between these steps.  *)
(* A relay object is what one start creates; a policy is the list of       *)
(* allowed sources and the token for the runtime behind the relay; a       *)
(* binding stands for listen address, port and the other arguments.        *)
(***************************************************************************)
EXTENDS ToolCalls, Sequences

CONSTANTS LlmIds, LlmBinds, LlmPolicies, LlmObjects, LlmRequests, NoLlm
ASSUME NoLlmAssumption == NoLlm \notin LlmIds \cup LlmObjects \cup [bind : LlmBinds, policy : LlmPolicies]

VARIABLES
  llmTable,     \* manager.sessions
  llmRelay,     \* relay objects
  llmSaved,     \* the session files: binding and policy of an id
  llmStops,     \* ids whose stop took the table entry and has not finished, with it
  llmRestoring, \* files the start of the agent has still to open
  llmRequest,   \* inference requests: the relay they came through, and how far
  llmCrossed    \* ids on which two calls overlapped, or whose file could not be
                \* removed, or was left by a session that could not be opened again
                \* (not kept by the code)

llmRelayVars == <<llmTable, llmRelay, llmSaved, llmStops, llmRestoring, llmRequest, llmCrossed>>

NoRelayObject == [st |-> "none", id |-> NoLlm, bind |-> NoLlm, policy |-> NoLlm, old |-> NoLlm,
                  saving |-> FALSE]
NoRequest == [relay |-> NoLlm, st |-> "none"]

LlmRelayInit ==
  /\ llmTable = [i \in LlmIds |-> NoLlm]
  /\ llmRelay = [r \in LlmObjects |-> NoRelayObject]
  /\ llmSaved = [i \in LlmIds |-> NoLlm]
  /\ llmStops = {} /\ llmRestoring = {} /\ llmCrossed = {}
  /\ llmRequest = [q \in LlmRequests |-> NoRequest]

----------------------------------------------------------------------------
InStart(r) == llmRelay[r].st \in {"close", "listen", "register"} \/ llmRelay[r].saving
OldId(r) == IF llmRelay[r].old = NoLlm THEN NoLlm ELSE llmRelay[llmRelay[r].old].id

\* Ids a call in progress may still touch.
Touched == {llmRelay[r].id : r \in {x \in LlmObjects : InStart(x)}}
           \cup {OldId(r) : r \in {x \in LlmObjects : llmRelay[x].st = "close"}}
           \cup {s[1] : s \in llmStops}
Crosses(ids) == llmCrossed' = llmCrossed \cup (ids \cap Touched)

\* localLLMRelayBindingsConflict: same address and port.  A wildcard address
\* is refused by the validation of the arguments.
localLLMRelayBindingsConflict(r, bind) == llmRelay[r].bind = bind

\* The entry a start takes out of the table: the session of this id when it
\* differs, else one session whose binding is in the way.
Replaced(id, bind) ==
  IF llmTable[id] # NoLlm THEN {llmTable[id]}
  ELSE LET inTheWay == {i \in LlmIds : llmTable[i] # NoLlm /\ localLLMRelayBindingsConflict(llmTable[i], bind)}
       IN IF inTheWay = {} THEN {NoLlm} ELSE {llmTable[i] : i \in inTheWay}

\* localLLMRelayCIDRsEqual: as many, and each of the session's is asked for; a
\* source listed twice can hide one that is new.
localLLMRelayCIDRsEqual(existing, desired) ==
  Len(existing) = Len(desired) /\ {existing[k] : k \in DOMAIN existing} \subseteq {desired[k] : k \in DOMAIN desired}

\* The token for the runtime is not compared.
SameSession(id, bind, policy) ==
  /\ llmTable[id] # NoLlm /\ llmRelay[llmTable[id]].bind = bind
  /\ localLLMRelayCIDRsEqual(llmRelay[llmTable[id]].policy.sources, policy.sources)

\* start, up to the release of the mutex.  A start that finds the same session
\* returns it.
start(r, id, bind, policy) ==
  /\ llmRelay[r] = NoRelayObject /\ ~SameSession(id, bind, policy)
  /\ \E old \in Replaced(id, bind) :
       /\ llmTable' = [i \in LlmIds |-> IF old # NoLlm /\ llmTable[i] = old THEN NoLlm ELSE llmTable[i]]
       /\ llmRelay' = [llmRelay EXCEPT ![r] = [st |-> "close", id |-> id, bind |-> bind,
                                                policy |-> policy, old |-> old, saving |-> FALSE]]
       /\ Crosses({id} \cup (IF old = NoLlm THEN {} ELSE {llmRelay[old].id}))

EnsureLocalLLMRelay(r, id, bind, policy) ==
  /\ llmRestoring = {} /\ Called /\ start(r, id, bind, policy)
  /\ UNCHANGED <<llmSaved, llmStops, llmRestoring, llmRequest>>

\* restore: one start for every file.
restoreLLM(r, id) ==
  /\ id \in llmRestoring /\ ~\E x \in LlmObjects : InStart(x)
  /\ start(r, id, llmSaved[id].bind, llmSaved[id].policy)
  /\ llmRestoring' = llmRestoring \ {id}
  /\ UNCHANGED <<llmSaved, llmStops, llmRequest, budget>>

\* closeLocalLLMRelaySession: listener and connections end, so the requests
\* that came through it do.
Ended(old) == [q \in LlmRequests |-> IF llmRequest[q].relay = old THEN NoRequest ELSE llmRequest[q]]

\* Mutant of removePersistedLocalLLMRelay: the file stays.
KeepsFile(id) == UNCHANGED <<llmSaved, llmCrossed, budget>>

\* Its callers drop its error, so the file of a session that ended may stay.
removePersistedLocalLLMRelay(id) ==
  \/ llmSaved' = [llmSaved EXCEPT ![id] = NoLlm] /\ UNCHANGED <<llmCrossed, budget>>
  \/ llmSaved[id] # NoLlm /\ Trouble /\ llmCrossed' = llmCrossed \cup {id} /\ UNCHANGED llmSaved

ClosesReplaced(r) ==
  /\ llmRelay[r].st = "close"
  /\ LET old == llmRelay[r].old IN
     IF old = NoLlm
     THEN llmRelay' = [llmRelay EXCEPT ![r].st = "listen"] /\ UNCHANGED <<llmSaved, llmRequest, llmCrossed, budget>>
     ELSE /\ llmRelay' = [llmRelay EXCEPT ![r].st = "listen", ![old].st = "closed"]
          /\ removePersistedLocalLLMRelay(llmRelay[old].id)
          /\ llmRequest' = Ended(old)
  /\ UNCHANGED <<llmTable, llmStops, llmRestoring>>

\* net.Listen: refused when another listener has the binding, or a process
\* outside the agent does.  The file of a session that could not be opened
\* again stays for the next start of the agent.
FileStays(r) == {i \in LlmIds : i = llmRelay[r].id /\ llmSaved[i] # NoLlm}
Listening(x) == llmRelay[x].st \in {"register", "open"}
Listens(r) ==
  /\ llmRelay[r].st = "listen"
  /\ \/ /\ ~\E x \in LlmObjects : Listening(x) /\ llmRelay[x].bind = llmRelay[r].bind
        /\ llmRelay' = [llmRelay EXCEPT ![r].st = "register"] /\ UNCHANGED <<llmCrossed, budget>>
     \/ /\ \/ UNCHANGED budget /\ \E x \in LlmObjects : Listening(x) /\ llmRelay[x].bind = llmRelay[r].bind
           \/ Trouble
        /\ llmRelay' = [llmRelay EXCEPT ![r].st = "closed"]
        /\ llmCrossed' = llmCrossed \cup FileStays(r)
  /\ UNCHANGED <<llmTable, llmSaved, llmStops, llmRestoring, llmRequest>>

\* The entry of the id is overwritten, whatever it is by now.
RegistersSession(r) ==
  /\ llmRelay[r].st = "register"
  /\ llmTable' = [llmTable EXCEPT ![llmRelay[r].id] = r]
  /\ llmRelay' = [llmRelay EXCEPT ![r].st = "open", ![r].saving = TRUE]
  /\ UNCHANGED <<llmSaved, llmStops, llmRestoring, llmRequest, llmCrossed, budget>>

\* persistLocalLLMRelayArgs; when it fails the listener is closed and the entry
\* of the id deleted, and the file is as it was or was emptied.  A session that
\* was closed meanwhile is saved all the same.
SavesSession(r) ==
  /\ llmRelay[r].saving
  /\ \/ /\ llmSaved' = [llmSaved EXCEPT ![llmRelay[r].id] = [bind |-> llmRelay[r].bind, policy |-> llmRelay[r].policy]]
        /\ llmRelay' = [llmRelay EXCEPT ![r].saving = FALSE]
        /\ UNCHANGED <<llmTable, llmRequest, llmCrossed, budget>>
     \/ /\ Trouble
        /\ llmRelay' = [llmRelay EXCEPT ![r].st = "closed", ![r].saving = FALSE]
        /\ llmTable' = [llmTable EXCEPT ![llmRelay[r].id] = NoLlm]
        /\ llmRequest' = Ended(r)
        /\ \/ llmSaved' = llmSaved /\ llmCrossed' = llmCrossed \cup FileStays(r)
           \/ llmSaved' = [llmSaved EXCEPT ![llmRelay[r].id] = NoLlm] /\ UNCHANGED llmCrossed
  /\ UNCHANGED <<llmStops, llmRestoring>>

\* RemoveLocalLLMRelay: the table entry goes under the mutex, listener and file
\* after it.
RemoveLocalLLMRelay(id) ==
  /\ llmRestoring = {} /\ Called
  /\ llmTable' = [llmTable EXCEPT ![id] = NoLlm]
  /\ llmStops' = llmStops \cup {<<id, llmTable[id]>>}
  /\ Crosses({id})
  /\ UNCHANGED <<llmRelay, llmSaved, llmRestoring, llmRequest>>
stop(id, r) ==
  /\ <<id, r>> \in llmStops
  /\ llmStops' = llmStops \ {<<id, r>>}
  /\ removePersistedLocalLLMRelay(id)
  /\ IF r = NoLlm THEN UNCHANGED <<llmRelay, llmRequest>>
     ELSE /\ llmRelay' = [llmRelay EXCEPT ![r].st = "closed"]
          /\ llmRequest' = Ended(r)
  /\ UNCHANGED <<llmTable, llmRestoring>>

\* The agent ends and starts again.
AgentRestarts ==
  /\ Trouble /\ llmRestoring = {}
  /\ llmRelay' = [r \in LlmObjects |-> IF llmRelay[r] = NoRelayObject THEN NoRelayObject
                                       ELSE [llmRelay[r] EXCEPT !.st = "closed", !.saving = FALSE]]
  /\ llmTable' = [i \in LlmIds |-> NoLlm] /\ llmStops' = {}
  /\ llmRestoring' = {i \in LlmIds : llmSaved[i] # NoLlm}
  /\ llmRequest' = [q \in LlmRequests |-> NoRequest]
  /\ llmCrossed' = llmCrossed \cup Touched
  /\ UNCHANGED llmSaved

\* A request with the session's token; a generation waits for the lock every
\* relay of the host shares and is proxied while it has it.
relayHandler(q, r) ==
  /\ llmRequest[q] = NoRequest /\ llmRelay[r].st = "open" /\ Called
  /\ llmRequest' = [llmRequest EXCEPT ![q] = [relay |-> r, st |-> "waiting"]]
  /\ UNCHANGED <<llmTable, llmRelay, llmSaved, llmStops, llmRestoring, llmCrossed>>
acquire(q) ==
  /\ llmRequest[q].st = "waiting" /\ ~\E p \in LlmRequests : llmRequest[p].st = "proxied"
  /\ llmRequest' = [llmRequest EXCEPT ![q].st = "proxied"]
  /\ UNCHANGED <<llmTable, llmRelay, llmSaved, llmStops, llmRestoring, llmCrossed, budget>>
release(q) ==
  /\ llmRequest[q].st \in {"waiting", "proxied"}
  /\ llmRequest' = [llmRequest EXCEPT ![q] = NoRequest]
  /\ UNCHANGED <<llmTable, llmRelay, llmSaved, llmStops, llmRestoring, llmCrossed, budget>>

LlmRelayNext ==
  \/ \E r \in LlmObjects, id \in LlmIds, b \in LlmBinds, p \in LlmPolicies : EnsureLocalLLMRelay(r, id, b, p)
  \/ \E r \in LlmObjects, id \in LlmIds : restoreLLM(r, id)
  \/ \E r \in LlmObjects : ClosesReplaced(r) \/ Listens(r) \/ RegistersSession(r) \/ SavesSession(r)
  \/ \E id \in LlmIds : RemoveLocalLLMRelay(id) \/ \E r \in LlmObjects \cup {NoLlm} : stop(id, r)
  \/ AgentRestarts
  \/ \E q \in LlmRequests : acquire(q) \/ release(q) \/ \E r \in LlmObjects : relayHandler(q, r)

LlmRelaySpec == LlmRelayInit /\ BudgetInit /\ [][LlmRelayNext]_<<llmRelayVars, budget>>

----------------------------------------------------------------------------
Quiet(id) == id \notin Touched /\ id \notin llmCrossed /\ id \notin llmRestoring

\* What the agent would open after a restart is what it listens with now: the
\* file of an id, its table entry and its only open listener agree, so a session
\* that was removed or replaced neither serves on nor comes back.  Not so once
\* two calls ran into one another on the id, its file could not be removed, or
\* its session could not be opened again by restore.
RelayPolicyCurrent ==
  \A id \in LlmIds : Quiet(id) =>
    LET listening == {r \in LlmObjects : Listening(r) /\ llmRelay[r].id = id} IN
    IF llmTable[id] = NoLlm THEN listening = {} /\ llmSaved[id] = NoLlm
    ELSE /\ listening = {llmTable[id]}
         /\ llmSaved[id] = [bind |-> llmRelay[llmTable[id]].bind, policy |-> llmRelay[llmTable[id]].policy]
============================================================================
