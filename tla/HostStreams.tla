---------------------------- MODULE HostStreams ----------------------------
(***************************************************************************)
(* Streams the agent holds open for a caller: VM consoles on a PTY         *)
(* (internal/console), and TCP relays (internal/tcprelay) with the         *)
(* connectors that share them: SQL connectors, counted by use and drained  *)
(* when idle, and the guest bridge.  A block under a mutex is one step.    *)
(***************************************************************************)
EXTENDS ToolCalls, Integers, FiniteSets

CONSTANTS Ptys, StreamOps, ConsoleVMs, NoPty,
          SqlDatabases, RelayPorts, Relays, RelayConns, SqlCallers, BridgeTargets, NoStream,
          SqlConnectorMax  \* sqlConnectorMaxPerHost
SqlEntries == [uses : Int, timer : BOOLEAN]
ASSUME StreamsAssumption ==
  /\ NoPty \notin Ptys \cup StreamOps \cup ConsoleVMs
  /\ NoStream \notin Relays \cup SqlDatabases \cup RelayPorts \cup SqlEntries

VARIABLES
  ptys,           \* a PTY: how far it is, and the operation and VM it is for
  streams, byVM,  \* Runtime's two maps
  relays,         \* a relay: its state, session id and port
  relayOf, portOf,   \* Manager's two maps
  relayConns,     \* a connection: its state and the relay that accepted it
  sqlSessions,    \* the supervisor's table: uses and idle timer of a database
  sqlCall,        \* the call, or the timer, at work
  sqlStopped,     \* how far stopAll is, and the databases it found
  bridgeRelay     \* target of the guest bridge relay

consoleVars == <<ptys, streams, byVM>>
relayVars == <<relays, relayOf, portOf, relayConns, sqlSessions, sqlCall, sqlStopped, bridgeRelay>>

NoSqlCall == [pc |-> "idle", db |-> NoStream, port |-> NoStream, relay |-> NoStream]

PtyRows == [state : {"free", "started", "live", "closed", "gone"},
            op : StreamOps \cup {NoPty}, vm : ConsoleVMs \cup {NoPty}]

ConsoleTypeOK ==
  /\ ptys \in [Ptys -> PtyRows]
  /\ streams \in [StreamOps -> Ptys \cup {NoPty}] /\ byVM \in [ConsoleVMs -> Ptys \cup {NoPty}]

RelayRows == [state : {"free", "open", "unlinked", "cut", "closed"},
              db : SqlDatabases \cup {NoStream}, port : RelayPorts \cup {NoStream}]
SqlCallRows == [pc : {"idle", "start", "record", "drain", "stop", "cut", "unlisten"},
                db : SqlDatabases \cup {NoStream}, port : RelayPorts \cup {NoStream},
                relay : Relays \cup {NoStream}]

RelayTypeOK ==
  /\ relays \in [Relays -> RelayRows]
  /\ relayOf \in [SqlDatabases -> Relays \cup {NoStream}]
  /\ portOf \in [RelayPorts -> SqlDatabases \cup {NoStream}]
  /\ sqlSessions \in [SqlDatabases -> SqlEntries \cup {NoStream}]
  /\ sqlCall \in [SqlCallers -> SqlCallRows]
  /\ sqlStopped.pc \in {"no", "emptied", "done"}

ConsoleInit ==
  /\ ptys = [p \in Ptys |-> [state |-> "free", op |-> NoPty, vm |-> NoPty]]
  /\ streams = [o \in StreamOps |-> NoPty] /\ byVM = [v \in ConsoleVMs |-> NoPty]

RelayInit ==
  /\ relays = [r \in Relays |-> [state |-> "free", db |-> NoStream, port |-> NoStream]]
  /\ relayOf = [d \in SqlDatabases |-> NoStream] /\ portOf = [p \in RelayPorts |-> NoStream]
  /\ relayConns = [x \in RelayConns |-> [state |-> "none", relay |-> NoStream]]
  /\ sqlSessions = [d \in SqlDatabases |-> NoStream]
  /\ sqlCall = [c \in SqlCallers |-> NoSqlCall]
  /\ sqlStopped = [pc |-> "no", ids |-> {}] /\ bridgeRelay = NoStream

----------------------------------------------------------------------------
\* The PTY runs before the stream is registered.
StartsPty(p, op, vm) ==
  /\ ptys[p].state = "free" /\ Called
  /\ ptys' = [ptys EXCEPT ![p] = [state |-> "started", op |-> op, vm |-> vm]]
  /\ UNCHANGED <<streams, byVM, relayVars>>

\* The consoles a new one closes: the operation's and the VM's.
Displaced(p) == {streams[ptys[p].op], byVM[ptys[p].vm]} \ {NoPty}

Closed(table, which) ==
  [p \in Ptys |-> [table[p] EXCEPT !.state = IF p \in which /\ @ = "live" THEN "closed" ELSE @]]

\* The locked part of open: the VM's prior console also leaves streams, by its
\* operation; the operation's prior console stays in byVM.
open(p) ==
  LET prior == byVM[ptys[p].vm] IN
  /\ ptys[p].state = "started" /\ UNCHANGED <<budget, relayVars>>
  /\ ptys' = [Closed(ptys, Displaced(p)) EXCEPT ![p].state = "live"]
  /\ streams' = [o \in StreamOps |->
       IF o = ptys[p].op THEN p
       ELSE IF prior # NoPty /\ ptys[prior].op = o THEN NoPty ELSE streams[o]]
  /\ byVM' = [byVM EXCEPT ![ptys[p].vm] = p]

\* The console's process ends.
PtyExits(p) ==
  /\ ptys[p].state = "live" /\ Trouble
  /\ ptys' = [ptys EXCEPT ![p].state = "closed"]
  /\ UNCHANGED <<streams, byVM, relayVars>>

Forgets(p, table, key) == [table EXCEPT ![key] = IF @ = p THEN NoPty ELSE @]

\* The reader of a closed PTY forgets the stream if it is still the current
\* one of its operation.
ReaderEnds(p) ==
  /\ ptys[p].state = "closed" /\ UNCHANGED <<budget, relayVars>>
  /\ ptys' = [ptys EXCEPT ![p].state = "gone"]
  /\ IF streams[ptys[p].op] = p
       THEN streams' = Forgets(p, streams, ptys[p].op) /\ byVM' = Forgets(p, byVM, ptys[p].vm)
       ELSE UNCHANGED <<streams, byVM>>

CloseStream(op) ==
  LET p == streams[op] IN
  /\ p # NoPty /\ Called /\ UNCHANGED relayVars
  /\ ptys' = Closed(ptys, {p})
  /\ streams' = Forgets(p, streams, op) /\ byVM' = Forgets(p, byVM, ptys[p].vm)

AbortAll ==
  LET all == {streams[o] : o \in StreamOps} \ {NoPty} IN
  /\ all # {} /\ Called /\ UNCHANGED relayVars
  /\ ptys' = Closed(ptys, all) /\ streams' = [o \in StreamOps |-> NoPty]
  /\ byVM' = [v \in ConsoleVMs |-> IF \E p \in all : ptys[p].vm = v THEN NoPty ELSE byVM[v]]

ConsoleNext ==
  \/ \E p \in Ptys : open(p) \/ PtyExits(p) \/ ReaderEnds(p)
  \/ \E p \in Ptys, op \in StreamOps, vm \in ConsoleVMs : StartsPty(p, op, vm)
  \/ (\E op \in StreamOps : CloseStream(op)) \/ AbortAll

ConsoleSpec == ConsoleInit /\ [][ConsoleNext]_consoleVars

----------------------------------------------------------------------------
SqlAt(c, pc) == sqlCall[c].pc = pc
SqlGoes(c, pc) == sqlCall' = [sqlCall EXCEPT ![c].pc = pc]
SqlEnds(c) == sqlCall' = [sqlCall EXCEPT ![c] = NoSqlCall]

\* ensureConnector up to the relay: a session in the table is used once more
\* and its idle timer is stopped.
ensureConnector(c, db, port) ==
  /\ SqlAt(c, "idle") /\ Called
  /\ IF sqlSessions[db] # NoStream
       THEN /\ sqlSessions' = [sqlSessions EXCEPT ![db] = [uses |-> @.uses + 1, timer |-> FALSE]]
            /\ UNCHANGED sqlCall
       ELSE /\ Cardinality({d \in SqlDatabases : sqlSessions[d] # NoStream}) < SqlConnectorMax
            /\ sqlCall' = [sqlCall EXCEPT ![c] = [NoSqlCall EXCEPT !.pc = "start", !.db = db, !.port = port]]
            /\ UNCHANGED sqlSessions
  /\ UNCHANGED <<relays, relayOf, portOf, relayConns, sqlStopped, bridgeRelay, consoleVars>>

\* Manager.Start: refused while the session id or the port is in its maps or
\* the port's old listener is still open.
Start(c) ==
  LET db == sqlCall[c].db  port == sqlCall[c].port IN
  /\ SqlAt(c, "start")
  /\ \/ /\ relayOf[db] = NoStream /\ portOf[port] = NoStream
        /\ \A r \in Relays : relays[r].port = port => relays[r].state \in {"free", "closed"}
        /\ \E r \in Relays :
             /\ relays[r].state = "free"
             /\ relays' = [relays EXCEPT ![r] = [state |-> "open", db |-> db, port |-> port]]
             /\ relayOf' = [relayOf EXCEPT ![db] = r] /\ portOf' = [portOf EXCEPT ![port] = db]
        /\ SqlGoes(c, "record")
     \/ /\ relayOf[db] # NoStream \/ portOf[port] # NoStream
           \/ \E r \in Relays : relays[r].port = port /\ relays[r].state \in {"unlinked", "cut"}
        /\ SqlEnds(c) /\ UNCHANGED <<relays, relayOf, portOf>>
  /\ UNCHANGED <<relayConns, sqlSessions, sqlStopped, bridgeRelay, consoleVars, budget>>

RecordsConnector(c) ==
  /\ SqlAt(c, "record") /\ SqlEnds(c)
  /\ sqlSessions' = [sqlSessions EXCEPT ![sqlCall[c].db] = [uses |-> 1, timer |-> FALSE]]
  /\ UNCHANGED <<relays, relayOf, portOf, relayConns, sqlStopped, bridgeRelay, consoleVars, budget>>

\* releaseConnector: a forced one drains, the last use starts the idle timer.
releaseConnector(c, db, force) ==
  /\ SqlAt(c, "idle") /\ Called /\ sqlSessions[db] # NoStream
  /\ IF force
       THEN /\ sqlCall' = [sqlCall EXCEPT ![c] = [NoSqlCall EXCEPT !.pc = "drain", !.db = db]]
            /\ UNCHANGED sqlSessions
       ELSE /\ sqlSessions' = [sqlSessions EXCEPT ![db] =
                 [uses |-> @.uses - 1, timer |-> @.timer \/ @.uses <= 1]]
            /\ UNCHANGED sqlCall
  /\ UNCHANGED <<relays, relayOf, portOf, relayConns, sqlStopped, bridgeRelay, consoleVars>>

\* The idle timer checks the count, unlocks and drains.
IdleTimerFires(c, db) ==
  /\ SqlAt(c, "idle") /\ sqlSessions[db] # NoStream /\ sqlSessions[db].timer
  /\ sqlSessions' = [sqlSessions EXCEPT ![db].timer = FALSE]
  /\ sqlCall' = IF sqlSessions[db].uses > 0 THEN sqlCall
                ELSE [sqlCall EXCEPT ![c] = [NoSqlCall EXCEPT !.pc = "drain", !.db = db]]
  /\ UNCHANGED <<relays, relayOf, portOf, relayConns, sqlStopped, bridgeRelay, consoleVars, budget>>

\* Mutant of drainSession: the relay is stopped, the table entry stays.
DrainStopsOnly(c) ==
  /\ SqlAt(c, "drain")
  /\ IF sqlSessions[sqlCall[c].db] # NoStream THEN SqlGoes(c, "stop") ELSE SqlEnds(c)
  /\ UNCHANGED sqlSessions

\* Only the drain that finds the entry goes on to stop the relay.
drainSession(c) ==
  /\ SqlAt(c, "drain")
  /\ sqlSessions' = [sqlSessions EXCEPT ![sqlCall[c].db] = NoStream]
  /\ IF sqlSessions[sqlCall[c].db] # NoStream THEN SqlGoes(c, "stop") ELSE SqlEnds(c)

Drains(c) ==
  /\ drainSession(c)
  /\ UNCHANGED <<relays, relayOf, portOf, relayConns, sqlStopped, bridgeRelay, consoleVars, budget>>

\* Stop takes the session out of both maps first.
Unlinked(r) ==
  /\ relayOf' = [relayOf EXCEPT ![relays[r].db] = NoStream]
  /\ portOf' = [portOf EXCEPT ![relays[r].port] = NoStream]

Stop(c) ==
  LET r == relayOf[sqlCall[c].db] IN
  /\ SqlAt(c, "stop") /\ r # NoStream /\ Unlinked(r)
  /\ relays' = [relays EXCEPT ![r].state = "unlinked"]
  /\ sqlCall' = [sqlCall EXCEPT ![c].pc = "cut", ![c].relay = r]
  /\ UNCHANGED <<relayConns, sqlSessions, sqlStopped, bridgeRelay, consoleVars, budget>>

StopFindsNone(c) ==
  /\ SqlAt(c, "stop") /\ relayOf[sqlCall[c].db] = NoStream /\ SqlEnds(c)
  /\ UNCHANGED <<relays, relayOf, portOf, relayConns, sqlSessions, sqlStopped, bridgeRelay, consoleVars, budget>>

\* Then it closes the connections it tracks, then the listener.
CutsConnections(c) ==
  LET r == sqlCall[c].relay IN
  /\ SqlAt(c, "cut") /\ SqlGoes(c, "unlisten")
  /\ relays' = [relays EXCEPT ![r].state = "cut"]
  /\ relayConns' = [x \in RelayConns |-> IF relayConns[x] = [state |-> "piped", relay |-> r]
                      THEN [relayConns[x] EXCEPT !.state = "over"] ELSE relayConns[x]]
  /\ UNCHANGED <<relayOf, portOf, sqlSessions, sqlStopped, bridgeRelay, consoleVars, budget>>

ClosesListener(c) ==
  /\ SqlAt(c, "unlisten") /\ SqlEnds(c)
  /\ relays' = [relays EXCEPT ![sqlCall[c].relay].state = "closed"]
  /\ UNCHANGED <<relayOf, portOf, relayConns, sqlSessions, sqlStopped, bridgeRelay, consoleVars, budget>>

\* stopAll empties the table, then drains what was ensured again meanwhile of
\* the databases it found, and the manager stops the relays it then has.
stopAll ==
  /\ sqlStopped.pc = "no" /\ Called
  /\ sqlStopped' = [pc |-> "emptied", ids |-> {d \in SqlDatabases : sqlSessions[d] # NoStream}]
  /\ sqlSessions' = [d \in SqlDatabases |-> NoStream]
  /\ UNCHANGED <<relays, relayOf, portOf, relayConns, sqlCall, bridgeRelay, consoleVars>>

StopAll ==
  /\ sqlStopped.pc = "emptied" /\ sqlStopped' = [pc |-> "done", ids |-> {}]
  /\ sqlSessions' = [d \in SqlDatabases |-> IF d \in sqlStopped.ids THEN NoStream ELSE sqlSessions[d]]
  /\ relays' = [r \in Relays |-> [relays[r] EXCEPT !.state = IF @ = "open" THEN "closed" ELSE @]]
  /\ relayOf' = [d \in SqlDatabases |-> NoStream] /\ portOf' = [p \in RelayPorts |-> NoStream]
  /\ relayConns' = [x \in RelayConns |-> IF relayConns[x].state = "piped"
                      THEN [relayConns[x] EXCEPT !.state = "over"] ELSE relayConns[x]]
  /\ UNCHANGED <<sqlCall, bridgeRelay, consoleVars, budget>>

\* A connection is accepted, then tracked once the target was dialled.
acceptLoop(x, r) ==
  /\ relayConns[x].state = "none" /\ relays[r].state \in {"open", "unlinked", "cut"} /\ Called
  /\ relayConns' = [relayConns EXCEPT ![x] = [state |-> "dialing", relay |-> r]]
  /\ UNCHANGED <<relays, relayOf, portOf, sqlSessions, sqlCall, sqlStopped, bridgeRelay, consoleVars>>

pipe(x) ==
  /\ relayConns[x].state = "dialing"
  /\ \E reached \in BOOLEAN :
       relayConns' = [relayConns EXCEPT ![x].state = IF reached THEN "piped" ELSE "over"]
  /\ UNCHANGED <<relays, relayOf, portOf, sqlSessions, sqlCall, sqlStopped, bridgeRelay, consoleVars, budget>>

\* ensureGuestBridgeReachability: a port in use counts as done, whatever the
\* relay on it forwards to.
ensureGuestBridgeReachability(target) ==
  /\ Called /\ bridgeRelay' = IF bridgeRelay = NoStream THEN target ELSE bridgeRelay
  /\ UNCHANGED <<relays, relayOf, portOf, relayConns, sqlSessions, sqlCall, sqlStopped, consoleVars>>

StopGuestBridgeRelays ==
  /\ bridgeRelay # NoStream /\ Called /\ bridgeRelay' = NoStream
  /\ UNCHANGED <<relays, relayOf, portOf, relayConns, sqlSessions, sqlCall, sqlStopped, consoleVars>>

RelayNext ==
  \/ \E c \in SqlCallers :
       \/ \E db \in SqlDatabases :
            \/ \E port \in RelayPorts : ensureConnector(c, db, port)
            \/ \E force \in BOOLEAN : releaseConnector(c, db, force)
            \/ IdleTimerFires(c, db)
       \/ Start(c) \/ RecordsConnector(c) \/ Drains(c) \/ Stop(c) \/ StopFindsNone(c)
       \/ CutsConnections(c) \/ ClosesListener(c)
  \/ stopAll \/ StopAll
  \/ \E x \in RelayConns : pipe(x) \/ \E r \in Relays : acceptLoop(x, r)
  \/ (\E target \in BridgeTargets : ensureGuestBridgeReachability(target)) \/ StopGuestBridgeRelays

RelaySpec == RelayInit /\ [][RelayNext]_relayVars
StreamsSpec == ConsoleSpec /\ RelaySpec

----------------------------------------------------------------------------
\* Two consoles of one VM are never open at once, however streams are opened,
\* moved between operations, closed and read to their end (open, byVM).
OneConsolePerVM ==
  \A p, q \in Ptys : ptys[p].state = "live" /\ ptys[q].state = "live" /\ ptys[p].vm = ptys[q].vm => p = q

\* Until everything is stopped, a database in the connector table has an open
\* relay, so a caller is never handed the endpoint of a relay that is gone,
\* and every port in the relay's map belongs to a session that is open.
ConnectorHasRelay ==
  /\ sqlStopped.pc = "no" => \A d \in SqlDatabases :
       sqlSessions[d] # NoStream => relayOf[d] # NoStream /\ relays[relayOf[d]].state = "open"
  /\ \A p \in RelayPorts : portOf[p] # NoStream =>
       relayOf[portOf[p]] # NoStream /\ relays[relayOf[portOf[p]]].port = p

\* The tables of consoles, connectors and relays name what is really open.
StreamsConsistent == OneConsolePerVM /\ ConnectorHasRelay
=============================================================================
