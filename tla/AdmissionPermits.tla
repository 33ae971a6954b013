-------------------------- MODULE AdmissionPermits --------------------------
(***************************************************************************)
(* Host-local permits of the resource coordinator (admission.go,           *)
(* host_lock_unix.go): each agent of a host counts its own normal and      *)
(* heavy operations and queues the rest; a file lock shared by the agents  *)
(* keeps a heavy operation alone on the host.  Signalling closes the       *)
(* channel every waiter selected on, so it wakes those waiting now and no  *)
(* later one.  Bounds: MaxNormal, MaxHeavy and MaxQueued of the policy.    *)
(***************************************************************************)
EXTENDS ToolCalls, FiniteSets

CONSTANTS PermitAgents, PermitRequests, MaxNormal, MaxHeavy, MaxQueued
\* NewCoordinator replaces a limit that is not positive by its default.
ASSUME PermitAssumption ==
  /\ MaxNormal \in Nat \ {0} /\ MaxHeavy \in Nat \ {0} /\ MaxQueued \in Nat \ {0}
  /\ IsFiniteSet(PermitRequests)

VARIABLES
  permitOf,       \* the agent and class of a request
  permitPc,       \* where in AcquireClass it is
  normalActive, heavyActive, queued, heavyQueued,   \* counters of an agent
  pressureRefused \* a woken request was refused for critical pressure

permitVars == <<permitOf, permitPc, normalActive, heavyActive, queued, heavyQueued, pressureRefused>>
permitCounters == <<normalActive, heavyActive, queued, heavyQueued>>

PermitStates == {"idle", "pressure", "decide", "retry", "retryDecide", "lock", "holding", "unlocked",
                 "waiting", "woken"}

PermitTypeOK ==
  /\ permitOf \in [PermitRequests -> [agent : PermitAgents, class : {"normal", "heavy"}]]
  /\ permitPc \in [PermitRequests -> PermitStates]
  /\ normalActive \in [PermitAgents -> 0..MaxNormal] /\ heavyActive \in [PermitAgents -> 0..MaxHeavy]
  /\ queued \in [PermitAgents -> 0..MaxQueued] /\ heavyQueued \in [PermitAgents -> 0..MaxQueued]
  /\ pressureRefused \in BOOLEAN

PermitInit ==
  /\ permitOf \in [PermitRequests -> [agent : PermitAgents, class : {"normal", "heavy"}]]
  /\ permitPc = [r \in PermitRequests |-> "idle"]
  /\ normalActive = [a \in PermitAgents |-> 0] /\ heavyActive = normalActive
  /\ queued = normalActive /\ heavyQueued = normalActive /\ pressureRefused = FALSE

Agent(r) == permitOf[r].agent
Heavy(r) == permitOf[r].class = "heavy"
PermitGoes(r, pc) == permitPc' = [permitPc EXCEPT ![r] = pc]
Less(n) == IF n > 0 THEN n - 1 ELSE n

----------------------------------------------------------------------------
\* Mutant of signal: only one waiter is woken.
SignalsOne(a) ==
  LET waiters == {r \in PermitRequests : Agent(r) = a /\ permitPc[r] = "waiting"} IN
  IF waiters = {} THEN {} ELSE {CHOOSE r \in waiters : TRUE}

\* Who a signal wakes.
signal(a) == {r \in PermitRequests : Agent(r) = a /\ permitPc[r] = "waiting"}

\* r goes to pc and the waiters of its agent are woken.
Signals(r, pc) ==
  permitPc' = [q \in PermitRequests |->
    IF q = r THEN pc ELSE IF q \in signal(Agent(r)) THEN "woken" ELSE permitPc[q]]

canReserve(r) ==
  LET a == Agent(r) IN
  IF Heavy(r) THEN heavyActive[a] < MaxHeavy /\ normalActive[a] = 0
  ELSE heavyActive[a] = 0 /\ normalActive[a] < MaxNormal /\ heavyQueued[a] = 0

reserve(r) ==
  /\ heavyActive' = [heavyActive EXCEPT ![Agent(r)] = @ + (IF Heavy(r) THEN 1 ELSE 0)]
  /\ normalActive' = [normalActive EXCEPT ![Agent(r)] = @ + (IF Heavy(r) THEN 0 ELSE 1)]

release(r) ==
  /\ heavyActive' = [heavyActive EXCEPT ![Agent(r)] = @ - (IF Heavy(r) THEN 1 ELSE 0)]
  /\ normalActive' = [normalActive EXCEPT ![Agent(r)] = @ - (IF Heavy(r) THEN 0 ELSE 1)]
  /\ Signals(r, "idle")

dequeue(r) ==
  /\ queued' = [queued EXCEPT ![Agent(r)] = Less(@)]
  /\ heavyQueued' = [heavyQueued EXCEPT ![Agent(r)] = IF Heavy(r) THEN Less(@) ELSE @]

\* Control operations get a permit that counts nothing and are left out.
AcquireClass(r) ==
  /\ permitPc[r] = "idle" /\ Called /\ PermitGoes(r, "pressure")
  /\ UNCHANGED <<permitOf, permitCounters, pressureRefused>>

\* Memory, disk and enforcement are read without the mutex; critical pressure
\* refuses a heavy operation.
pressure(r) ==
  /\ permitPc[r] \in {"pressure", "retry"}
  /\ \/ PermitGoes(r, IF permitPc[r] = "retry" THEN "retryDecide" ELSE "decide")
        /\ UNCHANGED <<budget, pressureRefused>>
     \/ Heavy(r) /\ Trouble /\ PermitGoes(r, "idle")
        /\ pressureRefused' = (pressureRefused \/ permitPc[r] = "retry")
  /\ UNCHANGED <<permitOf, permitCounters>>

\* Under the mutex: reserve, refuse when the queue is full, or queue.
Decides(r) ==
  LET a == Agent(r) IN
  /\ permitPc[r] \in {"decide", "retryDecide"}
  /\ \/ canReserve(r) /\ reserve(r) /\ PermitGoes(r, "lock") /\ UNCHANGED <<queued, heavyQueued>>
     \/ /\ ~canReserve(r) /\ queued[a] >= MaxQueued
        /\ PermitGoes(r, "idle") /\ UNCHANGED permitCounters
     \/ /\ ~canReserve(r) /\ queued[a] < MaxQueued
        /\ queued' = [queued EXCEPT ![a] = @ + 1]
        /\ heavyQueued' = [heavyQueued EXCEPT ![a] = IF Heavy(r) THEN @ + 1 ELSE @]
        /\ PermitGoes(r, "waiting") /\ UNCHANGED <<normalActive, heavyActive>>
  /\ UNCHANGED <<permitOf, pressureRefused, budget>>

\* flock: exclusive for a heavy operation, shared for a normal one.
acquire(r) ==
  LET holders == {q \in PermitRequests : permitPc[q] = "holding"} IN
  IF Heavy(r) THEN holders = {} ELSE \A q \in holders : ~Heavy(q)

TakesHostLock(r) ==
  /\ permitPc[r] = "lock"
  /\ \/ acquire(r) /\ PermitGoes(r, "holding") /\ UNCHANGED <<permitCounters, budget>>
     \/ Trouble /\ release(r) /\ UNCHANGED <<queued, heavyQueued>>   \* cancelled while it polls
  /\ UNCHANGED <<permitOf, pressureRefused>>

\* The returned function: the file lock first, then the counter.
UnlocksHost(r) ==
  /\ permitPc[r] = "holding" /\ PermitGoes(r, "unlocked")
  /\ UNCHANGED <<permitOf, permitCounters, pressureRefused, budget>>

Releases(r) ==
  /\ permitPc[r] = "unlocked" /\ release(r)
  /\ UNCHANGED <<permitOf, queued, heavyQueued, pressureRefused, budget>>

Wakes(r) ==
  /\ permitPc[r] = "woken" /\ dequeue(r) /\ PermitGoes(r, "retry")
  /\ UNCHANGED <<permitOf, normalActive, heavyActive, pressureRefused, budget>>

WaitCancelled(r) ==
  /\ permitPc[r] \in {"waiting", "woken"} /\ Trouble /\ dequeue(r) /\ Signals(r, "idle")
  /\ UNCHANGED <<permitOf, normalActive, heavyActive, pressureRefused>>

PermitNext == \E r \in PermitRequests :
  AcquireClass(r) \/ pressure(r) \/ Decides(r) \/ TakesHostLock(r) \/ UnlocksHost(r) \/ Releases(r)
  \/ Wakes(r) \/ WaitCancelled(r)

PermitSpec == PermitInit /\ [][PermitNext]_permitVars

----------------------------------------------------------------------------
\* While a heavy operation holds its permit no other operation of any agent
\* of the host holds one (AcquireClass and the shared file lock).
HeavyIsAlone ==
  \A r, q \in PermitRequests :
    permitPc[r] = "holding" /\ permitPc[q] = "holding" /\ Heavy(r) => q = r

\* A request that waits has something to wake it: an operation or another
\* request of its agent that is still to release, to retry or to wake.  It is
\* claimed until a woken request is refused for pressure, which returns
\* without a signal (AcquireClass).
WaiterHasWaker ==
  ~pressureRefused =>
    \A r \in PermitRequests : permitPc[r] = "waiting" =>
      \E q \in PermitRequests :
        /\ q # r /\ Agent(q) = Agent(r)
        /\ permitPc[q] \in {"lock", "holding", "unlocked", "woken", "retry", "retryDecide"}

\* Exclusion and wake-up of the permits together.
PermitsConsistent == HeavyIsAlone /\ WaiterHasWaker
=============================================================================
