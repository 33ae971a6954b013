-------------------------- MODULE HostReservations --------------------------
(***************************************************************************)
(* Durable capacity reservations (internal/resource/service.go) and the    *)
(* lease that hands one from a launching call to the durable plan it       *)
(* starts (internal/hostmcp/reservation_lease.go, plan_run.go).            *)
(*                                                                         *)
(* All agents of a host share one reservations file.  Every operation of   *)
(* the service reads and replaces the whole file under an exclusive flock, *)
(* so each is one action, and a crash leaves the old file or the new one.  *)
(*                                                                         *)
(* A reservation belongs to a job, which admits once.  Time is discrete    *)
(* and relative: left[j] is what remains of the expiry that the record and *)
(* the handle of j carry (Renew moves both).  Declared costs are units of  *)
(* one resource.  Pressure, unverified enforcement, observed usage and a   *)
(* cancelled context only ever refuse an admission: refusal is always      *)
(* possible here.  The permit counters that fits also reads are zero in    *)
(* the agent: nothing but tests takes a permit.                            *)
(***************************************************************************)
EXTENDS Naturals, FiniteSets

CONSTANTS Agents, Jobs,
          MaxHeavy, MaxNormal, Capacity, Cost,
          TTL,         \* ReservationTTL
          RenewEvery,  \* reservationRenewInterval
          Lateness,    \* how late a renewal may complete
          LaunchLimit, \* how long a launching call takes to claim its lease
          IOFaults,    \* may reading or writing the file fail?
          None

Classes == {"control", "normal", "heavy"}

ASSUME JobsAssumption == IsFiniteSet(Jobs)
ASSUME LimitsAssumption ==
  /\ {MaxHeavy, MaxNormal, Capacity} \subseteq Nat
  /\ {TTL, RenewEvery, Lateness, LaunchLimit} \subseteq Nat
  /\ TTL > 0
  /\ Cost \in [Classes -> Nat]
ASSUME FaultsAssumption == IOFaults \in BOOLEAN
ASSUME AgentsAssumption == None \notin Agents \cup {"unbound", "call", "plan", "stored"}
\* A lease outlives its launch and a late renewal (15 minutes, 2 between renewals).
ASSUME TimingAssumption == LaunchLimit + RenewEvery + Lateness < TTL

VARIABLES
  up,        \* the agents that run
  owner,     \* the agent that admitted j; None before
  class,
  task,      \* TaskID of the handle
  phase,     \* where j is, see Phases
  launcher,  \* the launching call of j has not returned
  cancelled, \* the run's context has ended
  records,   \* TaskID of the record of j in the file; None when there is none
  left,
  keep,      \* the keepAlive goroutine of j
  due        \* time since j was admitted, later since its last renewal

vars == <<up, owner, class, task, phase, launcher, cancelled, records, left,
          keep, due>>
request == <<owner, class>>

\* "unbound": no task yet, the TaskID is empty; "call": an asynchronous task,
\* whose snapshot is stored before it runs; "plan": a plan run, not stored while
\* it executes; "stored": one whose earlier leg was stored, restored as failed.
TaskIds == {"unbound", "call", "plan", "stored"}

\* calling: the launcher holds the lease; claimed: a run took it over;
\* running; releasing: released is set, Release is pending; over.
Phases == {"idle", "calling", "claimed", "running", "releasing", "over"}

\* The longest time due has to measure.
MaxDue == RenewEvery + Lateness + LaunchLimit + 1

TypeOK ==
  /\ up \subseteq Agents
  /\ owner \in [Jobs -> Agents \cup {None}]
  /\ class \in [Jobs -> Classes]
  /\ task \in [Jobs -> TaskIds]
  /\ phase \in [Jobs -> Phases]
  /\ launcher \in [Jobs -> BOOLEAN]
  /\ cancelled \in [Jobs -> BOOLEAN]
  /\ records \in [Jobs -> TaskIds \cup {None}]
  /\ left \in [Jobs -> 0..TTL]
  /\ keep \in [Jobs -> {"off", "ticking", "renewing"}]
  /\ due \in [Jobs -> 0..MaxDue]

Init ==
  /\ up = Agents
  /\ owner = [j \in Jobs |-> None]
  /\ class = [j \in Jobs |-> "control"]
  /\ task = [j \in Jobs |-> "unbound"]
  /\ phase = [j \in Jobs |-> "idle"]
  /\ launcher = [j \in Jobs |-> FALSE]
  /\ cancelled = [j \in Jobs |-> FALSE]
  /\ records = [j \in Jobs |-> None]
  /\ left = [j \in Jobs |-> 0]
  /\ keep = [j \in Jobs |-> "off"]
  /\ due = [j \in Jobs |-> 0]

----------------------------------------------------------------------------
\* The record of j is in the file and names the handle's owner.
Holds(j) == records[j] # None /\ records[j] = task[j]

removeExpired == [j \in Jobs |-> IF left[j] = 0 THEN None ELSE records[j]]

Reserved(r, c) == {j \in Jobs : r[j] # None /\ class[j] = c}

\* The costs of what is reserved, summed by class.
reservationTotals(r) ==
  LET used(c) == Cost[c] * Cardinality(Reserved(r, c))
  IN  used("control") + used("normal") + used("heavy")

fits(c, r) ==
  /\ c = "heavy" => /\ Cardinality(Reserved(r, "heavy")) < MaxHeavy
                    /\ Reserved(r, "normal") = {}
  /\ c = "normal" => /\ Reserved(r, "heavy") = {}
                     /\ Cardinality(Reserved(r, "normal")) < MaxNormal
  /\ reservationTotals(r) + Cost[c] <= Capacity

\* The job is admitted, by a call without a task or inside an asynchronous one.
Admit(j, a, c, t) ==
  /\ phase[j] = "idle" /\ a \in up
  /\ fits(c, removeExpired)
  /\ records' = [removeExpired EXCEPT ![j] = t]
  /\ left' = [left EXCEPT ![j] = TTL]
  /\ owner' = [owner EXCEPT ![j] = a]
  /\ class' = [class EXCEPT ![j] = c]
  /\ task' = [task EXCEPT ![j] = t]
  /\ phase' = [phase EXCEPT ![j] = "calling"]
  /\ launcher' = [launcher EXCEPT ![j] = TRUE]
  /\ UNCHANGED <<up, cancelled, keep, due>>

\* A refused admission, and a capacity snapshot, still drop expired records.
Purge ==
  /\ up # {}
  /\ records' = removeExpired
  /\ UNCHANGED <<up, request, task, phase, launcher, cancelled, left, keep, due>>

----------------------------------------------------------------------------
claimReservationLease(j) ==
  /\ phase[j] = "calling" /\ launcher[j]
  /\ due[j] <= LaunchLimit
  /\ phase' = [phase EXCEPT ![j] = "claimed"]
  /\ UNCHANGED <<up, request, task, launcher, cancelled, records, left, keep,
                 due>>

\* The plan's goroutines start: keepAlive and executeHostPlan.
RunStarts(j) ==
  /\ phase' = [phase EXCEPT ![j] = "running"]
  /\ keep' = [keep EXCEPT ![j] = "ticking"]
  /\ due' = [due EXCEPT ![j] = 0]
  /\ UNCHANGED <<up, request, launcher, cancelled, left>>

\* bindTask leaves a reservation alone that already has a task.
BindSkipped(j) ==
  /\ phase[j] = "claimed" /\ task[j] # "unbound"
  /\ RunStarts(j)
  /\ UNCHANGED <<task, records>>

BindReservationTask(j, t) ==
  /\ phase[j] = "claimed" /\ task[j] = "unbound"
  /\ Holds(j)
  /\ records' = [records EXCEPT ![j] = t]
  /\ task' = [task EXCEPT ![j] = t]
  /\ RunStarts(j)

\* Refused: the record is gone, names another operation, or cannot be written.
\* The launch is undone and the lease finished.
BindRefused(j) ==
  /\ phase[j] = "claimed" /\ task[j] = "unbound"
  /\ phase' = [phase EXCEPT ![j] = "releasing"]
  /\ cancelled' = [cancelled EXCEPT ![j] = TRUE]
  /\ UNCHANGED <<up, request, task, launcher, records, left, keep, due>>

\* Mutant of releaseIfUnclaimed: the launcher releases what the run claimed.
LauncherAlwaysReleases(j) ==
  /\ launcher[j] /\ phase[j] # "claimed"
  /\ launcher' = [launcher EXCEPT ![j] = FALSE]
  /\ records' = [records EXCEPT ![j] = None]
  /\ left' = [left EXCEPT ![j] = 0]
  /\ phase' = [phase EXCEPT ![j] = IF @ = "calling" THEN "over" ELSE @]
  /\ UNCHANGED <<up, request, task, cancelled, keep, due>>

\* The call that admitted j returns.
releaseIfUnclaimed(j) ==
  /\ launcher[j] /\ phase[j] # "claimed"
  /\ launcher' = [launcher EXCEPT ![j] = FALSE]
  /\ phase' = [phase EXCEPT ![j] = IF @ = "calling" THEN "releasing" ELSE @]
  /\ UNCHANGED <<up, request, task, cancelled, records, left, keep, due>>

CancelRun(j) ==
  /\ phase[j] = "running" /\ ~cancelled[j]
  /\ cancelled' = [cancelled EXCEPT ![j] = TRUE]
  /\ UNCHANGED <<up, request, task, phase, launcher, records, left, keep, due>>

\* executeHostPlan returns: cancel() and then finish().
RunEnds(j) ==
  /\ phase[j] = "running"
  /\ phase' = [phase EXCEPT ![j] = "releasing"]
  /\ cancelled' = [cancelled EXCEPT ![j] = TRUE]
  /\ UNCHANGED <<up, request, task, launcher, records, left, keep, due>>

\* The error of Release is dropped; the record then waits for its expiry.
Release(j) ==
  /\ phase[j] = "releasing"
  /\ phase' = [phase EXCEPT ![j] = "over"]
  /\ \/ /\ Holds(j)
        /\ records' = [records EXCEPT ![j] = None]
        /\ left' = [left EXCEPT ![j] = 0]
     \/ /\ ~Holds(j) \/ IOFaults
        /\ UNCHANGED <<records, left>>
  /\ UNCHANGED <<up, request, task, launcher, cancelled, keep, due>>

----------------------------------------------------------------------------
KeepAliveReturns(j) ==
  /\ keep' = [keep EXCEPT ![j] = "off"]
  /\ due' = [due EXCEPT ![j] = 0]

\* Mutant of KeepAliveFires: released is not looked at.
KeepAliveIgnoresReleased(j) ==
  /\ keep[j] = "ticking" /\ due[j] >= RenewEvery
  /\ keep' = [keep EXCEPT ![j] = "renewing"]
  /\ UNCHANGED <<up, request, task, phase, launcher, cancelled, records, left,
                 due>>

\* keepAlive's ticker: look at released, then renew.
KeepAliveFires(j) ==
  /\ keep[j] = "ticking" /\ due[j] >= RenewEvery
  /\ IF phase[j] = "running"
     THEN keep' = [keep EXCEPT ![j] = "renewing"] /\ UNCHANGED due
     ELSE KeepAliveReturns(j)
  /\ UNCHANGED <<up, request, task, phase, launcher, cancelled, records, left>>

KeepAliveStops(j) ==
  /\ keep[j] = "ticking" /\ cancelled[j]
  /\ KeepAliveReturns(j)
  /\ UNCHANGED <<up, request, task, phase, launcher, cancelled, records, left>>

\* Mutant of Renew: a record that is gone is written again.
RenewRecreates(j) ==
  /\ keep[j] = "renewing"
  /\ records' = [records EXCEPT ![j] = task[j]]
  /\ left' = [left EXCEPT ![j] = TTL]
  /\ keep' = [keep EXCEPT ![j] = "ticking"]
  /\ due' = [due EXCEPT ![j] = 0]
  /\ UNCHANGED <<up, request, task, phase, launcher, cancelled>>

\* Renew looks at the record's existence and owner, not at its expiry.
Renew(j) ==
  /\ keep[j] = "renewing"
  /\ \/ /\ Holds(j)
        /\ left' = [left EXCEPT ![j] = TTL]
        /\ keep' = [keep EXCEPT ![j] = "ticking"]
        /\ due' = [due EXCEPT ![j] = 0]
     \/ /\ ~Holds(j) \/ IOFaults
        /\ KeepAliveReturns(j)
        /\ UNCHANGED left
  /\ UNCHANGED <<up, request, task, phase, launcher, cancelled, records>>

----------------------------------------------------------------------------
\* The jobs of an agent that crashes end; their records stay in the file.
Crash(a) ==
  /\ a \in up
  /\ up' = up \ {a}
  /\ LET dies(j) == owner[j] = a IN
     /\ task' = [j \in Jobs |-> IF dies(j) THEN "unbound" ELSE task[j]]
     /\ phase' = [j \in Jobs |-> IF dies(j) THEN "over" ELSE phase[j]]
     /\ launcher' = [j \in Jobs |-> launcher[j] /\ ~dies(j)]
     /\ cancelled' = [j \in Jobs |-> cancelled[j] /\ ~dies(j)]
     /\ keep' = [j \in Jobs |-> IF dies(j) THEN "off" ELSE keep[j]]
     /\ due' = [j \in Jobs |-> IF dies(j) THEN 0 ELSE due[j]]
  /\ UNCHANGED <<request, records, left>>

\* A new process restores its tasks and then reclaims the reservations of
\* those that are terminal.
ReclaimTerminalTaskReservations(a) ==
  /\ a \notin up
  /\ up' = up \cup {a}
  /\ LET reclaimed(j) == owner[j] = a /\ records[j] \in {"call", "stored"} IN
     /\ records' = [j \in Jobs |-> IF reclaimed(j) THEN None ELSE records[j]]
     /\ left' = [j \in Jobs |-> IF reclaimed(j) THEN 0 ELSE left[j]]
  /\ UNCHANGED <<request, task, phase, launcher, cancelled, keep, due>>

\* Time passes.  A keepAlive that lives completes each renewal within
\* RenewEvery + Lateness; binding takes no time.
Tick ==
  /\ \A j \in Jobs : /\ phase[j] # "claimed"
                     /\ keep[j] # "off" => due[j] < RenewEvery + Lateness
  /\ left' = [j \in Jobs |-> IF left[j] > 0 THEN left[j] - 1 ELSE 0]
  /\ due' = [j \in Jobs |->
       IF \/ phase[j] = "calling" /\ due[j] <= LaunchLimit
          \/ keep[j] # "off"
       THEN due[j] + 1 ELSE due[j]]
  /\ UNCHANGED <<up, request, task, phase, launcher, cancelled, records, keep>>

Next ==
  \/ \E j \in Jobs :
       \/ \E a \in Agents, c \in Classes, t \in {"unbound", "call"} : Admit(j, a, c, t)
       \/ claimReservationLease(j)
       \/ BindSkipped(j)
       \/ \E t \in {"plan", "stored"} : BindReservationTask(j, t)
       \/ BindRefused(j)
       \/ releaseIfUnclaimed(j)
       \/ CancelRun(j)
       \/ RunEnds(j)
       \/ Release(j)
       \/ KeepAliveFires(j)
       \/ KeepAliveStops(j)
       \/ Renew(j)
  \/ \E a \in Agents : Crash(a) \/ ReclaimTerminalTaskReservations(a)
  \/ Purge
  \/ Tick

Spec == Init /\ [][Next]_vars

\* The clock runs, and the goroutines of a live process are scheduled.
Fairness ==
  /\ WF_vars(Tick)
  /\ \A j \in Jobs :
       /\ WF_vars(BindSkipped(j) \/ BindRefused(j)
                  \/ \E t \in {"plan", "stored"} : BindReservationTask(j, t))
       /\ WF_vars(KeepAliveFires(j) \/ Renew(j))
       /\ WF_vars(Release(j))

LiveSpec == Spec /\ Fairness

----------------------------------------------------------------------------
\* What the file promises all agents: the reservations in it never exceed the
\* class limits or the capacity, whichever agents wrote, bound or renewed them.
WithinLimits ==
  /\ Cardinality(Reserved(records, "heavy")) <= MaxHeavy
  /\ Cardinality(Reserved(records, "normal")) <= MaxNormal
  /\ Reserved(records, "heavy") = {} \/ Reserved(records, "normal") = {}
  /\ reservationTotals(records) <= Capacity

\* Handle and record name the same task, so that Release and Renew are never
\* refused for an owner mismatch that the binding itself caused.
OwnersAgree ==
  \A j \in Jobs :
    phase[j] \in {"calling", "claimed", "running", "releasing"} =>
      records[j] \in {None, task[j]}

\* While keepAlive lives, the run's nodes find an unexpired record to inherit
\* ("renewed for as long as the run executes").
RunKeepsRecord ==
  \A j \in Jobs :
    phase[j] = "running" /\ keep[j] # "off" => Holds(j) /\ left[j] > 0

\* "Two heavy plans could hold the single heavy permit at once" is the defect
\* the lease removed: heavy runs never exceed MaxHeavy.
HeavyRunsLimited ==
  Cardinality({j \in Jobs : /\ class[j] = "heavy"
                            /\ phase[j] = "running" /\ keep[j] # "off"})
    <= MaxHeavy

\* A record that was released, reclaimed or purged never returns to the file.
RemovedStaysRemoved ==
  [][\A j \in Jobs : phase[j] # "idle" /\ records[j] = None =>
                       records'[j] = None]_vars

\* Nobody but the holder itself takes an unexpired record away while its holder
\* is alive: "exactly one of the two releases the reservation".
OnlyHolderReleases ==
  [][\A j \in Jobs :
       phase[j] \in {"claimed", "running"} /\ left[j] > 0 /\ records[j] # None
         => records'[j] # None]_vars

\* "A reservation's TTL bounds how long a crashed holder can keep capacity": the
\* record of a job that is over leaves the file or expires.
CapacityReturns ==
  \A j \in Jobs : (phase[j] = "over" /\ records[j] # None)
                    ~> (records[j] = None \/ left[j] = 0)

\* The shared file and the handles of the agents agree: the limits hold over
\* what is reserved and over what runs, and a live run has its record.
LedgerConsistent ==
  TypeOK /\ WithinLimits /\ OwnersAgree /\ RunKeepsRecord /\ HeavyRunsLimited

\* A record leaves the file once, and by its holder's hand while it lives.
RecordLeavesOnce == OnlyHolderReleases /\ RemovedStaysRemoved
=============================================================================
