----------------------- MODULE HostReservationsProofs -----------------------
(***************************************************************************)
(* The reservations file and the leases on it, for any finite set of jobs, *)
(* any agents, limits, costs and times that leave room for one late        *)
(* renewal (TimingAssumption).                                             *)
(*                                                                         *)
(* What makes a run keep its record is an amount of time: what is left of  *)
(* the expiry plus what passed since the last renewal, or since the        *)
(* admission, is at least the time to live.                                *)
(***************************************************************************)
EXTENDS HostReservations, FiniteSetTheorems, TLAPS

\* How far a job is, and what its lease is then worth.
JobPlace(j) ==
  /\ phase[j] = "idle" => records[j] = None /\ keep[j] = "off" /\ due[j] = 0
  /\ phase[j] \in {"calling", "claimed", "running"} => owner[j] \in up
  /\ phase[j] \in {"calling", "claimed"} => keep[j] = "off"
  /\ keep[j] # "off" => due[j] <= RenewEvery + Lateness
  /\ keep[j] = "off" => due[j] <= LaunchLimit + 1
  /\ phase[j] = "calling" /\ due[j] <= LaunchLimit => Holds(j) /\ left[j] + due[j] >= TTL
  /\ phase[j] = "claimed" => Holds(j) /\ left[j] + LaunchLimit >= TTL
  /\ phase[j] = "running" /\ keep[j] # "off" =>
       Holds(j) /\ left[j] + due[j] + LaunchLimit >= TTL

LedgerInv == TypeOK /\ WithinLimits /\ OwnersAgree /\ \A j \in Jobs : JobPlace(j)
----------------------------------------------------------------------------
\* Multiplication by a cost is monotonic.
LEMMA CostsGrow ==
  ASSUME NEW a \in Nat, NEW m \in Nat, NEW n \in Nat, m <= n
  PROVE  a * m \in Nat /\ a * n \in Nat /\ a * m <= a * n
OBVIOUS

\* One more record of a class adds the cost of that class.
LEMMA CostOfOneMore ==
  ASSUME NEW a \in Nat, NEW m \in Nat
  PROVE  a * m \in Nat /\ a * (m + 1) = a * m + a
OBVIOUS

\* What is reserved of a class is a finite set, and counts less when there are
\* fewer records.
LEMMA ReservedFinite ==
  ASSUME NEW r, NEW c \in Classes
  PROVE  /\ Reserved(r, c) \subseteq Jobs /\ IsFiniteSet(Reserved(r, c))
         /\ Cardinality(Reserved(r, c)) \in Nat
<1>1. Reserved(r, c) \subseteq Jobs /\ IsFiniteSet(Reserved(r, c))
  BY JobsAssumption, FS_Subset DEF Reserved
<1> QED
  BY <1>1, FS_CardinalityType

\* A file with fewer records reserves less of every class.
LEMMA FewerReserved ==
  ASSUME NEW r, NEW s, NEW c \in Classes, \A j \in Jobs : s[j] # None => r[j] # None
  PROVE  /\ Reserved(s, c) \subseteq Reserved(r, c)
         /\ Cardinality(Reserved(s, c)) <= Cardinality(Reserved(r, c))
<1>1. Reserved(s, c) \subseteq Reserved(r, c)
  BY DEF Reserved
<1> QED
  BY <1>1, ReservedFinite, FS_Subset

\* A file with fewer records has smaller totals.
LEMMA SmallerTotals ==
  ASSUME NEW r, NEW s, \A j \in Jobs : s[j] # None => r[j] # None
  PROVE  /\ reservationTotals(s) \in Nat /\ reservationTotals(r) \in Nat
         /\ reservationTotals(s) <= reservationTotals(r)
<1>1. ASSUME NEW c \in Classes
      PROVE  /\ Cost[c] * Cardinality(Reserved(s, c)) \in Nat
             /\ Cost[c] * Cardinality(Reserved(r, c)) \in Nat
             /\ Cost[c] * Cardinality(Reserved(s, c)) <= Cost[c] * Cardinality(Reserved(r, c))
  <2>1. /\ Cost[c] \in Nat /\ Cardinality(Reserved(s, c)) \in Nat /\ Cardinality(Reserved(r, c)) \in Nat
        /\ Cardinality(Reserved(s, c)) <= Cardinality(Reserved(r, c))
    BY ReservedFinite, FewerReserved, LimitsAssumption
  <2> HIDE DEF Classes
  <2> QED
    BY <2>1, CostsGrow
<1>2. {"control", "normal", "heavy"} \subseteq Classes
  BY DEF Classes
<1> QED
  BY <1>1, <1>2 DEF reservationTotals

\* Nothing is added to the file: the limits hold still.
LEMMA LimitsShrink ==
  ASSUME WithinLimits, class' = class, \A j \in Jobs : records'[j] # None => records[j] # None
  PROVE  WithinLimits'
<1>1. ASSUME NEW c \in Classes
      PROVE  /\ Reserved(records, c)' \subseteq Reserved(records, c)
             /\ Cardinality(Reserved(records, c)') <= Cardinality(Reserved(records, c))
             /\ Reserved(records, c)' = Reserved(records', c)
             /\ Cardinality(Reserved(records, c)) \in Nat /\ Cardinality(Reserved(records, c)') \in Nat
  <2>1. Reserved(records, c)' = Reserved(records', c)
    BY DEF Reserved
  <2> QED
    BY <2>1, FewerReserved, ReservedFinite
<1>2. "heavy" \in Classes /\ "normal" \in Classes /\ "control" \in Classes
  BY DEF Classes
<1>3. reservationTotals(records)' = reservationTotals(records')
  BY <1>1, <1>2 DEF reservationTotals
<1>4. reservationTotals(records') \in Nat /\ reservationTotals(records) \in Nat
      /\ reservationTotals(records') <= reservationTotals(records)
  BY SmallerTotals
<1> QED
  BY <1>1, <1>2, <1>3, <1>4, LimitsAssumption DEF WithinLimits

\* A lease that its timing still protects has not expired.
LEMMA ProtectedIsUnexpired ==
  ASSUME LedgerInv, NEW j \in Jobs,
         \/ phase[j] = "calling" /\ due[j] <= LaunchLimit
         \/ phase[j] = "claimed"
         \/ phase[j] = "running" /\ keep[j] # "off"
  PROVE  Holds(j) /\ left[j] > 0
BY LimitsAssumption, TimingAssumption DEF LedgerInv, TypeOK, JobPlace
\* Dropping expired records leaves every job where it is.
LEMMA UnexpiredStays ==
  ASSUME LedgerInv, NEW j \in Jobs, records'[j] = IF left[j] = 0 THEN None ELSE records[j],
         phase'[j] = phase[j], owner'[j] = owner[j], keep'[j] = keep[j], due'[j] = due[j],
         left'[j] = left[j], task'[j] = task[j], up' = up
  PROVE  JobPlace(j)'
<1>1. JobPlace(j) /\ left[j] \in Nat
  BY DEF LedgerInv, TypeOK
<1>2. CASE left[j] = 0
  <2>1. /\ ~(phase[j] = "calling" /\ due[j] <= LaunchLimit) /\ phase[j] # "claimed"
        /\ ~(phase[j] = "running" /\ keep[j] # "off")
    BY <1>2, ProtectedIsUnexpired
  <2> QED
    BY <1>1, <1>2, <2>1 DEF JobPlace, Holds
<1>3. CASE left[j] # 0
  BY <1>1, <1>3 DEF JobPlace, Holds
<1> QED
  BY <1>2, <1>3

----------------------------------------------------------------------------
\* Admit adds a record only where the class limit and the capacity leave room
\* for it.
LEMMA AdmitKeepsLimits ==
  ASSUME LedgerInv, NEW j \in Jobs, NEW a \in Agents, NEW c \in Classes, NEW t \in {"unbound", "call"},
         Admit(j, a, c, t)
  PROVE  WithinLimits'
<1> DEFINE r == removeExpired
<1>1. /\ records' = [r EXCEPT ![j] = t] /\ class' = [class EXCEPT ![j] = c] /\ fits(c, r)
      /\ r \in [Jobs -> TaskIds \cup {None}] /\ r[j] = None /\ t # None
      /\ \A i \in Jobs : r[i] # None => records[i] # None
  BY AgentsAssumption DEF Admit, LedgerInv, TypeOK, JobPlace, removeExpired
<1> HIDE DEF r
<1>2. ASSUME NEW d \in Classes
      PROVE  /\ d = c => Cardinality(Reserved(records, d)') = Cardinality(Reserved(r, d)) + 1
             /\ d # c => Reserved(records, d)' = Reserved(r, d)
             /\ Cardinality(Reserved(r, d)) \in Nat
             /\ Cardinality(Reserved(r, d)) <= Cardinality(Reserved(records, d))
             /\ Reserved(r, d) \subseteq Reserved(records, d)
  <2>1. /\ Reserved(records, d)' = IF d = c THEN Reserved(r, d) \cup {j} ELSE Reserved(r, d)
        /\ j \notin Reserved(r, d)
    BY <1>1 DEF Reserved, LedgerInv, TypeOK
  <2>2. /\ IsFiniteSet(Reserved(r, d)) /\ Cardinality(Reserved(r, d)) \in Nat
        /\ Cardinality(Reserved(r, d)) <= Cardinality(Reserved(records, d))
        /\ Reserved(r, d) \subseteq Reserved(records, d)
    BY <1>1, ReservedFinite, FewerReserved
  <2>3. Cardinality(Reserved(r, d) \cup {j}) = Cardinality(Reserved(r, d)) + 1
    BY <2>1, <2>2, FS_AddElement
  <2>4. CASE d = c
    BY <2>1, <2>2, <2>3, <2>4
  <2>5. CASE d # c
    BY <2>1, <2>2, <2>5
  <2> QED
    BY <2>4, <2>5
<1>3. "heavy" \in Classes /\ "normal" \in Classes /\ "control" \in Classes
  BY DEF Classes
<1>4. /\ Cardinality(Reserved(records, "heavy")') <= MaxHeavy
      /\ Cardinality(Reserved(records, "normal")') <= MaxNormal
      /\ Reserved(records, "heavy")' = {} \/ Reserved(records, "normal")' = {}
  <2>0. /\ MaxHeavy \in Nat /\ MaxNormal \in Nat
        /\ \A d \in Classes : Cardinality(Reserved(records, d)) \in Nat
        /\ Cardinality(Reserved(records, "heavy")) <= MaxHeavy
        /\ Cardinality(Reserved(records, "normal")) <= MaxNormal
        /\ Reserved(records, "heavy") = {} \/ Reserved(records, "normal") = {}
    BY LimitsAssumption, ReservedFinite DEF LedgerInv, WithinLimits
  <2>1. CASE c = "heavy"
    <3>1. Cardinality(Reserved(r, "heavy")) < MaxHeavy /\ Reserved(r, "normal") = {}
      BY <1>1, <2>1 DEF fits
    <3>2. /\ Reserved(records, "normal")' = Reserved(r, "normal")
          /\ Cardinality(Reserved(records, "heavy")') = Cardinality(Reserved(r, "heavy")) + 1
      BY <1>2, <1>3, <2>1
    <3> QED
      BY <1>2, <1>3, <2>0, <3>1, <3>2
  <2>2. CASE c = "normal"
    <3>1. Cardinality(Reserved(r, "normal")) < MaxNormal /\ Reserved(r, "heavy") = {}
      BY <1>1, <2>2 DEF fits
    <3>2. /\ Reserved(records, "heavy")' = Reserved(r, "heavy")
          /\ Cardinality(Reserved(records, "normal")') = Cardinality(Reserved(r, "normal")) + 1
      BY <1>2, <1>3, <2>2
    <3> QED
      BY <1>2, <1>3, <2>0, <3>1, <3>2
  <2>3. CASE c = "control"
    <3>1. /\ Reserved(records, "heavy")' = Reserved(r, "heavy")
          /\ Reserved(records, "normal")' = Reserved(r, "normal")
      BY <1>2, <1>3, <2>3
    <3> QED
      BY <1>2, <1>3, <2>0, <3>1
  <2> QED
    BY <2>1, <2>2, <2>3 DEF Classes
<1>5. reservationTotals(records)' = reservationTotals(r) + Cost[c]
  <2> DEFINE was(d) == Cost[d] * Cardinality(Reserved(r, d))
             is(d) == Cost[d] * Cardinality(Reserved(records, d)')
  <2>1. ASSUME NEW d \in Classes
        PROVE  /\ was(d) \in Nat /\ Cost[d] \in Nat
               /\ d = c => is(d) = was(d) + Cost[d]
               /\ d # c => is(d) = was(d)
    <3>1. Cost[d] \in Nat /\ Cardinality(Reserved(r, d)) \in Nat
      BY <1>2, LimitsAssumption
    <3>2. was(d) \in Nat /\ Cost[d] * (Cardinality(Reserved(r, d)) + 1) = was(d) + Cost[d]
      BY <3>1, CostOfOneMore
    <3>3. d = c => is(d) = was(d) + Cost[d]
      BY <1>2, <3>2
    <3>4. d # c => is(d) = was(d)
      BY <1>2
    <3> QED
      BY <3>1, <3>2, <3>3, <3>4
  <2>2. /\ reservationTotals(r) = was("control") + was("normal") + was("heavy")
        /\ reservationTotals(records)' = is("control") + is("normal") + is("heavy")
    BY DEF reservationTotals
  <2> HIDE DEF was, is
  <2>3. c = "control" \/ c = "normal" \/ c = "heavy"
    BY DEF Classes
  <2> QED
    BY <1>3, <2>1, <2>2, <2>3
<1> QED
  BY <1>1, <1>4, <1>5 DEF fits, WithinLimits

\* Admit puts the record of the job it was called for into the file.
LEMMA AdmitKeepsInv ==
  ASSUME LedgerInv, NEW j \in Jobs, NEW a \in Agents, NEW c \in Classes, NEW t \in {"unbound", "call"},
         Admit(j, a, c, t)
  PROVE  LedgerInv'
<1>0. /\ left' = [left EXCEPT ![j] = TTL] /\ owner' = [owner EXCEPT ![j] = a]
      /\ class' = [class EXCEPT ![j] = c] /\ task' = [task EXCEPT ![j] = t]
      /\ phase' = [phase EXCEPT ![j] = "calling"] /\ launcher' = [launcher EXCEPT ![j] = TRUE]
      /\ UNCHANGED <<up, cancelled, keep, due>> /\ phase[j] = "idle" /\ a \in up
      /\ records' = [removeExpired EXCEPT ![j] = t]
  BY DEF Admit
<1>1. /\ \A i \in Jobs : i # j => records'[i] = IF left[i] = 0 THEN None ELSE records[i]
      /\ records'[j] = t /\ left'[j] = TTL /\ due[j] = 0 /\ keep[j] = "off"
      /\ records' \in [Jobs -> TaskIds \cup {None}]
  BY <1>0 DEF removeExpired, LedgerInv, TypeOK, JobPlace, TaskIds
<1>2. TypeOK'
  <2>1. left' \in [Jobs -> 0..TTL]
    BY <1>0, LimitsAssumption DEF LedgerInv, TypeOK
  <2> QED
    BY <1>0, <1>1, <2>1 DEF LedgerInv, TypeOK, TaskIds, Phases
<1>3. OwnersAgree'
  BY <1>1 DEF Admit, LedgerInv, TypeOK, OwnersAgree
<1>4. ASSUME NEW i \in Jobs
      PROVE  JobPlace(i)'
  <2>1. CASE i = j
    <3>1. /\ phase'[j] = "calling" /\ owner'[j] \in up' /\ keep'[j] = "off" /\ due'[j] = 0
          /\ task'[j] = t /\ t # None
      BY <1>0, <1>1, AgentsAssumption DEF LedgerInv, TypeOK
    <3> QED
      BY <1>1, <2>1, <3>1, LimitsAssumption DEF JobPlace, Holds
  <2>2. CASE i # j
    <3>1. /\ phase'[i] = phase[i] /\ owner'[i] = owner[i] /\ keep'[i] = keep[i] /\ due'[i] = due[i]
          /\ left'[i] = left[i] /\ task'[i] = task[i] /\ up' = up
      BY <1>0, <2>2 DEF LedgerInv, TypeOK
    <3> QED
      BY <1>1, <2>2, <3>1, UnexpiredStays
  <2> QED
    BY <2>1, <2>2
<1> QED
  BY <1>2, <1>3, <1>4, AdmitKeepsLimits DEF LedgerInv
----------------------------------------------------------------------------
\* Steps of one job that leave the file to the job's own record.
LEMMA JobMoves ==
  ASSUME LedgerInv, NEW j \in Jobs, TypeOK', class' = class, owner' = owner, up' = up,
         \A i \in Jobs : i # j =>
           /\ phase'[i] = phase[i] /\ task'[i] = task[i] /\ records'[i] = records[i]
           /\ left'[i] = left[i] /\ keep'[i] = keep[i] /\ due'[i] = due[i],
         records'[j] # None => records[j] # None,
         phase'[j] \in {"calling", "claimed", "running", "releasing"} =>
           records'[j] \in {None, task'[j]},
         JobPlace(j)'
  PROVE  LedgerInv'
<1>1. WithinLimits'
  BY LimitsShrink DEF LedgerInv
<1>2. OwnersAgree'
  BY DEF LedgerInv, OwnersAgree
<1>3. \A i \in Jobs : JobPlace(i)'
  BY DEF LedgerInv, JobPlace, Holds
<1> QED
  BY <1>1, <1>2, <1>3 DEF LedgerInv

\* The launching call claims, binds or gives back what it reserved.
LEMMA HandoverKeepsInv ==
  ASSUME LedgerInv, NEW j \in Jobs,
         \/ claimReservationLease(j) \/ BindSkipped(j) \/ BindRefused(j) \/ releaseIfUnclaimed(j)
         \/ \E t \in {"plan", "stored"} : BindReservationTask(j, t)
  PROVE  LedgerInv'
<1> USE DEF LedgerInv, request
<1>0. JobPlace(j) /\ records[j] \in TaskIds \cup {None} /\ left[j] \in 0..TTL /\ due[j] \in 0..MaxDue
      /\ TTL \in Nat /\ LaunchLimit \in Nat /\ RenewEvery \in Nat /\ Lateness \in Nat
  BY LimitsAssumption DEF TypeOK
<1>1. CASE claimReservationLease(j)
  <2>1. TypeOK'
    BY <1>1 DEF claimReservationLease, TypeOK, Phases
  <2>2. JobPlace(j)'
    BY <1>0, <1>1 DEF claimReservationLease, JobPlace, Holds, TypeOK
  <2> QED
    BY <1>1, <2>1, <2>2, JobMoves DEF claimReservationLease, TypeOK, OwnersAgree
<1>2. CASE BindSkipped(j)
  <2>1. TypeOK'
    BY <1>2, LimitsAssumption DEF BindSkipped, RunStarts, TypeOK, Phases, MaxDue
  <2>2. JobPlace(j)'
    BY <1>0, <1>2, <2>1 DEF BindSkipped, RunStarts, JobPlace, Holds, TypeOK
  <2> QED
    BY <1>2, <2>1, <2>2, JobMoves DEF BindSkipped, RunStarts, TypeOK, OwnersAgree
<1>3. ASSUME NEW t \in {"plan", "stored"}, BindReservationTask(j, t)
      PROVE  LedgerInv'
  <2>1. TypeOK'
    BY <1>3, LimitsAssumption DEF BindReservationTask, RunStarts, TypeOK, Phases, MaxDue, TaskIds
  <2>2. JobPlace(j)'
    BY <1>0, <1>3, <2>1, AgentsAssumption DEF BindReservationTask, RunStarts, JobPlace, Holds, TypeOK
  <2>3. records[j] # None /\ records'[j] = t /\ task'[j] = t
    BY <1>3 DEF BindReservationTask, Holds, TypeOK
  <2> QED
    BY <1>3, <2>1, <2>2, <2>3, JobMoves DEF BindReservationTask, RunStarts, TypeOK
<1>4. CASE BindRefused(j)
  <2>1. TypeOK'
    BY <1>4 DEF BindRefused, TypeOK, Phases
  <2>2. JobPlace(j)'
    BY <1>0, <1>4 DEF BindRefused, JobPlace, Holds, TypeOK
  <2> QED
    BY <1>4, <2>1, <2>2, JobMoves DEF BindRefused, TypeOK, OwnersAgree
<1>5. CASE releaseIfUnclaimed(j)
  <2>1. TypeOK'
    BY <1>5 DEF releaseIfUnclaimed, TypeOK, Phases
  <2>2. JobPlace(j)'
    BY <1>0, <1>5 DEF releaseIfUnclaimed, JobPlace, Holds, TypeOK
  <2>3. phase'[j] \in {phase[j], "releasing"} /\ (phase'[j] # phase[j] => phase[j] = "calling")
    BY <1>5 DEF releaseIfUnclaimed, TypeOK
  <2> QED
    BY <1>5, <2>1, <2>2, <2>3, JobMoves DEF releaseIfUnclaimed, TypeOK, OwnersAgree
<1> QED
  BY <1>1, <1>2, <1>3, <1>4, <1>5

\* The run and its keepAlive cancel, end, renew and release.
LEMMA RunKeepsInv ==
  ASSUME LedgerInv, NEW j \in Jobs,
         \/ CancelRun(j) \/ RunEnds(j) \/ Release(j)
         \/ KeepAliveFires(j) \/ KeepAliveStops(j) \/ Renew(j)
  PROVE  LedgerInv'
<1> USE DEF LedgerInv, request
<1>0. JobPlace(j) /\ records[j] \in TaskIds \cup {None} /\ left[j] \in 0..TTL /\ due[j] \in 0..MaxDue
      /\ TTL \in Nat /\ LaunchLimit \in Nat /\ RenewEvery \in Nat /\ Lateness \in Nat
  BY LimitsAssumption DEF TypeOK
<1>1. CASE CancelRun(j)
  <2>1. TypeOK'
    BY <1>1 DEF CancelRun, TypeOK
  <2>2. JobPlace(j)'
    BY <1>0, <1>1 DEF CancelRun, JobPlace, Holds, TypeOK
  <2> QED
    BY <1>1, <2>1, <2>2, JobMoves DEF CancelRun, TypeOK, OwnersAgree
<1>2. CASE RunEnds(j)
  <2>1. TypeOK'
    BY <1>2 DEF RunEnds, TypeOK, Phases
  <2>2. JobPlace(j)'
    BY <1>0, <1>2 DEF RunEnds, JobPlace, Holds, TypeOK
  <2> QED
    BY <1>2, <2>1, <2>2, JobMoves DEF RunEnds, TypeOK, OwnersAgree
<1>3. CASE Release(j)
  <2>1. /\ records' = [records EXCEPT ![j] = None] /\ left' = [left EXCEPT ![j] = 0]
        \/ UNCHANGED <<records, left>>
    BY <1>3 DEF Release
  <2>2. TypeOK'
    <3>1. left' \in [Jobs -> 0..TTL] /\ records' \in [Jobs -> TaskIds \cup {None}]
      BY <1>0, <2>1 DEF TypeOK
    <3> QED
      BY <1>3, <3>1 DEF Release, TypeOK, Phases
  <2>3. /\ phase'[j] = "over" /\ keep' = keep /\ due' = due /\ task' = task
        /\ records'[j] \in {records[j], None}
        /\ \A i \in Jobs : i # j => records'[i] = records[i] /\ left'[i] = left[i] /\ phase'[i] = phase[i]
    BY <1>3, <2>1 DEF Release, TypeOK
  <2>4. JobPlace(j)'
    BY <1>0, <2>3 DEF JobPlace
  <2> QED
    BY <1>3, <2>2, <2>3, <2>4, JobMoves DEF Release
<1>4. ASSUME KeepAliveReturns(j), keep[j] # "off",
             UNCHANGED <<up, request, task, phase, launcher, cancelled, records, left>>
      PROVE  LedgerInv'
  <2>1. TypeOK'
    BY <1>0, <1>4 DEF KeepAliveReturns, TypeOK, MaxDue
  <2>2. JobPlace(j)'
    BY <1>0, <1>4 DEF KeepAliveReturns, JobPlace, Holds, TypeOK
  <2> QED
    BY <1>4, <2>1, <2>2, JobMoves DEF KeepAliveReturns, TypeOK, OwnersAgree
<1>5. CASE KeepAliveFires(j)
  <2>1. CASE phase[j] = "running"
    <3>1. TypeOK'
      BY <1>5, <2>1 DEF KeepAliveFires, TypeOK
    <3>2. JobPlace(j)'
      BY <1>0, <1>5, <2>1 DEF KeepAliveFires, JobPlace, Holds, TypeOK
    <3> QED
      BY <1>5, <2>1, <3>1, <3>2, JobMoves DEF KeepAliveFires, TypeOK, OwnersAgree
  <2>2. CASE phase[j] # "running"
    BY <1>4, <1>5, <2>2 DEF KeepAliveFires
  <2> QED
    BY <2>1, <2>2
<1>6. CASE KeepAliveStops(j)
  BY <1>4, <1>6 DEF KeepAliveStops
<1>7. CASE Renew(j)
  <2>1. CASE /\ Holds(j) /\ left' = [left EXCEPT ![j] = TTL]
             /\ keep' = [keep EXCEPT ![j] = "ticking"] /\ due' = [due EXCEPT ![j] = 0]
    <3>1. TypeOK'
      <4>1. left' \in [Jobs -> 0..TTL] /\ due' \in [Jobs -> 0..MaxDue]
        BY <1>0, <2>1 DEF TypeOK, MaxDue
      <4> QED
        BY <1>7, <2>1, <4>1 DEF Renew, TypeOK
    <3>2. JobPlace(j)'
      BY <1>0, <1>7, <2>1 DEF Renew, JobPlace, Holds, TypeOK
    <3> QED
      BY <1>7, <2>1, <3>1, <3>2, JobMoves DEF Renew, TypeOK, OwnersAgree
  <2>2. CASE KeepAliveReturns(j) /\ UNCHANGED left
    BY <1>4, <1>7, <2>2 DEF Renew
  <2> QED
    BY <1>7, <2>1, <2>2 DEF Renew
<1> QED
  BY <1>1, <1>2, <1>3, <1>5, <1>6, <1>7
----------------------------------------------------------------------------
\* Steps of the file, of an agent and of the clock.
LEMMA PurgeKeepsInv ==
  ASSUME LedgerInv, Purge
  PROVE  LedgerInv'
<1> USE DEF LedgerInv, Purge, request
<1>1. /\ \A j \in Jobs : records'[j] = IF left[j] = 0 THEN None ELSE records[j]
      /\ records' \in [Jobs -> TaskIds \cup {None}]
  BY DEF removeExpired, TypeOK
<1>2. TypeOK'
  BY <1>1 DEF TypeOK
<1>3. WithinLimits'
  BY <1>1, LimitsShrink
<1>4. OwnersAgree'
  BY <1>1 DEF OwnersAgree
<1>5. \A j \in Jobs : JobPlace(j)'
  BY <1>1, UnexpiredStays
<1> QED
  BY <1>2, <1>3, <1>4, <1>5

\* A crash takes an agent's goroutines; its records stay until they expire.
LEMMA CrashKeepsInv ==
  ASSUME LedgerInv, NEW a \in Agents, Crash(a)
  PROVE  LedgerInv'
<1> USE DEF LedgerInv, Crash, request
<1>0. LaunchLimit \in Nat /\ MaxDue \in Nat
  BY LimitsAssumption DEF MaxDue
<1>1. \A j \in Jobs :
        /\ owner[j] = a => phase'[j] = "over" /\ keep'[j] = "off" /\ due'[j] = 0
        /\ owner[j] # a => /\ phase'[j] = phase[j] /\ keep'[j] = keep[j] /\ due'[j] = due[j]
                           /\ task'[j] = task[j]
        /\ owner'[j] = owner[j] /\ records'[j] = records[j] /\ left'[j] = left[j]
  OBVIOUS
<1>2. TypeOK'
  BY <1>0 DEF TypeOK, TaskIds, Phases
<1>3. WithinLimits'
  BY LimitsShrink
<1>4. OwnersAgree'
  BY <1>1 DEF OwnersAgree
<1>5. \A j \in Jobs : JobPlace(j)'
  BY <1>0, <1>1 DEF JobPlace, Holds
<1> QED
  BY <1>2, <1>3, <1>4, <1>5

\* Reclamation removes records of tasks whose run is over.
LEMMA ReclaimKeepsInv ==
  ASSUME LedgerInv, NEW a \in Agents, ReclaimTerminalTaskReservations(a)
  PROVE  LedgerInv'
<1> USE DEF LedgerInv, ReclaimTerminalTaskReservations, request
<1>0. TTL \in Nat
  BY LimitsAssumption
<1>1. \A j \in Jobs :
        /\ records'[j] \in {records[j], None}
        /\ owner[j] # a => records'[j] = records[j] /\ left'[j] = left[j]
  OBVIOUS
<1>2. TypeOK'
  BY <1>0 DEF TypeOK
<1>3. WithinLimits'
  BY <1>1, LimitsShrink
<1>4. OwnersAgree'
  BY <1>1 DEF OwnersAgree
<1>5. ASSUME NEW j \in Jobs
      PROVE  JobPlace(j)'
  <2>1. phase[j] \in {"calling", "claimed", "running"} => owner[j] # a
    BY DEF JobPlace
  <2> QED
    BY <1>1, <2>1 DEF JobPlace, Holds
<1> QED
  BY <1>2, <1>3, <1>4, <1>5

\* The clock passes no moment at which a possible renewal is due.
LEMMA TickKeepsInv ==
  ASSUME LedgerInv, Tick
  PROVE  LedgerInv'
<1> USE DEF LedgerInv, Tick, request
<1>0. TTL \in Nat /\ LaunchLimit \in Nat /\ RenewEvery \in Nat /\ Lateness \in Nat
  BY LimitsAssumption
<1>1. ASSUME NEW j \in Jobs
      PROVE  /\ left'[j] \in 0..TTL /\ due'[j] \in 0..MaxDue /\ JobPlace(j)'
  <2>1. /\ left[j] \in 0..TTL /\ due[j] \in 0..MaxDue /\ JobPlace(j) /\ phase[j] # "claimed"
        /\ keep[j] # "off" => due[j] < RenewEvery + Lateness
        /\ left'[j] = IF left[j] > 0 THEN left[j] - 1 ELSE 0
        /\ due'[j] = IF (phase[j] = "calling" /\ due[j] <= LaunchLimit) \/ keep[j] # "off"
                     THEN due[j] + 1 ELSE due[j]
    BY DEF TypeOK
  <2>2. left'[j] \in 0..TTL
    BY <1>0, <2>1
  <2>3. due'[j] \in 0..MaxDue
    BY <1>0, <2>1 DEF JobPlace, MaxDue
  <2>4. \/ phase[j] = "calling" /\ due[j] <= LaunchLimit
        \/ phase[j] = "running" /\ keep[j] # "off"
        => left'[j] = left[j] - 1 /\ due'[j] = due[j] + 1
    BY <2>1, ProtectedIsUnexpired
  <2>5. JobPlace(j)'
    BY <1>0, <2>1, <2>4 DEF JobPlace, Holds, MaxDue
  <2> QED
    BY <2>2, <2>3, <2>5
<1>2. TypeOK'
  BY <1>1 DEF TypeOK
<1>3. WithinLimits'
  BY LimitsShrink
<1>4. OwnersAgree'
  BY DEF OwnersAgree
<1> QED
  BY <1>1, <1>2, <1>3, <1>4

\* The file is empty at first and no job has begun.
LEMMA LedgerStart ==
  ASSUME Init
  PROVE  LedgerInv
<1> USE DEF Init
<1>0. TTL \in Nat /\ LaunchLimit \in Nat /\ MaxDue \in Nat /\ MaxHeavy \in Nat /\ MaxNormal \in Nat
      /\ Capacity \in Nat /\ \A c \in Classes : Cost[c] \in Nat
  BY LimitsAssumption DEF MaxDue
<1>1. TypeOK
  BY <1>0 DEF TypeOK, Classes, TaskIds, Phases
<1>2. \A c \in Classes : Reserved(records, c) = {}
  BY DEF Reserved
<1>3. "heavy" \in Classes /\ "normal" \in Classes /\ "control" \in Classes
  BY DEF Classes
<1>4. Cardinality(Reserved(records, "heavy")) = 0 /\ Cardinality(Reserved(records, "normal")) = 0
      /\ Cardinality(Reserved(records, "control")) = 0
  BY <1>2, <1>3, FS_EmptySet
<1>5. reservationTotals(records) = 0
  BY <1>0, <1>3, <1>4 DEF reservationTotals
<1>6. WithinLimits
  BY <1>0, <1>2, <1>3, <1>4, <1>5 DEF WithinLimits
<1>7. OwnersAgree /\ \A j \in Jobs : JobPlace(j)
  BY <1>0 DEF OwnersAgree, JobPlace
<1> QED
  BY <1>1, <1>6, <1>7 DEF LedgerInv

\* Every step of the file, the leases and the clock keeps the invariant.
LEMMA LedgerInduction ==
  ASSUME LedgerInv, [Next]_vars
  PROVE  LedgerInv'
<1>1. CASE UNCHANGED vars
  <2>1. WithinLimits'
    BY <1>1, LimitsShrink DEF LedgerInv, vars, request
  <2> QED
    BY <1>1, <2>1 DEF LedgerInv, vars, request, TypeOK, OwnersAgree, JobPlace, Holds
<1> QED
  BY <1>1, AdmitKeepsInv, HandoverKeepsInv, RunKeepsInv, CrashKeepsInv, ReclaimKeepsInv, PurgeKeepsInv,
     TickKeepsInv
  DEF Next

\* Whatever agents do to the shared file, limits hold, records belong to the
\* task of their handle, and a lease that keepAlive renews has time left: the
\* inductive invariant (Admit, Renew, Release,
\* ReclaimTerminalTaskReservations).
THEOREM LedgerInvariant == Spec => []LedgerInv
<1>1. Init => LedgerInv
  BY LedgerStart
<1>2. LedgerInv /\ [Next]_vars => LedgerInv'
  BY LedgerInduction
<1> QED
  BY <1>1, <1>2, PTL DEF Spec

\* What all agents wrote into the shared file stays within the class limits and
\* the capacity, handles and records name the same task, a run whose keepAlive
\* lives finds an unexpired record, and heavy runs never exceed the limit,
\* through claims, bindings, renewals, expiries, crashes and reclaims.
THEOREM LedgerIsConsistent == Spec => []LedgerConsistent
<1>1. LedgerInv => RunKeepsRecord
  BY ProtectedIsUnexpired DEF RunKeepsRecord
<1>2. LedgerInv /\ RunKeepsRecord => HeavyRunsLimited
  <2> SUFFICES ASSUME LedgerInv, RunKeepsRecord
               PROVE  HeavyRunsLimited
    OBVIOUS
  <2> DEFINE heavy == {j \in Jobs : class[j] = "heavy" /\ phase[j] = "running" /\ keep[j] # "off"}
  <2>1. heavy \subseteq Reserved(records, "heavy")
    BY DEF RunKeepsRecord, Reserved, Holds
  <2>2. "heavy" \in Classes
    BY DEF Classes
  <2>3. IsFiniteSet(heavy) /\ Cardinality(heavy) <= Cardinality(Reserved(records, "heavy"))
        /\ Cardinality(heavy) \in Nat /\ Cardinality(Reserved(records, "heavy")) \in Nat
    BY <2>1, <2>2, ReservedFinite, FS_Subset, FS_CardinalityType
  <2> QED
    BY <2>3, LimitsAssumption DEF HeavyRunsLimited, LedgerInv, WithinLimits
<1>3. LedgerInv => LedgerConsistent
  BY <1>1, <1>2 DEF LedgerInv, LedgerConsistent
<1> QED
  BY <1>3, LedgerInvariant, PTL

\* A record leaves the file once: while its holder is between claim and return
\* only the expiry can take it, and what was released, reclaimed or purged is
\* never written again by a late renewal or binding (Release, Renew,
\* BindReservationTask, ReclaimTerminalTaskReservations).
THEOREM RecordsLeaveOnce == Spec => RecordLeavesOnce
<1> DEFINE Stays == \A j \in Jobs : phase[j] # "idle" /\ records[j] = None => records'[j] = None
           Kept  == \A j \in Jobs : phase[j] \in {"claimed", "running"} /\ left[j] > 0 /\ records[j] # None
                                      => records'[j] # None
<1>1. LedgerInv /\ [Next]_vars => [Stays /\ Kept]_vars
  <2> SUFFICES ASSUME LedgerInv, Next
               PROVE  Stays /\ Kept
    OBVIOUS
  <2> USE DEF LedgerInv, TypeOK
  <2>1. ASSUME NEW j \in Jobs, NEW a \in Agents, NEW c \in Classes, NEW t \in {"unbound", "call"},
               Admit(j, a, c, t)
        PROVE  Stays /\ Kept
    BY <2>1 DEF Admit, removeExpired
  <2>2. ASSUME NEW j \in Jobs,
               \/ claimReservationLease(j) \/ BindSkipped(j) \/ BindRefused(j)
               \/ releaseIfUnclaimed(j) \/ CancelRun(j) \/ RunEnds(j)
               \/ KeepAliveFires(j) \/ KeepAliveStops(j) \/ Renew(j)
        PROVE  Stays /\ Kept
    <3>1. records' = records
      BY <2>2 DEF claimReservationLease, BindSkipped, BindRefused, releaseIfUnclaimed, CancelRun, RunEnds,
                  KeepAliveFires, KeepAliveStops, Renew
    <3> QED
      BY <3>1
  <2>3. ASSUME NEW j \in Jobs, NEW t \in {"plan", "stored"}, BindReservationTask(j, t)
        PROVE  Stays /\ Kept
    BY <2>3, AgentsAssumption DEF BindReservationTask, Holds
  <2>4. ASSUME NEW j \in Jobs, Release(j)
        PROVE  Stays /\ Kept
    BY <2>4 DEF Release
  <2>5. ASSUME NEW a \in Agents, ReclaimTerminalTaskReservations(a)
        PROVE  Stays /\ Kept
    <3>1. \A j \in Jobs : phase[j] \in {"claimed", "running"} => owner[j] # a
      BY <2>5 DEF ReclaimTerminalTaskReservations, JobPlace
    <3> QED
      BY <2>5, <3>1 DEF ReclaimTerminalTaskReservations
  <2>6. CASE Purge
    BY <2>6 DEF Purge, removeExpired
  <2>7. CASE Tick \/ \E a \in Agents : Crash(a)
    BY <2>7 DEF Tick, Crash
  <2> QED
    BY <2>1, <2>2, <2>3, <2>4, <2>5, <2>6, <2>7 DEF Next
<1>2. [Stays /\ Kept]_vars => [Stays]_vars /\ [Kept]_vars
  OBVIOUS
<1> QED
  BY <1>1, <1>2, LedgerInvariant, PTL DEF Spec, RecordLeavesOnce, OnlyHolderReleases, RemovedStaysRemoved
============================================================================
