--------------------------- MODULE DispatcherProofs ---------------------------
(***************************************************************************)
(* The theorems of Dispatcher, for every set of keys, routes and instances *)
(* and every bound.                                                        *)
(*                                                                         *)
(* Any number of replicas whose batches outlive their leases: types, no    *)
(* claim is orphaned, and if ids are never reused, what is recorded as     *)
(* delivered was accepted and nothing acknowledged is lost.                *)
(*                                                                         *)
(* One relay on a store, whatever the store does with ids: it implements   *)
(* Delivery, a delivery is final, and what the relay is told it heeds.      *)
(* recorded as delivered.  Between two awaits of deliverBatch nobody else  *)
(* changes a row that is delivering, so the rows of the batch are still    *)
(* those of the events that were claimed, although the calls that settle   *)
(* them look at neither status nor claim, and although SQLite reuses ids.  *)
(*                                                                         *)
(* Any number of replicas, of which no batch outlives its lease and every  *)
(* backoff does: a lease excludes the others, so each replica is for its   *)
(* rows what the one relay is for all, and the same promises hold.         *)
(***************************************************************************)
EXTENDS Dispatcher, FiniteSetTheorems, WellFoundedInduction, TLAPS

-----------------------------------------------------------------------------
(* The store operators.                                                     *)

\* An id of a table holds a whole row, or no row.
LEMMA RowCases ==
    ASSUME NEW rs \in Table, NEW id \in Id
    PROVE  \/ rs[id] \in Row /\ rs[id].status \in Status /\ rs[id].status # "absent"
           \/ rs[id] = NoRow /\ rs[id].status = "absent"
  BY DEF Table, Row, NoRow, Status, DUE, TERMINAL

\* What every call that updates rows in place preserves: which rows there
\* are, the events they hold, and that only claiming makes a claim.
Keeps(rs, qs) ==
    /\ qs \in Table
    /\ \A id \in Id :
          /\ qs[id].key = rs[id].key
          /\ qs[id].payload = rs[id].payload
          /\ (qs[id].status = "absent") <=> (rs[id].status = "absent")
          /\ qs[id].status = "delivering" =>
                /\ rs[id].status = "delivering"
                /\ qs[id].claimedBy = rs[id].claimedBy

\* Undelivered: calls other than markDelivered deliver nothing.
Undelivered(rs, qs) ==
    \A id \in Id : qs[id].status \in TERMINAL => rs[id].status = qs[id].status

\* Row by row: as before, or another row of the same event with status to.
Rowwise(rs, qs, to) ==
    /\ qs = [id \in Id |-> qs[id]]
    /\ \A id \in Id :
          \/ qs[id] = rs[id]
          \/ /\ rs[id] \in Row /\ qs[id] \in Row
             /\ qs[id].key = rs[id].key /\ qs[id].payload = rs[id].payload
             /\ qs[id].status = to

\* Such an update is one in place.
LEMMA RowwiseKeeps ==
    ASSUME NEW rs \in Table, NEW qs, NEW to, Rowwise(rs, qs, to),
           to \notin {"absent", "delivering"}
    PROVE  Keeps(rs, qs) /\ (to \notin TERMINAL => Undelivered(rs, qs))
  <1>1. \A id \in Id : qs[id] \in Row \union {NoRow}
    BY DEF Rowwise, Table
  <1>2. qs \in Table
    BY <1>1 DEF Rowwise, Table
  <1>3. ASSUME NEW id \in Id
        PROVE  /\ qs[id].key = rs[id].key
               /\ qs[id].payload = rs[id].payload
               /\ (qs[id].status = "absent") <=> (rs[id].status = "absent")
               /\ qs[id].status = "delivering" =>
                     rs[id].status = "delivering" /\ qs[id].claimedBy = rs[id].claimedBy
               /\ to \notin TERMINAL /\ qs[id].status \in TERMINAL =>
                     rs[id].status = qs[id].status
    <2>1. rs[id] \in Row => rs[id].status # "absent"
      BY DEF Row, Status, DUE, TERMINAL
    <2>2. QED
      BY <2>1 DEF Rowwise
  <1>4. QED
    BY <1>2, <1>3 DEF Keeps, Undelivered

\* markDelivered updates in place and changes only the rows it is given.
LEMMA MarkDeliveredKeeps ==
    ASSUME NEW rs \in Table, NEW ids
    PROVE  /\ Keeps(rs, MarkDelivered(rs, ids))
           /\ \A id \in Id : \/ id \in ids
                             \/ MarkDelivered(rs, ids)[id] = rs[id]
           /\ \A id \in Id : MarkDelivered(rs, ids)[id].status = "dropped_by_filter"
                                => rs[id].status = "dropped_by_filter"
  <1>1. ASSUME NEW id \in Id, rs[id] \in Row
        PROVE  [rs[id] EXCEPT !.status = "delivered",
                              !.claimedBy = None, !.leaseUntil = 0] \in Row
    BY <1>1 DEF Row, Status, DUE, TERMINAL
  <1>2. Rowwise(rs, MarkDelivered(rs, ids), "delivered")
    BY <1>1, RowCases DEF Rowwise, MarkDelivered, Present, Row
  <1>3. QED
    <2>1. /\ \A id \in Id : id \in ids \/ MarkDelivered(rs, ids)[id] = rs[id]
          /\ \A id \in Id : MarkDelivered(rs, ids)[id].status = "dropped_by_filter"
                               => rs[id].status = "dropped_by_filter"
      BY <1>2 DEF Rowwise, MarkDelivered
    <2>2. QED
      BY <1>2, <2>1, RowwiseKeeps

\* markFailed updates in place and delivers nothing.
LEMMA MarkFailedKeeps ==
    ASSUME NEW rs \in Table, NEW ids, NEW next \in Nat
    PROVE  /\ Keeps(rs, MarkFailed(rs, ids, next))
           /\ Undelivered(rs, MarkFailed(rs, ids, next))
  <1>1. ASSUME NEW id \in Id, rs[id] \in Row
        PROVE  [rs[id] EXCEPT !.status = "retry",
                              !.attempts = Incremented(rs[id].attempts),
                              !.nextAttemptAt = next,
                              !.claimedBy = None, !.leaseUntil = 0] \in Row
    <2>1. rs[id].attempts \in Nat
      BY <1>1 DEF Row
    <2>2. Incremented(rs[id].attempts) \in Nat
      BY <2>1, BoundAssumption DEF Incremented
    <2>3. QED
      BY <1>1, <2>2 DEF Row, Status, DUE, TERMINAL
  <1>2. Rowwise(rs, MarkFailed(rs, ids, next), "retry")
    BY <1>1, RowCases DEF Rowwise, MarkFailed, Present, Row
  <1>3. QED
    BY <1>2, RowwiseKeeps DEF TERMINAL

\* markParked updates in place and delivers nothing.
LEMMA MarkParkedKeeps ==
    ASSUME NEW rs \in Table, NEW ids
    PROVE  /\ Keeps(rs, MarkParked(rs, ids))
           /\ Undelivered(rs, MarkParked(rs, ids))
  <1>1. ASSUME NEW id \in Id, rs[id] \in Row
        PROVE  [rs[id] EXCEPT !.status = "parked",
                              !.claimedBy = None, !.leaseUntil = 0] \in Row
    BY <1>1 DEF Row, Status, DUE, TERMINAL
  <1>2. Rowwise(rs, MarkParked(rs, ids), "parked")
    BY <1>1, RowCases DEF Rowwise, MarkParked, Present, Row
  <1>3. QED
    BY <1>2, RowwiseKeeps DEF TERMINAL

\* releaseDelivering is markFailed on the rows still delivering, and leaves
\* none of the given rows delivering.
LEMMA ReleaseDeliveringKeeps ==
    ASSUME NEW rs \in Table, NEW ids, NEW t \in Nat
    PROVE  /\ Keeps(rs, ReleaseDelivering(rs, ids, t))
           /\ Undelivered(rs, ReleaseDelivering(rs, ids, t))
           /\ \A id \in ids \intersect Id :
                 ReleaseDelivering(rs, ids, t)[id].status # "delivering"
  <1>1. \A id \in ids \intersect Id :
            ReleaseDelivering(rs, ids, t)[id].status # "delivering"
    BY RowCases DEF ReleaseDelivering, MarkFailed, WithStatus, Present, Row
  <1>2. QED
    BY <1>1, MarkFailedKeeps DEF ReleaseDelivering

\* recoverDelivering updates in place, delivers nothing, and leaves no row
\* claimed by the given owner.
LEMMA RecoverDeliveringKeeps ==
    ASSUME NEW rs \in Table, NEW t \in Nat, NEW owner
    PROVE  /\ Keeps(rs, RecoverDelivering(rs, t, owner))
           /\ Undelivered(rs, RecoverDelivering(rs, t, owner))
           /\ \A id \in Id : owner # None /\ rs[id].claimedBy = owner
                 => RecoverDelivering(rs, t, owner)[id].status # "delivering"
  <1>1. ASSUME NEW id \in Id, rs[id] \in Row
        PROVE  [rs[id] EXCEPT !.status = "retry", !.nextAttemptAt = t,
                              !.claimedBy = None, !.leaseUntil = 0] \in Row
    BY <1>1 DEF Row, Status, DUE, TERMINAL
  <1>2. Rowwise(rs, RecoverDelivering(rs, t, owner), "retry")
    BY <1>1, RowCases DEF Rowwise, RecoverDelivering, Recoverable,
                          WithStatus, Row
  <1>3. QED
    <2>1. \A id \in Id : owner # None /\ rs[id].claimedBy = owner
              => RecoverDelivering(rs, t, owner)[id].status # "delivering"
      BY RowCases DEF RecoverDelivering, Recoverable, WithStatus, Row
    <2>2. QED
      BY <1>2, <2>1, RowwiseKeeps DEF TERMINAL

\* parkExpired updates in place and delivers nothing.
LEMMA ParkExpiredKeeps ==
    ASSUME NEW rs \in Table, NEW t, NEW age
    PROVE  /\ Keeps(rs, ParkExpired(rs, t, age))
           /\ Undelivered(rs, ParkExpired(rs, t, age))
  <1>1. ASSUME NEW id \in Id, rs[id] \in Row
        PROVE  [rs[id] EXCEPT !.status = "parked"] \in Row
    BY <1>1 DEF Row, Status, DUE, TERMINAL
  <1>2. Rowwise(rs, ParkExpired(rs, t, age), "parked")
    BY <1>1, RowCases DEF Rowwise, ParkExpired, Expired, WithStatus, Row
  <1>3. QED
    BY <1>2, RowwiseKeeps DEF TERMINAL

\* replay updates in place and delivers nothing.
LEMMA ReplayKeeps ==
    ASSUME NEW rs \in Table, NEW ids, NEW t \in Nat
    PROVE  /\ Keeps(rs, Replay(rs, ids, t))
           /\ Undelivered(rs, Replay(rs, ids, t))
  <1>1. ASSUME NEW id \in Id, rs[id] \in Row
        PROVE  [rs[id] EXCEPT !.status = "retry", !.attempts = 0,
                              !.nextAttemptAt = t] \in Row
    BY <1>1 DEF Row, Status, DUE, TERMINAL
  <1>2. Rowwise(rs, Replay(rs, ids, t), "retry")
    BY <1>1, RowCases DEF Rowwise, Replay, WithStatus, Row
  <1>3. QED
    BY <1>2, RowwiseKeeps DEF TERMINAL

\* claimDue keeps the events, delivers nothing, and claims due rows for its
\* owner.
LEMMA ClaimDueFacts ==
    ASSUME NEW rs \in Table, NEW ids \in SUBSET Id, NEW t \in Nat,
           NEW owner \in Inst, NEW until \in Nat,
           \A id \in ids : rs[id].status \in DUE
    PROVE  /\ ClaimDue(rs, ids, t, owner, until) \in Table
           /\ Undelivered(rs, ClaimDue(rs, ids, t, owner, until))
           /\ \A id \in ids :
                 /\ ClaimDue(rs, ids, t, owner, until)[id].key = rs[id].key
                 /\ ClaimDue(rs, ids, t, owner, until)[id].payload = rs[id].payload
                 /\ ClaimDue(rs, ids, t, owner, until)[id].status = "delivering"
                 /\ ClaimDue(rs, ids, t, owner, until)[id].claimedBy = owner
           /\ \A id \in Id \ ids : ClaimDue(rs, ids, t, owner, until)[id] = rs[id]
  <1>1. ASSUME NEW id \in Id, rs[id] \in Row
        PROVE  [rs[id] EXCEPT !.status = "delivering", !.nextAttemptAt = t,
                              !.claimedBy = owner, !.leaseUntil = until] \in Row
    BY <1>1 DEF Row, Status, DUE, TERMINAL
  <1> DEFINE qs == ClaimDue(rs, ids, t, owner, until)
  <1>2. \A id \in ids : rs[id] \in Row
    BY RowCases DEF DUE
  <1>3. ASSUME NEW id \in ids
        PROVE  /\ qs[id] \in Row
               /\ qs[id].key = rs[id].key /\ qs[id].payload = rs[id].payload
               /\ qs[id].status = "delivering" /\ qs[id].claimedBy = owner
    BY <1>1, <1>2 DEF ClaimDue, Row
  <1>4. qs = [id \in Id |-> qs[id]] /\ \A id \in Id \ ids : qs[id] = rs[id]
    BY DEF ClaimDue
  <1> HIDE DEF qs
  <1>5. qs \in Table
    BY <1>3, <1>4 DEF Table
  <1>6. Undelivered(rs, qs)
    BY <1>3, <1>4 DEF Undelivered, TERMINAL
  <1>7. QED
    BY <1>3, <1>4, <1>5, <1>6 DEF qs

\* Retention changes terminal rows only.
LEMMA RetentionFacts ==
    ASSUME NEW rs \in Table, NEW ids \in SUBSET WithStatus(rs, TERMINAL)
    PROVE  /\ Wipe(rs, ids) \in Table
           /\ Delete(rs, ids) \in Table
           /\ \A id \in Id :
                 /\ rs[id].status \notin TERMINAL =>
                       Wipe(rs, ids)[id] = rs[id] /\ Delete(rs, ids)[id] = rs[id]
                 /\ Wipe(rs, ids)[id].key = rs[id].key
                 /\ Wipe(rs, ids)[id].status = rs[id].status
                 /\ Delete(rs, ids)[id] \in {rs[id], NoRow}
  <1>1. ASSUME NEW id \in Id, rs[id] \in Row
        PROVE  [rs[id] EXCEPT !.payload = FALSE] \in Row
    BY <1>1 DEF Row
  <1>2. QED
    BY <1>1, RowCases DEF Wipe, Delete, WithStatus, Table, Row, TERMINAL

-----------------------------------------------------------------------------
(* Type correctness.                                                        *)

\* A clock reading, and the instant of a next attempt, is a natural.
LEMMA ClockTypes ==
    ASSUME TypeOK
    PROVE  /\ now \in Nat /\ Horizon \in Nat /\ Horizon > 0 /\ 0..Horizon \subseteq Nat
           /\ now \in 0..Horizon
           /\ \A attempts : NextAttemptAt(attempts) \subseteq Nat
           /\ \A t \in Nat, last \in Nat : Clip(t, last) \in 0..last
           /\ Horizon - RecoverIntervalMs \in 0..Horizon
           /\ Horizon - 1 \in Nat
  <1>1. /\ now \in Nat /\ Horizon \in Nat /\ Horizon > 0 /\ now \in 0..Horizon
        /\ Horizon - RecoverIntervalMs \in 0..Horizon /\ Horizon - 1 \in Nat
    BY ClockAssumption, SettingsAssumption DEF TypeOK, ClockTyped
  <1>2. \A t \in Nat, last \in Nat : Clip(t, last) \in 0..last
    BY DEF Clip
  <1>3. ASSUME NEW attempts PROVE NextAttemptAt(attempts) \subseteq Nat
    <2>1. BackoffDelays(attempts) \subseteq Nat
      BY SettingsAssumption DEF BackoffDelays
    <2>2. \A d \in BackoffDelays(attempts) : Clip(now + d, Horizon) \in Nat
      BY <1>1, <2>1 DEF Clip
    <2>3. QED
      BY <2>2 DEF NextAttemptAt
  <1>4. QED
    BY <1>1, <1>2, <1>3

\* The zero of the clock.
LEMMA ZeroTime == 0 \in 0..Horizon
  BY ClockAssumption

\* A part of the state that a step leaves alone keeps its type.
LEMMA TypeFrame ==
    ASSUME TypeOK
    PROVE  /\ UNCHANGED storeVars => StoreTyped'
           /\ UNCHANGED now => ClockTyped'
           /\ UNCHANGED controlVars => ControlTyped'
           /\ UNCHANGED procVars => ProcTyped'
           /\ UNCHANGED cycleVars => CycleTyped'
           /\ UNCHANGED batchVars => BatchTyped'
           /\ UNCHANGED <<acked, endCloseVars>> => EventsTyped'
           /\ UNCHANGED boundVars => BoundsTyped'
  <1>1. UNCHANGED storeVars => StoreTyped'
    BY DEF TypeOK, StoreTyped, storeVars
  <1>2. UNCHANGED now => ClockTyped'
    BY DEF TypeOK, ClockTyped
  <1>3. UNCHANGED controlVars => ControlTyped'
    BY DEF TypeOK, ControlTyped, controlVars
  <1>4. UNCHANGED procVars => ProcTyped'
    BY DEF TypeOK, ProcTyped, procVars
  <1>5. UNCHANGED cycleVars => CycleTyped'
    BY DEF TypeOK, CycleTyped, cycleVars
  <1>6. UNCHANGED batchVars => BatchTyped'
    BY DEF TypeOK, BatchTyped, batchVars
  <1>7. UNCHANGED <<acked, endCloseVars>> => EventsTyped'
    BY DEF TypeOK, EventsTyped, endCloseVars
  <1>8. UNCHANGED boundVars => BoundsTyped'
    BY DEF TypeOK, BoundsTyped, boundVars
  <1>9. QED
    BY <1>1, <1>2, <1>3, <1>4, <1>5, <1>6, <1>7, <1>8

\* The insert writes a whole row under an id of the table.
LEMMA InsertTyped ==
    ASSUME NEW rs \in Table, NEW id \in Id, NEW k \in Key, NEW r \in Route,
           NEW status \in {"pending", "dropped_by_filter"}, NEW t \in Nat
    PROVE  Insert(rs, id, NewRow(k, r, status, t)) \in Table
  <1>1. NewRow(k, r, status, t) \in Row
    BY DEF NewRow, Row, Status, DUE, TERMINAL
  <1>2. QED
    BY <1>1 DEF Insert, Table

\* routesWithDueEvents names routes.
LEMMA DueRoutes ==
    ASSUME NEW rs \in Table, NEW t
    PROVE  RoutesWithDueEvents(rs, t) \subseteq Route
  BY RowCases DEF RoutesWithDueEvents, DueRows, DUE, NoRow, Row

\* The keys of claims are keys.
LEMMA KeysTyped ==
    ASSUME NEW claims \in SUBSET Claim
    PROVE  Keys(claims) \subseteq Key
  BY DEF Keys, Claim

\* What End Close knows a batch by, and the records it refuses of it.
LEMMA NamesTyped ==
    ASSUME NEW claims \in SUBSET Claim
    PROVE  /\ Names(claims) \in SUBSET Nat
           /\ IdempotencyKey(claims) \in SUBSET (Nat \X SUBSET Nat)
  <1>1. \A c \in claims : RecordName[c.key] \in Nat
    BY NamesAssumption DEF Claim
  <1>2. \A part \in SUBSET claims : Names(part) \in SUBSET Nat
    BY <1>1 DEF Names
  <1>3. \A c \in claims : Names({d \in claims : d.id < c.id}) \in SUBSET Nat
    BY <1>2
  <1>4. \A c \in claims : <<RecordName[c.key], Names({d \in claims : d.id < c.id})>>
                                \in Nat \X SUBSET Nat
    BY <1>1, <1>3
  <1>5. Names(claims) \in SUBSET Nat
    BY <1>2
  <1>6. IdempotencyKey(claims) \subseteq Nat \X SUBSET Nat
    BY <1>4 DEF IdempotencyKey
  <1>7. QED
    BY <1>5, <1>6

\* claimDue is called on due rows and returns what it claimed.
LEMMA ClaimTyped ==
    ASSUME TypeOK, NEW i \in Inst, ClaimBatch(i)
    PROVE  /\ rows' \in Table
           /\ claimed'[i] \in SUBSET Claim
  <1> DEFINE ids == Claimable(rows, route[i], cycleNow[i], BatchMax)
             until == Clip(now + LeaseMs, Horizon - 1)
             claims == {[id |-> id, key |-> rows[id].key,
                         attempts |-> rows[id].attempts,
                         payload |-> rows[id].payload, lease |-> until] : id \in ids}
  <1>1. ids \subseteq Id /\ \A id \in ids : rows[id].status \in DUE
    BY DEF Claimable, DueRows
  <1>2. until \in Nat
    BY ClockTypes, SettingsAssumption DEF Clip
  <1>3. \A id \in ids : rows[id] \in Row
    BY <1>1, RowCases DEF TypeOK, StoreTyped, DUE
  <1>4. claims \in SUBSET Claim
    BY <1>1, <1>2, <1>3 DEF Row, Claim
  <1>5. /\ rows' = ClaimDue(rows, ids, cycleNow[i], i, until)
        /\ claimed' = [claimed EXCEPT ![i] = claims]
    BY DEF ClaimBatch
  <1>6. cycleNow[i] \in Nat
    BY ClockTypes DEF TypeOK, CycleTyped
  <1>7. rows' \in Table
    <2> HIDE DEF ids, until
    <2>1. ClaimDue(rows, ids, cycleNow[i], i, until) \in Table
      BY <1>1, <1>2, <1>6, ClaimDueFacts DEF TypeOK, StoreTyped
    <2>2. QED
      BY <1>5, <2>1
  <1>8. claimed'[i] \in SUBSET Claim
    BY <1>4, <1>5 DEF TypeOK, BatchTyped
  <1>9. QED
    BY <1>7, <1>8

\* Every step keeps every variable in its type.
LEMMA TypeStep ==
    ASSUME TypeOK, [Next]_vars PROVE TypeOK'
  <1>1. ASSUME Tick
        PROVE  TypeOK'
    <2>1. StoreTyped' /\ ControlTyped' /\ ProcTyped' /\ CycleTyped' /\ BatchTyped'
          /\ EventsTyped' /\ BoundsTyped'
      BY <1>1, TypeFrame DEF Tick, Cycling, Batching, Routing, Sweeping, storeVars,
             controlVars, procVars, cycleVars, batchVars, endCloseVars, boundVars
    <2>2. ClockTyped'
      BY <1>1, ClockAssumption DEF TypeOK, ClockTyped, Tick
    <2>3. QED
      BY <2>1, <2>2 DEF TypeOK
  <1>2. ASSUME NEW k \in Key, NEW r \in Route,
               NEW status \in {"pending", "dropped_by_filter"}, IngestInsert(k, r, status)
        PROVE  TypeOK'
    <2>1. ClockTyped' /\ ControlTyped' /\ ProcTyped' /\ CycleTyped' /\ BatchTyped'
          /\ BoundsTyped'
      BY <1>2, TypeFrame DEF IngestInsert, Cycling, Batching, Routing, Sweeping,
             storeVars, controlVars, procVars, cycleVars, batchVars, endCloseVars,
             boundVars
    <2>2. StoreTyped'
      <3>1. rows' = Insert(rows, NewId, NewRow(k, r, status, now)) /\ NewId \in Id
        BY <1>2 DEF IngestInsert
      <3>2. rows' \in Table
        BY <3>1, ClockTypes, InsertTyped DEF TypeOK, StoreTyped
      <3>3. lastId' \in 0..MaxId
        BY <1>2, <3>1, BoundAssumption DEF TypeOK, StoreTyped, IngestInsert, NewId, Id
      <3>4. QED
        BY <3>2, <3>3 DEF StoreTyped
    <2>3. EventsTyped'
      BY <1>2 DEF TypeOK, EventsTyped, IngestInsert, endCloseVars
    <2>4. QED
      BY <2>1, <2>2, <2>3 DEF TypeOK
  <1>3. ASSUME NEW value \in {"none", "pause", "panic"}, SetKillswitch(value)
        PROVE  TypeOK'
    <2>1. StoreTyped' /\ ClockTyped' /\ ProcTyped' /\ CycleTyped' /\ BatchTyped' /\
          EventsTyped'
      BY <1>3, TypeFrame DEF SetKillswitch, Operate, Cycling, Batching, Routing,
             Sweeping, storeVars, controlVars, procVars, cycleVars, batchVars,
             endCloseVars, boundVars
    <2>2. ControlTyped'
      BY <1>3 DEF TypeOK, ControlTyped, SetKillswitch
    <2>3. BoundsTyped'
      BY <1>3, SettingsAssumption DEF TypeOK, BoundsTyped, SetKillswitch, Operate
    <2>4. QED
      BY <2>1, <2>2, <2>3 DEF TypeOK
  <1>4. ASSUME NEW r \in Route, SetRoutePaused(r)
        PROVE  TypeOK'
    <2>1. StoreTyped' /\ ClockTyped' /\ ProcTyped' /\ CycleTyped' /\ BatchTyped' /\
          EventsTyped'
      BY <1>4, TypeFrame DEF SetRoutePaused, Operate, Cycling, Batching, Routing,
             Sweeping, storeVars, controlVars, procVars, cycleVars, batchVars,
             endCloseVars, boundVars
    <2>2. ControlTyped'
      BY <1>4 DEF TypeOK, ControlTyped, SetRoutePaused
    <2>3. BoundsTyped'
      BY <1>4, SettingsAssumption DEF TypeOK, BoundsTyped, SetRoutePaused, Operate
    <2>4. QED
      BY <2>1, <2>2, <2>3 DEF TypeOK
  <1>5. ASSUME NEW r \in Route, ReplaceRoutes(r)
        PROVE  TypeOK'
    <2>1. StoreTyped' /\ ClockTyped' /\ ProcTyped' /\ CycleTyped' /\ BatchTyped' /\
          EventsTyped'
      BY <1>5, TypeFrame DEF ReplaceRoutes, Operate, Cycling, Batching, Routing,
             Sweeping, storeVars, controlVars, procVars, cycleVars, batchVars,
             endCloseVars, boundVars
    <2>2. ControlTyped'
      BY <1>5 DEF TypeOK, ControlTyped, ReplaceRoutes
    <2>3. BoundsTyped'
      BY <1>5, SettingsAssumption DEF TypeOK, BoundsTyped, ReplaceRoutes, Operate
    <2>4. QED
      BY <2>1, <2>2, <2>3 DEF TypeOK
  <1>6. ASSUME NEW ids, ReplayEvents(ids)
        PROVE  TypeOK'
    <2>1. ClockTyped' /\ ControlTyped' /\ ProcTyped' /\ CycleTyped' /\ BatchTyped'
          /\ EventsTyped'
      BY <1>6, TypeFrame DEF ReplayEvents, Operate, Cycling, Batching, Routing,
             Sweeping, storeVars, controlVars, procVars, cycleVars, batchVars,
             endCloseVars, boundVars
    <2>2. StoreTyped'
      BY <1>6, ClockTypes, ReplayKeeps DEF TypeOK, StoreTyped, ReplayEvents,
             Operate, Keeps
    <2>3. BoundsTyped'
      BY <1>6, SettingsAssumption DEF TypeOK, BoundsTyped, ReplayEvents, Operate
    <2>4. QED
      BY <2>1, <2>2, <2>3 DEF TypeOK
  <1>7. ASSUME NEW t, PruneBatch(t)
        PROVE  TypeOK'
    <2>1. ClockTyped' /\ ControlTyped' /\ ProcTyped' /\ CycleTyped' /\ BatchTyped'
          /\ EventsTyped' /\ BoundsTyped'
      BY <1>7, TypeFrame DEF PruneBatch, Cycling, Batching, Routing, Sweeping,
             storeVars, controlVars, procVars, cycleVars, batchVars, endCloseVars,
             boundVars
    <2>2. StoreTyped'
      BY <1>7, RetentionFacts DEF TypeOK, StoreTyped, PruneBatch, Wipeable,
             Deletable
    <2>3. QED
      BY <2>1, <2>2 DEF TypeOK
  <1>8. ASSUME NEW i \in Inst, Crash(i)
        PROVE  TypeOK'
    <2>1. StoreTyped' /\ ClockTyped' /\ ControlTyped' /\ EventsTyped'
      BY <1>8, TypeFrame DEF Crash, Outage, Cycling, Batching, Routing, Sweeping,
             storeVars, controlVars, procVars, cycleVars, batchVars, endCloseVars,
             boundVars
    <2>2. ProcTyped'
      BY <1>8, ZeroTime DEF TypeOK, ProcTyped, Crash
    <2>3. CycleTyped'
      BY <1>8, ZeroTime DEF TypeOK, CycleTyped, Crash, EndCycle, PC
    <2>4. BatchTyped'
      BY <1>8 DEF TypeOK, BatchTyped, Crash, DropBatch
    <2>5. BoundsTyped'
      BY <1>8, SettingsAssumption DEF TypeOK, BoundsTyped, Crash, Outage
    <2>6. QED
      BY <2>1, <2>2, <2>3, <2>4, <2>5 DEF TypeOK
  <1>9. ASSUME NEW i \in Inst, Stop(i)
        PROVE  TypeOK'
    <2>1. StoreTyped' /\ ClockTyped' /\ ControlTyped' /\ CycleTyped' /\ BatchTyped'
          /\ EventsTyped'
      BY <1>9, TypeFrame DEF Stop, Outage, Cycling, Batching, Routing, Sweeping,
             storeVars, controlVars, procVars, cycleVars, batchVars, endCloseVars,
             boundVars
    <2>2. ProcTyped'
      BY <1>9 DEF TypeOK, ProcTyped, Stop
    <2>3. BoundsTyped'
      BY <1>9, SettingsAssumption DEF TypeOK, BoundsTyped, Stop, Outage
    <2>4. QED
      BY <2>1, <2>2, <2>3 DEF TypeOK
  <1>10. ASSUME NEW i \in Inst, Start(i)
        PROVE  TypeOK'
    <2>1. StoreTyped' /\ ClockTyped' /\ ControlTyped' /\ CycleTyped' /\ BatchTyped'
          /\ EventsTyped' /\ BoundsTyped'
      BY <1>10, TypeFrame DEF Start, Cycling, Batching, Routing, Sweeping,
             storeVars, controlVars, procVars, cycleVars, batchVars, endCloseVars,
             boundVars
    <2>2. ProcTyped'
      BY <1>10, ZeroTime DEF TypeOK, ProcTyped, Start
    <2>3. QED
      BY <2>1, <2>2 DEF TypeOK
  <1>11. ASSUME NEW i \in Inst, BeginCycle(i)
        PROVE  TypeOK'
    <2>1. StoreTyped' /\ ClockTyped' /\ ControlTyped' /\ ProcTyped' /\ BatchTyped'
          /\ EventsTyped' /\ BoundsTyped'
      BY <1>11, TypeFrame DEF BeginCycle, Cycling, Batching, Routing, Sweeping,
             storeVars, controlVars, procVars, cycleVars, batchVars, endCloseVars,
             boundVars
    <2>2. CycleTyped'
      BY <1>11, ClockTypes DEF TypeOK, CycleTyped, BeginCycle, Goto, PC, Sweeping,
             Cycling
    <2>3. QED
      BY <2>1, <2>2 DEF TypeOK
  <1>12. ASSUME NEW i \in Inst, Recover(i)
        PROVE  TypeOK'
    <2>1. ClockTyped' /\ ControlTyped' /\ BatchTyped' /\ EventsTyped' /\
          BoundsTyped'
      BY <1>12, TypeFrame DEF Recover, Cycling, Batching, Routing, Sweeping,
             storeVars, controlVars, procVars, cycleVars, batchVars, endCloseVars,
             boundVars
    <2>2. StoreTyped'
      BY <1>12, ClockTypes, RecoverDeliveringKeeps DEF TypeOK, StoreTyped,
             CycleTyped, Recover, Sweeping, Cycling, Keeps
    <2>3. ProcTyped'
      BY <1>12 DEF TypeOK, ProcTyped, Recover, Sweeping, Cycling
    <2>4. CycleTyped'
      BY <1>12 DEF TypeOK, CycleTyped, Recover, Goto, PC, Sweeping, Cycling
    <2>5. QED
      BY <2>1, <2>2, <2>3, <2>4 DEF TypeOK
  <1>13. ASSUME NEW i \in Inst, Park(i)
        PROVE  TypeOK'
    <2>1. ClockTyped' /\ ControlTyped' /\ BatchTyped' /\ EventsTyped' /\
          BoundsTyped'
      BY <1>13, TypeFrame DEF Park, Cycling, Batching, Routing, Sweeping, storeVars,
             controlVars, procVars, cycleVars, batchVars, endCloseVars, boundVars
    <2>2. StoreTyped'
      BY <1>13, ParkExpiredKeeps DEF TypeOK, StoreTyped, Park, Sweeping, Cycling,
             Keeps
    <2>3. ProcTyped'
      BY <1>13, ClockTypes, ClockAssumption, SettingsAssumption DEF TypeOK,
             ProcTyped, Park, Clip, Sweeping, Cycling
    <2>4. CycleTyped'
      BY <1>13 DEF TypeOK, CycleTyped, Park, Goto, PC, Sweeping, Cycling
    <2>5. QED
      BY <2>1, <2>2, <2>3, <2>4 DEF TypeOK
  <1>14. ASSUME NEW i \in Inst, CheckKillswitch(i)
        PROVE  TypeOK'
    <2>1. StoreTyped' /\ ClockTyped' /\ ControlTyped' /\ ProcTyped' /\ BatchTyped'
          /\ EventsTyped' /\ BoundsTyped'
      BY <1>14, TypeFrame DEF CheckKillswitch, Cycling, Batching, Routing, Sweeping,
             storeVars, controlVars, procVars, cycleVars, batchVars, endCloseVars,
             boundVars
    <2>2. CycleTyped'
      BY <1>14, ZeroTime DEF TypeOK, CycleTyped, CheckKillswitch, EndCycle, Goto,
             PC, Routing, Cycling
    <2>3. QED
      BY <2>1, <2>2 DEF TypeOK
  <1>15. ASSUME NEW i \in Inst, ListDue(i)
        PROVE  TypeOK'
    <2>1. StoreTyped' /\ ClockTyped' /\ ControlTyped' /\ ProcTyped' /\ BatchTyped'
          /\ EventsTyped' /\ BoundsTyped'
      BY <1>15, TypeFrame DEF ListDue, Cycling, Batching, Routing, Sweeping,
             storeVars, controlVars, procVars, cycleVars, batchVars, endCloseVars,
             boundVars
    <2>2. CycleTyped'
      BY <1>15, DueRoutes DEF TypeOK, CycleTyped, StoreTyped, ListDue, Goto, PC,
             Routing, Cycling
    <2>3. QED
      BY <2>1, <2>2 DEF TypeOK
  <1>16. ASSUME NEW i \in Inst, NEW r \in Route, NextRoute(i, r)
        PROVE  TypeOK'
    <2>1. StoreTyped' /\ ClockTyped' /\ ControlTyped' /\ ProcTyped' /\ BatchTyped'
          /\ EventsTyped' /\ BoundsTyped'
      BY <1>16, TypeFrame DEF NextRoute, Cycling, Batching, Routing, Sweeping,
             storeVars, controlVars, procVars, cycleVars, batchVars, endCloseVars,
             boundVars
    <2>2. CycleTyped'
      BY <1>16 DEF TypeOK, CycleTyped, NextRoute, Goto, PC, Routing, Cycling
    <2>3. QED
      BY <2>1, <2>2 DEF TypeOK
  <1>17. ASSUME NEW i \in Inst, FinishCycle(i)
        PROVE  TypeOK'
    <2>1. StoreTyped' /\ ClockTyped' /\ ControlTyped' /\ ProcTyped' /\ BatchTyped'
          /\ EventsTyped' /\ BoundsTyped'
      BY <1>17, TypeFrame DEF FinishCycle, Cycling, Batching, Routing, Sweeping,
             storeVars, controlVars, procVars, cycleVars, batchVars, endCloseVars,
             boundVars
    <2>2. CycleTyped'
      BY <1>17, ZeroTime DEF TypeOK, CycleTyped, FinishCycle, EndCycle, PC, Routing,
             Cycling
    <2>3. QED
      BY <2>1, <2>2 DEF TypeOK
  <1>18. ASSUME NEW i \in Inst, ClaimBatch(i)
        PROVE  TypeOK'
    <2>1. ClockTyped' /\ ControlTyped' /\ ProcTyped' /\ EventsTyped' /\ BoundsTyped'
      BY <1>18, TypeFrame DEF ClaimBatch, Cycling, Batching, Routing, Sweeping,
             storeVars, controlVars, procVars, cycleVars, batchVars, endCloseVars,
             boundVars
    <2>2. StoreTyped'
      BY <1>18, ClaimTyped DEF TypeOK, ClaimBatch, StoreTyped, Cycling
    <2>3. CycleTyped'
      BY <1>18 DEF TypeOK, CycleTyped, ClaimBatch, Goto, PC, Cycling
    <2>4. BatchTyped'
      BY <1>18, ClaimTyped DEF TypeOK, BatchTyped, ClaimBatch
    <2>5. QED
      BY <2>1, <2>2, <2>3, <2>4 DEF TypeOK
  <1>19. ASSUME NEW i \in Inst, NEW c \in todo[i], MapEvent(i, c)
        PROVE  TypeOK'
    <2>1. StoreTyped' /\ ClockTyped' /\ ControlTyped' /\ ProcTyped' /\ EventsTyped'
          /\ BoundsTyped'
      BY <1>19, TypeFrame DEF MapEvent, Advance, Cycling, Batching, Routing,
             Sweeping, storeVars, controlVars, procVars, cycleVars, batchVars,
             endCloseVars, boundVars
    <2>2. CycleTyped'
      BY <1>19 DEF TypeOK, CycleTyped, MapEvent, Advance, Goto, PC, Batching,
             Cycling
    <2>3. BatchTyped'
      BY <1>19 DEF TypeOK, BatchTyped, MapEvent, Advance, Batching
    <2>4. QED
      BY <2>1, <2>2, <2>3 DEF TypeOK
  <1>20. ASSUME NEW i \in Inst, NEW c \in todo[i], ParkUnmappable(i, c)
        PROVE  TypeOK'
    <2>1. ClockTyped' /\ ControlTyped' /\ ProcTyped' /\ EventsTyped' /\ BoundsTyped'
      BY <1>20, TypeFrame DEF ParkUnmappable, Advance, Cycling, Batching, Routing,
             Sweeping, storeVars, controlVars, procVars, cycleVars, batchVars,
             endCloseVars, boundVars
    <2>2. StoreTyped'
      BY <1>20, MarkParkedKeeps DEF TypeOK, StoreTyped, ParkUnmappable, Advance,
             Batching, Cycling, Keeps
    <2>3. CycleTyped'
      BY <1>20 DEF TypeOK, CycleTyped, ParkUnmappable, Advance, Goto, PC, Batching,
             Cycling
    <2>4. BatchTyped'
      BY <1>20 DEF TypeOK, BatchTyped, ParkUnmappable, Advance, Batching
    <2>5. QED
      BY <2>1, <2>2, <2>3, <2>4 DEF TypeOK
  <1>21. ASSUME NEW i \in Inst, NEW c \in todo[i], RetryOne(i, c)
        PROVE  TypeOK'
    <2>1. ClockTyped' /\ ControlTyped' /\ ProcTyped' /\ EventsTyped' /\ BoundsTyped'
      BY <1>21, TypeFrame DEF RetryOne, Advance, Cycling, Batching, Routing,
             Sweeping, storeVars, controlVars, procVars, cycleVars, batchVars,
             endCloseVars, boundVars
    <2>2. StoreTyped'
      BY <1>21, ClockTypes, MarkFailedKeeps DEF TypeOK, StoreTyped, RetryOne,
             Advance, Batching, Cycling, Keeps
    <2>3. CycleTyped'
      BY <1>21 DEF TypeOK, CycleTyped, RetryOne, Advance, Goto, PC, Batching,
             Cycling
    <2>4. BatchTyped'
      BY <1>21 DEF TypeOK, BatchTyped, RetryOne, Advance, Batching
    <2>5. QED
      BY <2>1, <2>2, <2>3, <2>4 DEF TypeOK
  <1>22. ASSUME NEW i \in Inst, NEW c \in todo[i], Undecoded(i, c)
        PROVE  TypeOK'
    <2>1. StoreTyped' /\ ClockTyped' /\ ControlTyped' /\ ProcTyped' /\ BatchTyped'
          /\ EventsTyped' /\ BoundsTyped'
      BY <1>22, TypeFrame DEF Undecoded, Cycling, Batching, Routing, Sweeping,
             storeVars, controlVars, procVars, cycleVars, batchVars, endCloseVars,
             boundVars
    <2>2. CycleTyped'
      BY <1>22 DEF TypeOK, CycleTyped, Undecoded, Goto, PC, Batching, Cycling
    <2>3. QED
      BY <2>1, <2>2 DEF TypeOK
  <1>23. ASSUME NEW i \in Inst, PostAccepted(i)
        PROVE  TypeOK'
    <2>1. StoreTyped' /\ ClockTyped' /\ ControlTyped' /\ ProcTyped' /\ BoundsTyped'
      BY <1>23, TypeFrame DEF PostAccepted, Cycling, Batching, Routing, Sweeping,
             storeVars, controlVars, procVars, cycleVars, batchVars, endCloseVars,
             boundVars
    <2>2. CycleTyped'
      BY <1>23 DEF TypeOK, CycleTyped, PostAccepted, Goto, PC, Batching, Cycling
    <2>3. BatchTyped'
      BY <1>23 DEF TypeOK, BatchTyped, PostAccepted, Batching
    <2>4. EventsTyped'
      BY <1>23, KeysTyped DEF TypeOK, EventsTyped, BatchTyped, PostAccepted,
             EndCloseTakes, Batching, Cycling
    <2>5. QED
      BY <2>1, <2>2, <2>3, <2>4 DEF TypeOK
  <1>24. ASSUME NEW i \in Inst, PostTransient(i)
        PROVE  TypeOK'
    <2>1. StoreTyped' /\ ClockTyped' /\ ControlTyped' /\ ProcTyped' /\ BoundsTyped'
      BY <1>24, TypeFrame DEF PostTransient, Cycling, Batching, Routing, Sweeping,
             storeVars, controlVars, procVars, cycleVars, batchVars, endCloseVars,
             boundVars
    <2>2. CycleTyped'
      BY <1>24 DEF TypeOK, CycleTyped, PostTransient, Goto, PC, Batching, Cycling
    <2>3. BatchTyped'
      BY <1>24 DEF TypeOK, BatchTyped, PostTransient, Batching
    <2>4. EventsTyped'
      BY <1>24, KeysTyped DEF TypeOK, EventsTyped, BatchTyped, PostTransient,
             EndCloseTakes, endCloseVars, Batching, Cycling
    <2>5. QED
      BY <2>1, <2>2, <2>3, <2>4 DEF TypeOK
  <1>25. ASSUME NEW i \in Inst, PostUnreadable(i)
        PROVE  TypeOK'
    <2>1. StoreTyped' /\ ClockTyped' /\ ControlTyped' /\ ProcTyped' /\ BoundsTyped'
      BY <1>25, TypeFrame DEF PostUnreadable, Cycling, Batching, Routing, Sweeping,
             storeVars, controlVars, procVars, cycleVars, batchVars, endCloseVars,
             boundVars
    <2>2. CycleTyped'
      BY <1>25 DEF TypeOK, CycleTyped, PostUnreadable, Goto, PC, Batching, Cycling
    <2>3. BatchTyped'
      BY <1>25 DEF TypeOK, BatchTyped, PostUnreadable, Batching
    <2>4. EventsTyped'
      BY <1>25, KeysTyped DEF TypeOK, EventsTyped, BatchTyped, PostUnreadable,
             EndCloseTakes, Batching, Cycling
    <2>5. QED
      BY <2>1, <2>2, <2>3, <2>4 DEF TypeOK
  <1>26. ASSUME NEW i \in Inst, NEW label \in {"reject", "fail"}, PostRefused(i, label)
        PROVE  TypeOK'
    <2>1. StoreTyped' /\ ClockTyped' /\ ControlTyped' /\ ProcTyped' /\ EventsTyped'
          /\ BoundsTyped'
      BY <1>26, TypeFrame DEF PostRefused, Cycling, Batching, Routing, Sweeping,
             storeVars, controlVars, procVars, cycleVars, batchVars, endCloseVars,
             boundVars
    <2>2. CycleTyped'
      BY <1>26 DEF TypeOK, CycleTyped, PostRefused, Goto, PC, Batching, Cycling
    <2>3. BatchTyped'
      BY <1>26 DEF TypeOK, BatchTyped, PostRefused, Batching
    <2>4. QED
      BY <2>1, <2>2, <2>3 DEF TypeOK
  <1>27. ASSUME NEW i \in Inst, PollAgain(i)
        PROVE  TypeOK'
    <2>1. StoreTyped' /\ ClockTyped' /\ ControlTyped' /\ ProcTyped' /\ CycleTyped'
          /\ EventsTyped' /\ BoundsTyped'
      BY <1>27, TypeFrame DEF PollAgain, Cycling, Batching, Routing, Sweeping,
             storeVars, controlVars, procVars, cycleVars, batchVars, endCloseVars,
             boundVars
    <2>2. BatchTyped'
      BY <1>27 DEF TypeOK, BatchTyped, PollAgain, Batching
    <2>3. QED
      BY <2>1, <2>2 DEF TypeOK
  <1>28. ASSUME NEW i \in Inst, PollGivesUp(i)
        PROVE  TypeOK'
    <2>1. StoreTyped' /\ ClockTyped' /\ ControlTyped' /\ ProcTyped' /\ BoundsTyped'
      BY <1>28, TypeFrame DEF PollGivesUp, Settle, Cycling, Batching, Routing,
             Sweeping, storeVars, controlVars, procVars, cycleVars, batchVars,
             endCloseVars, boundVars
    <2>2. CycleTyped'
      BY <1>28 DEF TypeOK, CycleTyped, PollGivesUp, Settle, Goto, PC, Batching,
             Cycling
    <2>3. BatchTyped'
      BY <1>28 DEF TypeOK, BatchTyped, PollGivesUp, Settle, Batching
    <2>4. EventsTyped'
      BY <1>28 DEF TypeOK, EventsTyped, PollGivesUp, Settle, Batching, Cycling
    <2>5. QED
      BY <2>1, <2>2, <2>3, <2>4 DEF TypeOK
  <1>29. ASSUME NEW i \in Inst, NEW failing \in SUBSET mapped[i],
               NEW byIndex, PollResults(i, failing, byIndex)
        PROVE  TypeOK'
    <2>1. StoreTyped' /\ ClockTyped' /\ ControlTyped' /\ ProcTyped' /\ BoundsTyped'
      BY <1>29, TypeFrame DEF PollResults, Settle, Cycling, Batching, Routing,
             Sweeping, storeVars, controlVars, procVars, cycleVars, batchVars,
             endCloseVars, boundVars
    <2>2. CycleTyped'
      BY <1>29 DEF TypeOK, CycleTyped, PollResults, Settle, Goto, PC, Batching,
             Cycling
    <2>3. BatchTyped'
      BY <1>29 DEF TypeOK, BatchTyped, PollResults, Settle, Batching
    <2>4. EventsTyped'
      <3> DEFINE result == [batch |-> IdempotencyKey(mapped[i]), failed |-> Names(failing)]
      <3>1. mapped[i] \subseteq Claim /\ failing \subseteq Claim
        BY <1>29 DEF TypeOK, BatchTyped
      <3>2. result \in [batch : SUBSET (Nat \X SUBSET Nat), failed : SUBSET Nat]
        BY <3>1, NamesTyped
      <3>3. Keys(mapped[i]) \subseteq Key /\ Keys(failing) \subseteq Key
        BY <3>1, KeysTyped
      <3>4. /\ results' = results \union {result}
            /\ refused' = refused \/ refused' = refused \union Keys(failing)
            /\ told' = (told \ Keys(mapped[i])) \union Keys(failing)
            /\ acked' = acked /\ accepted' = accepted
        BY <1>29 DEF PollResults, EndCloseReports, Settle, Batching, Cycling
      <3> HIDE DEF result
      <3>5. QED
        BY <3>2, <3>3, <3>4 DEF TypeOK, EventsTyped
    <2>5. QED
      BY <2>1, <2>2, <2>3, <2>4 DEF TypeOK
  <1>30. ASSUME NEW i \in Inst, SettlePark(i)
        PROVE  TypeOK'
    <2>1. ClockTyped' /\ ControlTyped' /\ ProcTyped' /\ BatchTyped' /\ EventsTyped'
          /\ BoundsTyped'
      BY <1>30, TypeFrame DEF SettlePark, StoreCall, Cycling, Batching, Routing,
             Sweeping, storeVars, controlVars, procVars, cycleVars, batchVars,
             endCloseVars, boundVars
    <2>2. StoreTyped'
      BY <1>30, MarkParkedKeeps DEF TypeOK, StoreTyped, SettlePark, StoreCall,
             Batching, Cycling, Keeps
    <2>3. CycleTyped'
      BY <1>30 DEF TypeOK, CycleTyped, SettlePark, StoreCall, Goto, PC, Batching,
             Cycling
    <2>4. QED
      BY <2>1, <2>2, <2>3 DEF TypeOK
  <1>31. ASSUME NEW i \in Inst, SettleOk(i)
        PROVE  TypeOK'
    <2>1. ClockTyped' /\ ControlTyped' /\ ProcTyped' /\ BatchTyped' /\ EventsTyped'
          /\ BoundsTyped'
      BY <1>31, TypeFrame DEF SettleOk, StoreCall, Cycling, Batching, Routing,
             Sweeping, storeVars, controlVars, procVars, cycleVars, batchVars,
             endCloseVars, boundVars
    <2>2. StoreTyped'
      BY <1>31, MarkDeliveredKeeps DEF TypeOK, StoreTyped, SettleOk, StoreCall,
             Batching, Cycling, Keeps
    <2>3. CycleTyped'
      BY <1>31 DEF TypeOK, CycleTyped, SettleOk, StoreCall, Goto, PC, Batching,
             Cycling
    <2>4. QED
      BY <2>1, <2>2, <2>3 DEF TypeOK
  <1>32. ASSUME NEW i \in Inst, ParkBatch(i)
        PROVE  TypeOK'
    <2>1. ClockTyped' /\ ControlTyped' /\ ProcTyped' /\ BatchTyped' /\ EventsTyped'
          /\ BoundsTyped'
      BY <1>32, TypeFrame DEF ParkBatch, StoreCall, Cycling, Batching, Routing,
             Sweeping, storeVars, controlVars, procVars, cycleVars, batchVars,
             endCloseVars, boundVars
    <2>2. StoreTyped'
      BY <1>32, MarkParkedKeeps DEF TypeOK, StoreTyped, ParkBatch, StoreCall,
             Batching, Cycling, Keeps
    <2>3. CycleTyped'
      BY <1>32 DEF TypeOK, CycleTyped, ParkBatch, StoreCall, Goto, PC, Batching,
             Cycling
    <2>4. QED
      BY <2>1, <2>2, <2>3 DEF TypeOK
  <1>33. ASSUME NEW i \in Inst, RetryBatch(i)
        PROVE  TypeOK'
    <2>1. ClockTyped' /\ ControlTyped' /\ ProcTyped' /\ BatchTyped' /\ EventsTyped'
          /\ BoundsTyped'
      BY <1>33, TypeFrame DEF RetryBatch, StoreCall, Cycling, Batching, Routing,
             Sweeping, storeVars, controlVars, procVars, cycleVars, batchVars,
             endCloseVars, boundVars
    <2>2. StoreTyped'
      BY <1>33, ClockTypes, MarkFailedKeeps DEF TypeOK, StoreTyped, RetryBatch,
             StoreCall, Batching, Cycling, Keeps
    <2>3. CycleTyped'
      BY <1>33 DEF TypeOK, CycleTyped, RetryBatch, StoreCall, Goto, PC, Batching,
             Cycling
    <2>4. QED
      BY <2>1, <2>2, <2>3 DEF TypeOK
  <1>34. ASSUME NEW i \in Inst, ReleaseLeftover(i)
        PROVE  TypeOK'
    <2>1. ClockTyped' /\ ControlTyped' /\ ProcTyped' /\ EventsTyped' /\ BoundsTyped'
      BY <1>34, TypeFrame DEF ReleaseLeftover, AfterRelease, Cycling, Batching,
             Routing, Sweeping, storeVars, controlVars, procVars, cycleVars,
             batchVars, endCloseVars, boundVars
    <2>2. StoreTyped'
      BY <1>34, ClockTypes, ReleaseDeliveringKeeps DEF TypeOK, StoreTyped,
             ReleaseLeftover, AfterRelease, Cycling, Keeps
    <2>3. CycleTyped'
      BY <1>34, ZeroTime DEF TypeOK, CycleTyped, ReleaseLeftover, AfterRelease,
             EndCycle, Goto, PC
    <2>4. BatchTyped'
      BY <1>34 DEF TypeOK, BatchTyped, ReleaseLeftover, AfterRelease, DropBatch
    <2>5. QED
      BY <2>1, <2>2, <2>3, <2>4 DEF TypeOK
  <1>35. ASSUME NEW i \in Inst, SweepThrows(i)
        PROVE  TypeOK'
    <2>1. StoreTyped' /\ ClockTyped' /\ ControlTyped' /\ ProcTyped' /\ BatchTyped'
          /\ EventsTyped'
      BY <1>35, TypeFrame DEF SweepThrows, Throw, Fault, Cycling, Batching, Routing,
             Sweeping, storeVars, controlVars, procVars, cycleVars, batchVars,
             endCloseVars, boundVars
    <2>2. CycleTyped'
      BY <1>35 DEF TypeOK, CycleTyped, SweepThrows, Throw, Goto, PC
    <2>3. BoundsTyped'
      BY <1>35, SettingsAssumption DEF TypeOK, BoundsTyped, SweepThrows, Throw,
             Fault, Cycling
    <2>4. QED
      BY <2>1, <2>2, <2>3 DEF TypeOK
  <1>36. ASSUME NEW i \in Inst, CycleThrows(i)
        PROVE  TypeOK'
    <2>1. StoreTyped' /\ ClockTyped' /\ ControlTyped' /\ ProcTyped' /\ BatchTyped'
          /\ EventsTyped'
      BY <1>36, TypeFrame DEF CycleThrows, Fault, Cycling, Batching, Routing,
             Sweeping, storeVars, controlVars, procVars, cycleVars, batchVars,
             endCloseVars, boundVars
    <2>2. CycleTyped'
      BY <1>36, ZeroTime DEF TypeOK, CycleTyped, CycleThrows, EndCycle, PC
    <2>3. BoundsTyped'
      BY <1>36, SettingsAssumption DEF TypeOK, BoundsTyped, CycleThrows, Fault,
             Cycling
    <2>4. QED
      BY <2>1, <2>2, <2>3 DEF TypeOK
  <1>37. ASSUME NEW i \in Inst, SettleThrows(i)
        PROVE  TypeOK'
    <2>1. StoreTyped' /\ ClockTyped' /\ ControlTyped' /\ ProcTyped' /\ BatchTyped'
          /\ EventsTyped'
      BY <1>37, TypeFrame DEF SettleThrows, Throw, Fault, Cycling, Batching,
             Routing, Sweeping, storeVars, controlVars, procVars, cycleVars,
             batchVars, endCloseVars, boundVars
    <2>2. CycleTyped'
      BY <1>37 DEF TypeOK, CycleTyped, SettleThrows, Throw, Goto, PC
    <2>3. BoundsTyped'
      BY <1>37, SettingsAssumption DEF TypeOK, BoundsTyped, SettleThrows, Throw,
             Fault, Cycling
    <2>4. QED
      BY <2>1, <2>2, <2>3 DEF TypeOK
  <1>38. ASSUME NEW i \in Inst, BatchThrows(i)
        PROVE  TypeOK'
    <2>1. StoreTyped' /\ ClockTyped' /\ ControlTyped' /\ ProcTyped' /\ BatchTyped'
          /\ EventsTyped'
      BY <1>38, TypeFrame DEF BatchThrows, Throw, Fault, Cycling, Batching, Routing,
             Sweeping, storeVars, controlVars, procVars, cycleVars, batchVars,
             endCloseVars, boundVars
    <2>2. CycleTyped'
      BY <1>38 DEF TypeOK, CycleTyped, BatchThrows, Throw, Goto, PC
    <2>3. BoundsTyped'
      BY <1>38, SettingsAssumption DEF TypeOK, BoundsTyped, BatchThrows, Throw,
             Fault, Cycling
    <2>4. QED
      BY <2>1, <2>2, <2>3 DEF TypeOK
  <1>39. ASSUME NEW i \in Inst, ReleaseThrows(i)
        PROVE  TypeOK'
    <2>1. StoreTyped' /\ ClockTyped' /\ ControlTyped' /\ EventsTyped'
      BY <1>39, TypeFrame DEF ReleaseThrows, AfterRelease, Fault, Cycling, Batching,
             Routing, Sweeping, storeVars, controlVars, procVars, cycleVars,
             batchVars, endCloseVars, boundVars
    <2>2. ProcTyped'
      BY <1>39 DEF TypeOK, ProcTyped, ReleaseThrows, AfterRelease, Cycling
    <2>3. CycleTyped'
      BY <1>39, ZeroTime DEF TypeOK, CycleTyped, ReleaseThrows, AfterRelease,
             EndCycle, Goto, PC
    <2>4. BatchTyped'
      BY <1>39 DEF TypeOK, BatchTyped, ReleaseThrows, AfterRelease, DropBatch
    <2>5. BoundsTyped'
      BY <1>39, SettingsAssumption DEF TypeOK, BoundsTyped, ReleaseThrows,
             AfterRelease, Fault, Cycling
    <2>6. QED
      BY <2>1, <2>2, <2>3, <2>4, <2>5 DEF TypeOK
  <1>40. CASE UNCHANGED vars
    BY <1>40, TypeFrame DEF vars, TypeOK
  <1>41. QED
    BY <1>1, <1>2, <1>3, <1>4, <1>5, <1>6, <1>7, <1>8, <1>9, <1>10, <1>11, <1>12,
           <1>13, <1>14, <1>15, <1>16, <1>17, <1>18, <1>19, <1>20, <1>21, <1>22,
           <1>23, <1>24, <1>25, <1>26, <1>27, <1>28, <1>29, <1>30, <1>31, <1>32,
           <1>33, <1>34, <1>35, <1>36, <1>37, <1>38, <1>39, <1>40, ClockAssumption
           DEF Next, Environment, Operator, CycleStep, Housekeeping, Routes,
           MapBatch, Send, SettleBatch, StoreThrows, Lifecycle

-----------------------------------------------------------------------------
(* What a step does to the table.                                           *)

\* Every variable has its type in the initial state.
LEMMA TypeInit == Init => TypeOK
  <1> SUFFICES ASSUME Init PROVE TypeOK
    OBVIOUS
  <1>1. StoreTyped
    BY BoundAssumption DEF Init, StoreTyped, EmptyTable, Table
  <1>2. ClockTyped
    BY ClockAssumption DEF Init, ClockTyped
  <1>3. ControlTyped /\ EventsTyped
    BY DEF Init, ControlTyped, EventsTyped
  <1>4. ProcTyped
    BY ZeroTime DEF Init, ProcTyped
  <1>5. CycleTyped
    BY ZeroTime DEF Init, CycleTyped, PC
  <1>6. BatchTyped
    BY DEF Init, BatchTyped
  <1>7. BoundsTyped
    BY SettingsAssumption DEF Init, BoundsTyped
  <1>8. QED
    BY <1>1, <1>2, <1>3, <1>4, <1>5, <1>6, <1>7 DEF TypeOK

\* Type correctness: no interleaving of cycles, ingest, operators, retention,
\* faults and crashes takes a variable out of its type; in particular every
\* store call leaves whole rows behind.
THEOREM TypeCorrect == Spec => []TypeOK
  BY TypeInit, TypeStep, PTL DEF Spec

\* A step that updates rows in place: it inserts, deletes, wipes, claims and
\* delivers nothing, and End Close forgets nothing.
InPlace ==
    /\ Keeps(rows, rows') /\ Undelivered(rows, rows')
    /\ UNCHANGED <<lastId, acked>>
    /\ accepted \subseteq accepted'

\* A table is kept by a step that leaves it alone.
LEMMA KeepsSame ==
    ASSUME NEW rs \in Table
    PROVE  Keeps(rs, rs) /\ Undelivered(rs, rs)
  BY DEF Keeps, Undelivered

\* All but four actions update rows in place: the insert of a new event, one
\* batch of retention, a claim, and the recording of a delivery.
LEMMA StepKinds ==
    ASSUME TypeOK, [Next]_vars
    PROVE  \/ InPlace
           \/ \E k \in Key, r \in Route, status \in {"pending", "dropped_by_filter"} :
                 IngestInsert(k, r, status)
           \/ \E t \in StartTime..now : PruneBatch(t)
           \/ \E i \in Inst : ClaimBatch(i) \/ SettleOk(i)
  <1>1. UNCHANGED <<rows, lastId, acked>> /\ accepted \subseteq accepted' => InPlace
    BY KeepsSame DEF InPlace, TypeOK, StoreTyped
  <1>2. ASSUME NEW ids, ReplayEvents(ids) PROVE InPlace
    BY <1>2, ClockTypes, ReplayKeeps DEF InPlace, ReplayEvents, Operate, TypeOK,
           StoreTyped, endCloseVars
  <1>3. ASSUME NEW i \in Inst, Recover(i) PROVE InPlace
    BY <1>3, ClockTypes, RecoverDeliveringKeeps DEF InPlace, Recover, Sweeping,
           Cycling, CycleTyped, TypeOK, StoreTyped, endCloseVars
  <1>4. ASSUME NEW i \in Inst, Park(i) PROVE InPlace
    BY <1>4, ParkExpiredKeeps DEF InPlace, Park, Sweeping, Cycling, TypeOK,
           StoreTyped, endCloseVars
  <1>5. ASSUME NEW i \in Inst, NEW c \in todo[i], ParkUnmappable(i, c) PROVE InPlace
    BY <1>5, MarkParkedKeeps DEF InPlace, ParkUnmappable, Advance, Batching,
           Cycling, TypeOK, StoreTyped, endCloseVars
  <1>6. ASSUME NEW i \in Inst, NEW c \in todo[i], RetryOne(i, c) PROVE InPlace
    BY <1>6, ClockTypes, MarkFailedKeeps DEF InPlace, RetryOne, Advance, Batching,
           Cycling, TypeOK, StoreTyped, endCloseVars
  <1>7. ASSUME NEW i \in Inst, SettlePark(i) PROVE InPlace
    BY <1>7, MarkParkedKeeps DEF InPlace, SettlePark, StoreCall, Batching, Cycling,
           TypeOK, StoreTyped, endCloseVars
  <1>8. ASSUME NEW i \in Inst, ParkBatch(i) PROVE InPlace
    BY <1>8, MarkParkedKeeps DEF InPlace, ParkBatch, StoreCall, Batching, Cycling,
           TypeOK, StoreTyped, endCloseVars
  <1>9. ASSUME NEW i \in Inst, RetryBatch(i) PROVE InPlace
    BY <1>9, ClockTypes, MarkFailedKeeps DEF InPlace, RetryBatch, StoreCall,
           Batching, Cycling, TypeOK, StoreTyped, endCloseVars
  <1>10. ASSUME NEW i \in Inst, ReleaseLeftover(i) PROVE InPlace
    BY <1>10, ClockTypes, ReleaseDeliveringKeeps DEF InPlace, ReleaseLeftover,
           AfterRelease, Cycling, TypeOK, StoreTyped, endCloseVars
  <1>11. ASSUME Tick \/ (\E value : SetKillswitch(value)) \/ \E r : SetRoutePaused(r) \/ ReplaceRoutes(r)
        PROVE  InPlace
    BY <1>11, <1>1 DEF Tick, SetKillswitch, SetRoutePaused, ReplaceRoutes, Operate,
           storeVars, endCloseVars
  <1>12. ASSUME NEW i \in Inst, Lifecycle(i)
        PROVE  InPlace
    BY <1>12, <1>1 DEF Lifecycle, Crash, Stop, Start, Outage, storeVars,
           endCloseVars
  <1>13. ASSUME NEW i \in Inst, BeginCycle(i) \/ CheckKillswitch(i) \/ ListDue(i) \/ FinishCycle(i)
               \/ \E r : NextRoute(i, r)
        PROVE  InPlace
    BY <1>13, <1>1 DEF BeginCycle, CheckKillswitch, ListDue, FinishCycle, NextRoute,
           Sweeping, Routing, Cycling, endCloseVars
  <1>14. ASSUME NEW i \in Inst, NEW c \in todo[i], MapEvent(i, c) \/ Undecoded(i, c)
        PROVE  InPlace
    BY <1>14, <1>1 DEF MapEvent, Undecoded, Advance, Batching, Cycling, endCloseVars
  <1>15. ASSUME NEW i \in Inst, Send(i)
        PROVE  InPlace
    BY <1>15, <1>1 DEF Send, PostAccepted, PostTransient, PostUnreadable,
           PostRefused, EndCloseTakes, Batching, Cycling, endCloseVars
  <1>16. ASSUME NEW i \in Inst, PollAgain(i) \/ PollGivesUp(i)
               \/ \E failing, byIndex : PollResults(i, failing, byIndex)
        PROVE  InPlace
    BY <1>16, <1>1 DEF PollAgain, PollGivesUp, PollResults, Settle, Batching,
           Cycling, endCloseVars
  <1>17. ASSUME NEW i \in Inst, StoreThrows(i)
        PROVE  InPlace
    BY <1>17, <1>1 DEF StoreThrows, SweepThrows, CycleThrows, SettleThrows,
           BatchThrows, ReleaseThrows, Throw, Fault, AfterRelease, Cycling,
           endCloseVars
  <1>18. CASE UNCHANGED vars
    BY <1>18, <1>1 DEF vars, storeVars, endCloseVars
  <1>19. QED
    BY <1>1, <1>2, <1>3, <1>4, <1>5, <1>6, <1>7, <1>8, <1>9, <1>10, <1>11, <1>12,
           <1>13, <1>14, <1>15, <1>16, <1>17, <1>18 DEF Next, Environment, Operator,
           CycleStep, Housekeeping, Routes, MapBatch, SettleBatch

-----------------------------------------------------------------------------
(* The batch an instance works on.                                          *)

\* A batch is claimed, split up and given back within deliverBatch.
BatchShape ==
    \A i \in Inst :
        /\ todo[i] \union mapped[i] \subseteq claimed[i]
        /\ bad[i] \subseteq mapped[i]
        /\ pc[i] \in {"idle", "recover", "park", "killswitch", "due", "route", "claim"}
              => claimed[i] = {}

\* A step that leaves the batches and the positions of all instances alone
\* keeps the shape of the batches.
LEMMA ShapeFrame ==
    ASSUME BatchShape, UNCHANGED <<pc, claimed, todo, mapped, bad>>
    PROVE  BatchShape'
  BY DEF BatchShape

\* Every step keeps the shape of the batches: what is mapped, still to map or
\* failing was claimed, and no batch outlives deliverBatch.
LEMMA ShapeStep ==
    ASSUME TypeOK, BatchShape, [Next]_vars
    PROVE  BatchShape'
  <1> USE DEF TypeOK, CycleTyped, BatchTyped
  <1>1. ASSUME Environment
        PROVE  BatchShape'
    BY <1>1, ShapeFrame DEF Environment, Tick, IngestInsert, Operator,
           SetKillswitch, SetRoutePaused, ReplaceRoutes, ReplayEvents, Operate,
           PruneBatch, cycleVars, batchVars
  <1>2. ASSUME NEW i \in Inst, Crash(i)
        PROVE  BatchShape'
    BY <1>2 DEF BatchShape, Crash, EndCycle, DropBatch
  <1>3. ASSUME NEW i \in Inst, Stop(i) \/ Start(i)
        PROVE  BatchShape'
    BY <1>3, ShapeFrame DEF Stop, Start, cycleVars, batchVars
  <1>4. ASSUME NEW i \in Inst, BeginCycle(i)
        PROVE  BatchShape'
    BY <1>4 DEF BatchShape, BeginCycle, At, Goto, Sweeping, batchVars
  <1>5. ASSUME NEW i \in Inst, Recover(i)
        PROVE  BatchShape'
    BY <1>5 DEF BatchShape, Recover, At, Goto, Sweeping, batchVars
  <1>6. ASSUME NEW i \in Inst, Park(i)
        PROVE  BatchShape'
    BY <1>6 DEF BatchShape, Park, At, Goto, Sweeping, batchVars
  <1>7. ASSUME NEW i \in Inst, CheckKillswitch(i)
        PROVE  BatchShape'
    BY <1>7 DEF BatchShape, CheckKillswitch, EndCycle, At, Goto, Routing, batchVars
  <1>8. ASSUME NEW i \in Inst, ListDue(i)
        PROVE  BatchShape'
    BY <1>8 DEF BatchShape, ListDue, At, Goto, Routing, batchVars
  <1>9. ASSUME NEW i \in Inst, NEW r \in Route, NextRoute(i, r)
        PROVE  BatchShape'
    BY <1>9 DEF BatchShape, NextRoute, At, Goto, Routing, batchVars
  <1>10. ASSUME NEW i \in Inst, FinishCycle(i)
        PROVE  BatchShape'
    BY <1>10 DEF BatchShape, FinishCycle, EndCycle, At, Routing, batchVars
  <1>11. ASSUME NEW i \in Inst, ClaimBatch(i)
        PROVE  BatchShape'
    BY <1>11 DEF BatchShape, ClaimBatch, At, Goto
  <1>12. ASSUME NEW i \in Inst, NEW c \in todo[i], MapEvent(i, c)
        PROVE  BatchShape'
    BY <1>12 DEF BatchShape, MapEvent, Advance, At, Goto, Batching
  <1>13. ASSUME NEW i \in Inst, NEW c \in todo[i], ParkUnmappable(i, c)
        PROVE  BatchShape'
    BY <1>13 DEF BatchShape, ParkUnmappable, Advance, At, Goto, Batching
  <1>14. ASSUME NEW i \in Inst, NEW c \in todo[i], RetryOne(i, c)
        PROVE  BatchShape'
    BY <1>14 DEF BatchShape, RetryOne, Advance, At, Goto, Batching
  <1>15. ASSUME NEW i \in Inst, NEW c \in todo[i], Undecoded(i, c)
        PROVE  BatchShape'
    BY <1>15 DEF BatchShape, Undecoded, At, Goto, Batching
  <1>16. ASSUME NEW i \in Inst, PostAccepted(i)
        PROVE  BatchShape'
    BY <1>16 DEF BatchShape, PostAccepted, At, Goto, Batching
  <1>17. ASSUME NEW i \in Inst, PostTransient(i)
        PROVE  BatchShape'
    BY <1>17 DEF BatchShape, PostTransient, At, Goto, Batching
  <1>18. ASSUME NEW i \in Inst, PostUnreadable(i)
        PROVE  BatchShape'
    BY <1>18 DEF BatchShape, PostUnreadable, At, Goto, Batching
  <1>19. ASSUME NEW i \in Inst, NEW label \in {"reject", "fail"}, PostRefused(i, label)
        PROVE  BatchShape'
    BY <1>19 DEF BatchShape, PostRefused, At, Goto, Batching
  <1>20. ASSUME NEW i \in Inst, PollAgain(i)
        PROVE  BatchShape'
    BY <1>20, ShapeFrame DEF PollAgain, Batching
  <1>21. ASSUME NEW i \in Inst, PollGivesUp(i)
        PROVE  BatchShape'
    BY <1>21 DEF BatchShape, PollGivesUp, Settle, At, Goto, Batching
  <1>22. ASSUME NEW i \in Inst, NEW failing \in SUBSET mapped[i],
               NEW byIndex, PollResults(i, failing, byIndex)
        PROVE  BatchShape'
    BY <1>22 DEF BatchShape, PollResults, Settle, At, Goto, Batching
  <1>23. ASSUME NEW i \in Inst, SettlePark(i)
        PROVE  BatchShape'
    BY <1>23 DEF BatchShape, SettlePark, StoreCall, At, Goto, Batching
  <1>24. ASSUME NEW i \in Inst, SettleOk(i)
        PROVE  BatchShape'
    BY <1>24 DEF BatchShape, SettleOk, StoreCall, At, Goto, Batching
  <1>25. ASSUME NEW i \in Inst, ParkBatch(i)
        PROVE  BatchShape'
    BY <1>25 DEF BatchShape, ParkBatch, StoreCall, At, Goto, Batching
  <1>26. ASSUME NEW i \in Inst, RetryBatch(i)
        PROVE  BatchShape'
    BY <1>26 DEF BatchShape, RetryBatch, StoreCall, At, Goto, Batching
  <1>27. ASSUME NEW i \in Inst, ReleaseLeftover(i) \/ ReleaseThrows(i)
        PROVE  BatchShape'
    BY <1>27 DEF BatchShape, ReleaseLeftover, ReleaseThrows, AfterRelease,
           DropBatch, EndCycle, Goto
  <1>28. ASSUME NEW i \in Inst, SweepThrows(i)
        PROVE  BatchShape'
    BY <1>28 DEF BatchShape, SweepThrows, Throw, Goto, batchVars
  <1>29. ASSUME NEW i \in Inst, CycleThrows(i)
        PROVE  BatchShape'
    BY <1>29 DEF BatchShape, CycleThrows, EndCycle, At, batchVars
  <1>30. ASSUME NEW i \in Inst, SettleThrows(i) \/ BatchThrows(i)
        PROVE  BatchShape'
    BY <1>30 DEF BatchShape, SettleThrows, BatchThrows, Throw, Goto, batchVars
  <1>31. CASE UNCHANGED vars
    BY <1>31, ShapeFrame DEF vars, cycleVars, batchVars
  <1>32. QED
    BY <1>1, <1>2, <1>3, <1>4, <1>5, <1>6, <1>7, <1>8, <1>9, <1>10, <1>11, <1>12,
           <1>13, <1>14, <1>15, <1>16, <1>17, <1>18, <1>19, <1>20, <1>21, <1>22,
           <1>23, <1>24, <1>25, <1>26, <1>27, <1>28, <1>29, <1>30, <1>31 DEF Next,
           CycleStep, Housekeeping, Routes, MapBatch, Send, SettleBatch,
           StoreThrows, Lifecycle

-----------------------------------------------------------------------------
(* No claim is orphaned.                                                    *)

\* Six actions change which rows an instance holds, or whether it will reclaim
\* rows by name; the others change neither.
LEMMA ClaimSteps ==
    ASSUME [Next]_vars
    PROVE  \/ UNCHANGED <<claimed, reclaim>>
           \/ \E i \in Inst : \/ Recover(i) \/ ClaimBatch(i) \/ ReleaseLeftover(i)
                              \/ ReleaseThrows(i) \/ Crash(i) \/ Start(i)
  <1>1. ASSUME Environment
        PROVE  UNCHANGED <<claimed, reclaim>>
    BY <1>1 DEF Environment, Tick, IngestInsert, Operator, SetKillswitch,
           SetRoutePaused, ReplaceRoutes, ReplayEvents, Operate, PruneBatch,
           procVars, batchVars
  <1>2. ASSUME NEW i \in Inst, Stop(i)
        PROVE  UNCHANGED <<claimed, reclaim>>
    BY <1>2 DEF Stop, batchVars
  <1>3. ASSUME NEW i \in Inst,
               \/ BeginCycle(i) \/ Park(i) \/ CheckKillswitch(i) \/ ListDue(i)
               \/ FinishCycle(i) \/ \E r : NextRoute(i, r)
        PROVE  UNCHANGED <<claimed, reclaim>>
    BY <1>3 DEF BeginCycle, Park, CheckKillswitch, ListDue, FinishCycle, NextRoute,
           Sweeping, Routing, batchVars
  <1>4. ASSUME NEW i \in Inst, MapBatch(i) \/ Send(i)
        PROVE  UNCHANGED <<claimed, reclaim>>
    BY <1>4 DEF MapBatch, MapEvent, ParkUnmappable, RetryOne, Undecoded, Advance,
           Send, PostAccepted, PostTransient, PostUnreadable, PostRefused, Batching
  <1>5. ASSUME NEW i \in Inst,
               \/ PollAgain(i) \/ PollGivesUp(i) \/ SettlePark(i) \/ SettleOk(i)
               \/ ParkBatch(i) \/ RetryBatch(i)
               \/ \E failing, byIndex : PollResults(i, failing, byIndex)
        PROVE  UNCHANGED <<claimed, reclaim>>
    BY <1>5 DEF PollAgain, PollGivesUp, PollResults, Settle, SettlePark, SettleOk,
           ParkBatch, RetryBatch, StoreCall, Batching
  <1>6. ASSUME NEW i \in Inst,
               SweepThrows(i) \/ CycleThrows(i) \/ SettleThrows(i) \/ BatchThrows(i)
        PROVE  UNCHANGED <<claimed, reclaim>>
    BY <1>6 DEF SweepThrows, CycleThrows, SettleThrows, BatchThrows, Throw, batchVars
  <1>7. CASE UNCHANGED vars
    BY <1>7 DEF vars, procVars, batchVars
  <1>8. QED
    BY <1>1, <1>2, <1>3, <1>4, <1>5, <1>6, <1>7 DEF Next, CycleStep, Housekeeping,
           Routes, SettleBatch, StoreThrows, Lifecycle

\* Rows that stay delivering keep their owner, and only a claim makes a row
\* delivering.
LEMMA DeliveringBefore ==
    ASSUME TypeOK, [Next]_vars, NEW id \in Id, rows'[id].status = "delivering"
    PROVE  \/ rows[id].status = "delivering" /\ rows'[id].claimedBy = rows[id].claimedBy
           \/ \E i \in Inst : ClaimBatch(i)
  <1>1. CASE InPlace
    BY <1>1 DEF InPlace, Keeps
  <1>2. ASSUME NEW k \in Key, NEW r \in Route,
               NEW status \in {"pending", "dropped_by_filter"}, IngestInsert(k, r, status)
        PROVE  rows[id].status = "delivering" /\ rows'[id].claimedBy = rows[id].claimedBy
    <2>1. rows'[id] \in {rows[id], NewRow(k, r, status, now)}
      BY <1>2 DEF IngestInsert, Insert, TypeOK, StoreTyped, Table
    <2>2. QED
      BY <2>1 DEF NewRow
  <1>3. ASSUME NEW t, PruneBatch(t)
        PROVE  rows[id].status = "delivering" /\ rows'[id].claimedBy = rows[id].claimedBy
    BY <1>3, RetentionFacts DEF PruneBatch, Wipeable, Deletable, TypeOK, StoreTyped,
           NoRow, TERMINAL
  <1>4. ASSUME NEW i \in Inst, SettleOk(i)
        PROVE  rows[id].status = "delivering" /\ rows'[id].claimedBy = rows[id].claimedBy
    BY <1>4, MarkDeliveredKeeps DEF SettleOk, Keeps, TypeOK, StoreTyped
  <1>5. QED
    BY <1>1, <1>2, <1>3, <1>4, StepKinds

\* A claim names its rows: they are delivering for the caller, which lists
\* them, and every other row is as before.
Claims(i, ids) ==
    /\ \A id \in ids : rows[id].status \in DUE
    /\ \A id \in ids : /\ rows'[id].key = rows[id].key
                       /\ rows'[id].payload = rows[id].payload
                       /\ rows'[id].status = "delivering"
                       /\ rows'[id].claimedBy = i
    /\ \A id \in Id \ ids : rows'[id] = rows[id]
    /\ Ids(claimed'[i]) = ids
    /\ \A c \in claimed'[i] : c.id \in ids /\ c.key = rows[c.id].key
    /\ \A j \in Inst \ {i} : claimed'[j] = claimed[j]

LEMMA ClaimBatchFacts ==
    ASSUME TypeOK, NEW i \in Inst, ClaimBatch(i)
    PROVE  \E ids \in SUBSET Id : Claims(i, ids)
  <1> DEFINE ids == Claimable(rows, route[i], cycleNow[i], BatchMax)
             until == Clip(now + LeaseMs, Horizon - 1)
             claims == {[id |-> id, key |-> rows[id].key,
                         attempts |-> rows[id].attempts,
                         payload |-> rows[id].payload, lease |-> until] : id \in ids}
  <1>1. ids \subseteq Id /\ \A id \in ids : rows[id].status \in DUE
    BY DEF Claimable, DueRows
  <1>2. until \in Nat /\ cycleNow[i] \in Nat
    BY ClockTypes, SettingsAssumption DEF Clip, TypeOK, CycleTyped
  <1>3. /\ rows' = ClaimDue(rows, ids, cycleNow[i], i, until)
        /\ claimed' = [claimed EXCEPT ![i] = claims]
    BY DEF ClaimBatch
  <1>4. /\ claimed'[i] = claims
        /\ \A j \in Inst \ {i} : claimed'[j] = claimed[j]
    BY <1>3 DEF TypeOK, BatchTyped
  <1>5. Ids(claims) = ids
    <2>1. ASSUME NEW id \in ids PROVE \E c \in claims : c.id = id
      <3>1. [id |-> id, key |-> rows[id].key, attempts |-> rows[id].attempts,
             payload |-> rows[id].payload, lease |-> until] \in claims
        OBVIOUS
      <3> HIDE DEF claims
      <3>2. QED
        BY <3>1
    <2>2. \A c \in claims : c.id \in ids
      OBVIOUS
    <2> HIDE DEF ids, claims
    <2>3. QED
      BY <2>1, <2>2 DEF Ids
  <1>6. \A c \in claims : c.id \in ids /\ c.key = rows[c.id].key
    OBVIOUS
  <1>7. /\ \A id \in ids : /\ rows'[id].key = rows[id].key
                           /\ rows'[id].payload = rows[id].payload
                           /\ rows'[id].status = "delivering"
                           /\ rows'[id].claimedBy = i
        /\ \A id \in Id \ ids : rows'[id] = rows[id]
    <2> HIDE DEF ids, until, claims
    <2>1. \A id \in Id : id \in ids => rows[id] \in Row
      BY <1>1, RowCases DEF TypeOK, StoreTyped, DUE
    <2>2. QED
      BY <1>1, <1>3, <2>1 DEF ClaimDue, Row
  <1> HIDE DEF ids, claims
  <1>8. Claims(i, ids)
    BY <1>1, <1>4, <1>5, <1>6, <1>7 DEF Claims
  <1>9. QED
    BY <1>1, <1>8

\* Every step keeps every claim owned.
LEMMA OwnedStep ==
    ASSUME TypeOK, BatchShape, NoOrphanedClaim, [Next]_vars
    PROVE  NoOrphanedClaim'
  <1> SUFFICES ASSUME NEW id \in Id, rows'[id].status = "delivering"
               PROVE  /\ rows'[id].claimedBy \in Inst
                      /\ \/ reclaim'[rows'[id].claimedBy]
                         \/ id \in Ids(claimed'[rows'[id].claimedBy])
    BY DEF NoOrphanedClaim, WithStatus
  <1> DEFINE owner == rows[id].claimedBy
  <1>1. ASSUME NEW i \in Inst, ClaimBatch(i)
        PROVE  /\ rows'[id].claimedBy \in Inst
               /\ \/ reclaim'[rows'[id].claimedBy]
                  \/ id \in Ids(claimed'[rows'[id].claimedBy])
    <2>0. PICK ids \in SUBSET Id : Claims(i, ids)
      BY <1>1, ClaimBatchFacts
    <2>1. /\ \A x \in ids : rows'[x].claimedBy = i
          /\ \A x \in Id \ ids : rows'[x] = rows[x]
          /\ Ids(claimed'[i]) = ids
          /\ \A j \in Inst \ {i} : claimed'[j] = claimed[j]
      BY <2>0 DEF Claims
    <2>2. CASE id \in ids
      BY <2>1, <2>2
    <2>3. CASE id \notin ids
      <3>1. /\ rows'[id].claimedBy = owner /\ owner \in Inst
            /\ reclaim[owner] \/ id \in Ids(claimed[owner])
        BY <2>1, <2>3 DEF NoOrphanedClaim, WithStatus
      <3>2. claimed[i] = {} /\ reclaim' = reclaim
        BY <1>1 DEF BatchShape, ClaimBatch, At
      <3>3. QED
        BY <2>1, <3>1, <3>2 DEF Ids
    <2>4. QED
      BY <2>2, <2>3
  <1>2. ASSUME rows[id].status = "delivering", rows'[id].claimedBy = owner
        PROVE  /\ rows'[id].claimedBy \in Inst
               /\ \/ reclaim'[rows'[id].claimedBy]
                  \/ id \in Ids(claimed'[rows'[id].claimedBy])
    <2>1. owner \in Inst /\ (reclaim[owner] \/ id \in Ids(claimed[owner]))
      BY <1>2 DEF NoOrphanedClaim, WithStatus
    <2>2. CASE UNCHANGED <<claimed, reclaim>>
      BY <1>2, <2>1, <2>2
    <2>3. ASSUME NEW i \in Inst, Recover(i)
          PROVE  reclaim'[owner] \/ id \in Ids(claimed'[owner])
      <3>1. claimed' = claimed /\ reclaim' = [reclaim EXCEPT ![i] = FALSE]
        BY <2>3 DEF Recover, Sweeping, batchVars
      <3>2. CASE owner = i /\ reclaim[i]
        <4>1. rows' = RecoverDelivering(rows, cycleNow[i], i)
          BY <2>3, <3>2 DEF Recover
        <4>2. cycleNow[i] \in Nat /\ i # None /\ rows \in Table
          BY ClockTypes, NoneAssumption DEF TypeOK, CycleTyped, StoreTyped
        <4>3. QED
          BY <3>2, <4>1, <4>2, RecoverDeliveringKeeps
      <3>3. QED
        BY <2>1, <3>1, <3>2 DEF TypeOK, ProcTyped
    <2>4. ASSUME NEW i \in Inst, ReleaseLeftover(i)
          PROVE  reclaim'[owner] \/ id \in Ids(claimed'[owner])
      <3>1. /\ reclaim' = reclaim
            /\ claimed' = [claimed EXCEPT ![i] = {}]
            /\ rows' = ReleaseDelivering(rows, Ids(claimed[i]), now)
        BY <2>4 DEF ReleaseLeftover, AfterRelease, DropBatch
      <3>2. id \notin Ids(claimed[i])
        BY <3>1, ClockTypes, ReleaseDeliveringKeeps DEF TypeOK, StoreTyped
      <3>3. QED
        BY <2>1, <3>1, <3>2 DEF TypeOK, BatchTyped
    <2>5. ASSUME NEW i \in Inst, ReleaseThrows(i)
          PROVE  reclaim'[owner] \/ id \in Ids(claimed'[owner])
      BY <2>1, <2>5 DEF ReleaseThrows, AfterRelease, DropBatch, TypeOK, ProcTyped,
             BatchTyped
    <2>6. ASSUME NEW i \in Inst, Crash(i)
          PROVE  reclaim'[owner] \/ id \in Ids(claimed'[owner])
      BY <2>1, <2>6 DEF Crash, DropBatch, TypeOK, ProcTyped, BatchTyped
    <2>7. ASSUME NEW i \in Inst, Start(i)
          PROVE  reclaim'[owner] \/ id \in Ids(claimed'[owner])
      BY <2>1, <2>7 DEF Start, batchVars, TypeOK, ProcTyped
    <2>8. ASSUME NEW i \in Inst, ClaimBatch(i)
          PROVE  reclaim'[owner] \/ id \in Ids(claimed'[owner])
      BY <1>1, <1>2, <2>8
    <2>9. QED
      BY <1>2, <2>1, <2>2, <2>3, <2>4, <2>5, <2>6, <2>7, <2>8, ClaimSteps
  <1>3. QED
    BY <1>1, <1>2, DeliveringBefore

\* What holds with any store: the batches have their shape and every claim
\* has an owner that works on it or will take it back.
ClaimInv == TypeOK /\ BatchShape /\ NoOrphanedClaim

\* The inductive invariant behind OrphanFreedom holds throughout.
LEMMA ClaimInvariant == Spec => []ClaimInv
  <1>1. Init => ClaimInv
    BY TypeInit DEF ClaimInv, Init, BatchShape, NoOrphanedClaim, WithStatus,
           EmptyTable, NoRow
  <1>2. ClaimInv /\ [Next]_vars => ClaimInv'
    BY TypeStep, ShapeStep, OwnedStep DEF ClaimInv
  <1>3. QED
    BY <1>1, <1>2, PTL DEF Spec

\* No claim is orphaned, for any number of instances and events, any fault,
\* crash, shutdown and overrun lease: a row that is delivering is in its
\* owner's batch, or its owner reclaims it by name (reclaimOwner).
THEOREM OrphanFreedom == Spec => []NoOrphanedClaim
  <1>1. ClaimInv => NoOrphanedClaim
    BY DEF ClaimInv
  <1>2. QED
    BY <1>1, ClaimInvariant, PTL

-----------------------------------------------------------------------------
(* Delivery.  The rest holds of a store whose ids are never reused (the      *)
(* memory store; Postgres sequences).  A SQLite rowid may return after       *)
(* retention has deleted the last row.                                       *)

\* Ids grow with the table, a claim names the event it was made for, and a
\* batch whose results are being settled has been taken by End Close.
RowsNumbered == \A id \in Present(rows) : id <= lastId
ClaimsMatchRows ==
    \A i \in Inst : \A c \in claimed[i] :
        /\ c.id <= lastId
        /\ c.id \in Present(rows) => rows[c.id].key = c.key
BatchWasAccepted ==
    \A i \in Inst : pc[i] \in {"poll", "settlePark", "settleOk"}
                      => Keys(mapped[i]) \subseteq accepted

\* A new event gets an id after every id ever used.
LEMMA InsertFacts ==
    ASSUME TypeOK, ReusesIds = FALSE, RowsNumbered,
           NEW k \in Key, NEW r \in Route,
           NEW status \in {"pending", "dropped_by_filter"}, IngestInsert(k, r, status)
    PROVE  /\ lastId' = lastId + 1 /\ lastId' \in Id /\ lastId \in Nat
           /\ rows[lastId'].status = "absent"
           /\ rows'[lastId'] = NewRow(k, r, status, now)
           /\ \A id \in Id \ {lastId'} : rows'[id] = rows[id]
           /\ UNCHANGED <<claimed, accepted>>
           /\ acked' = IF status = "pending" THEN acked \union {k} ELSE acked
  <1>1. NewId = lastId + 1
    BY DEF NewId
  <1>2. /\ lastId' = lastId + 1 /\ lastId + 1 \in Id /\ lastId \in Nat
        /\ rows' = [rows EXCEPT ![lastId + 1] = NewRow(k, r, status, now)]
        /\ UNCHANGED <<claimed, accepted>>
        /\ acked' = IF status = "pending" THEN acked \union {k} ELSE acked
    BY <1>1 DEF IngestInsert, Insert, TypeOK, StoreTyped, batchVars, endCloseVars
  <1>3. lastId + 1 \notin Present(rows)
    BY <1>2 DEF RowsNumbered, Id
  <1>4. QED
    BY <1>2, <1>3 DEF Present, TypeOK, StoreTyped, Table

\* Retention deletes or wipes rows that are terminal and inserts none.
LEMMA PruneFacts ==
    ASSUME TypeOK, NEW t, PruneBatch(t)
    PROVE  /\ UNCHANGED <<lastId, acked, accepted, claimed>>
           /\ \A id \in Id :
                 /\ rows[id].status \notin TERMINAL => rows'[id] = rows[id]
                 /\ \/ rows'[id] = NoRow
                    \/ /\ rows'[id].key = rows[id].key
                       /\ rows'[id].status = rows[id].status
  BY RetentionFacts DEF PruneBatch, Wipeable, Deletable, TypeOK, StoreTyped,
         batchVars, endCloseVars

\* Recording a delivery changes only rows of the batch that End Close has
\* taken.
LEMMA SettleFacts ==
    ASSUME TypeOK, BatchShape, ClaimsMatchRows, BatchWasAccepted,
           NEW i \in Inst, SettleOk(i)
    PROVE  /\ UNCHANGED <<lastId, acked, accepted, claimed>>
           /\ Keeps(rows, rows')
           /\ \A id \in Id : \/ rows'[id] = rows[id]
                             \/ rows[id].key \in accepted
  <1>1. /\ UNCHANGED <<lastId, acked, accepted, claimed>>
        /\ rows' = MarkDelivered(rows, Ids(mapped[i] \ bad[i]))
        /\ pc[i] = "settleOk"
    BY DEF SettleOk, StoreCall, Batching, Cycling, endCloseVars, At
  <1>2. ASSUME NEW id \in Id, rows'[id] # rows[id]
        PROVE  rows[id].key \in accepted
    <2>1. id \in Ids(mapped[i] \ bad[i]) /\ id \in Present(rows)
      BY <1>1, <1>2 DEF MarkDelivered
    <2>2. PICK c \in mapped[i] : c.id = id
      BY <2>1 DEF Ids
    <2>3. rows[id].key = c.key
      BY <2>1, <2>2 DEF BatchShape, ClaimsMatchRows
    <2>4. c.key \in Keys(mapped[i])
      BY <2>2 DEF Keys
    <2>5. QED
      BY <1>1, <2>3, <2>4 DEF BatchWasAccepted
  <1>3. QED
    BY <1>1, <1>2, MarkDeliveredKeeps DEF TypeOK, StoreTyped

\* A batch that is being settled has been taken by End Close.
LEMMA AcceptedStep ==
    ASSUME TypeOK, BatchWasAccepted, [Next]_vars
    PROVE  BatchWasAccepted'
  <1> USE DEF TypeOK, CycleTyped, BatchTyped
  <1>1. ASSUME UNCHANGED <<pc, mapped>>, accepted \subseteq accepted'
        PROVE  BatchWasAccepted'
    BY <1>1 DEF BatchWasAccepted
  <1>2. ASSUME NEW i \in Inst, accepted \subseteq accepted',
               \A j \in Inst \ {i} : pc'[j] = pc[j] /\ mapped'[j] = mapped[j],
               pc'[i] \notin {"poll", "settlePark", "settleOk"}
        PROVE  BatchWasAccepted'
    BY <1>2 DEF BatchWasAccepted
  <1>3. ASSUME Environment
        PROVE  BatchWasAccepted'
    BY <1>1, <1>3 DEF Environment, Tick, IngestInsert, Operator, SetKillswitch,
           SetRoutePaused, ReplaceRoutes, ReplayEvents, Operate, PruneBatch,
           cycleVars, batchVars, endCloseVars
  <1>4. ASSUME NEW i \in Inst, Lifecycle(i)
        PROVE  BatchWasAccepted'
    BY <1>1, <1>2, <1>4 DEF Lifecycle, Crash, Stop, Start, Outage, EndCycle,
           DropBatch, cycleVars, batchVars, endCloseVars
  <1>5. ASSUME NEW i \in Inst, Housekeeping(i)
        PROVE  BatchWasAccepted'
    BY <1>2, <1>5 DEF Housekeeping, BeginCycle, Recover, Park, CheckKillswitch,
           EndCycle, Goto, Sweeping, Routing, batchVars, endCloseVars
  <1>6. ASSUME NEW i \in Inst, Routes(i)
        PROVE  BatchWasAccepted'
    BY <1>1, <1>2, <1>6 DEF Routes, ListDue, FinishCycle, ClaimBatch, NextRoute,
           EndCycle, Goto, At, Routing, batchVars, endCloseVars
  <1>7. ASSUME NEW i \in Inst, MapBatch(i)
        PROVE  BatchWasAccepted'
    BY <1>2, <1>7 DEF MapBatch, MapEvent, ParkUnmappable, RetryOne, Undecoded,
           Advance, Goto, Batching, endCloseVars
  <1>8. ASSUME NEW i \in Inst, PostAccepted(i)
        PROVE  BatchWasAccepted'
    BY <1>8 DEF PostAccepted, BatchWasAccepted, EndCloseTakes, Goto, Batching
  <1>9. ASSUME NEW i \in Inst, PostTransient(i)
        PROVE  BatchWasAccepted'
    BY <1>1, <1>2, <1>9 DEF PostTransient, EndCloseTakes, Goto, At, Batching,
           endCloseVars
  <1>10. ASSUME NEW i \in Inst, PostUnreadable(i)
        PROVE  BatchWasAccepted'
    BY <1>2, <1>10 DEF PostUnreadable, EndCloseTakes, Goto, Batching
  <1>11. ASSUME NEW i \in Inst, NEW label \in {"reject", "fail"}, PostRefused(i, label)
        PROVE  BatchWasAccepted'
    BY <1>2, <1>11 DEF PostRefused, Goto, Batching, endCloseVars
  <1>12. ASSUME NEW i \in Inst, PollAgain(i)
        PROVE  BatchWasAccepted'
    BY <1>1, <1>12 DEF PollAgain, Batching, endCloseVars
  <1>13. ASSUME NEW i \in Inst,
               PollGivesUp(i) \/ \E failing, byIndex : PollResults(i, failing, byIndex)
        PROVE  BatchWasAccepted'
    BY <1>13 DEF PollGivesUp, PollResults, BatchWasAccepted, Settle, Goto, At,
           Batching
  <1>14. ASSUME NEW i \in Inst, SettlePark(i)
        PROVE  BatchWasAccepted'
    BY <1>14 DEF SettlePark, BatchWasAccepted, StoreCall, Goto, At, Batching,
           endCloseVars
  <1>15. ASSUME NEW i \in Inst, SettleOk(i) \/ ParkBatch(i) \/ RetryBatch(i)
        PROVE  BatchWasAccepted'
    BY <1>2, <1>15 DEF SettleOk, ParkBatch, RetryBatch, StoreCall, Goto, Batching,
           endCloseVars
  <1>16. ASSUME NEW i \in Inst, ReleaseLeftover(i) \/ ReleaseThrows(i)
        PROVE  BatchWasAccepted'
    BY <1>2, <1>16 DEF ReleaseLeftover, ReleaseThrows, AfterRelease, DropBatch,
           EndCycle, Goto, endCloseVars
  <1>17. ASSUME NEW i \in Inst, SweepThrows(i) \/ SettleThrows(i) \/ BatchThrows(i)
        PROVE  BatchWasAccepted'
    BY <1>2, <1>17 DEF SweepThrows, SettleThrows, BatchThrows, Throw, Goto,
           batchVars, endCloseVars
  <1>18. ASSUME NEW i \in Inst, CycleThrows(i)
        PROVE  BatchWasAccepted'
    BY <1>2, <1>18 DEF CycleThrows, EndCycle, batchVars, endCloseVars
  <1>19. CASE UNCHANGED vars
    BY <1>1, <1>19 DEF vars, cycleVars, batchVars, endCloseVars
  <1>20. QED
    BY <1>3, <1>4, <1>5, <1>6, <1>7, <1>8, <1>9, <1>10, <1>11, <1>12, <1>13, <1>14,
           <1>15, <1>16, <1>17, <1>18, <1>19 DEF Next, CycleStep, Send, SettleBatch,
           StoreThrows

\* The invariant behind the delivery theorems: besides the two properties
\* themselves, ids grow with the table, a claim names the event it was made
\* for, and a batch being settled has been taken by End Close.
DeliveryInv ==
    /\ TypeOK /\ BatchShape
    /\ RowsNumbered /\ ClaimsMatchRows /\ BatchWasAccepted
    /\ DeliveredWasAccepted /\ NothingLost

\* A step adds no claim except those of claimDue.
LEMMA ClaimedBefore ==
    ASSUME TypeOK, [Next]_vars
    PROVE  \/ \A i \in Inst : claimed'[i] \subseteq claimed[i]
           \/ \E i \in Inst : ClaimBatch(i)
  BY ClaimSteps DEF Recover, Sweeping, ReleaseLeftover, ReleaseThrows, AfterRelease,
         DropBatch, Crash, Start, batchVars, TypeOK, BatchTyped

\* A step that updates rows in place keeps the delivery invariant.
LEMMA InPlaceDelivery ==
    ASSUME DeliveryInv, [Next]_vars, InPlace, \A i \in Inst : claimed'[i] \subseteq claimed[i]
    PROVE  RowsNumbered' /\ ClaimsMatchRows' /\ DeliveredWasAccepted' /\ NothingLost'
  <1> USE DEF DeliveryInv
  <1>1. /\ lastId' = lastId /\ acked' = acked /\ accepted \subseteq accepted'
        /\ Keeps(rows, rows') /\ Undelivered(rows, rows')
    BY DEF InPlace
  <1>2. Present(rows') = Present(rows)
    BY <1>1 DEF Present, Keeps
  <1>3. RowsNumbered'
    BY <1>1, <1>2 DEF RowsNumbered
  <1>4. ClaimsMatchRows'
    BY <1>1, <1>2 DEF ClaimsMatchRows, Keeps, Present
  <1>5. DeliveredWasAccepted'
    BY <1>1 DEF DeliveredWasAccepted, Keeps, Undelivered, WithStatus, TERMINAL
  <1>6. ASSUME NEW k \in acked', k \notin accepted'
        PROVE  \E id \in WithStatus(rows', DUE \union {"delivering", "parked"}) :
                  rows'[id].key = k /\ rows'[id].payload
    <2>1. PICK id \in WithStatus(rows, DUE \union {"delivering", "parked"}) :
              rows[id].key = k /\ rows[id].payload
      BY <1>1, <1>6 DEF NothingLost
    <2>2. id \in Id /\ rows'[id].key = k /\ rows'[id].payload
      BY <1>1, <2>1 DEF Keeps, WithStatus
    <2>3. rows'[id].status \in Status /\ rows'[id].status \notin TERMINAL
      BY <1>1, <2>1, RowCases DEF Keeps, Undelivered, WithStatus, DUE, TERMINAL
    <2>4. QED
      BY <2>2, <2>3 DEF WithStatus, Status
  <1>7. QED
    BY <1>3, <1>4, <1>5, <1>6 DEF NothingLost

\* So does the insert of a new event,
LEMMA InsertDelivery ==
    ASSUME DeliveryInv, ReusesIds = FALSE, NEW k \in Key, NEW r \in Route,
           NEW status \in {"pending", "dropped_by_filter"}, IngestInsert(k, r, status)
    PROVE  RowsNumbered' /\ ClaimsMatchRows' /\ DeliveredWasAccepted' /\ NothingLost'
  <1> USE DEF DeliveryInv
  <1>1. /\ lastId' = lastId + 1 /\ lastId' \in Id /\ lastId \in Nat
        /\ rows[lastId'].status = "absent"
        /\ rows'[lastId'] = NewRow(k, r, status, now)
        /\ \A id \in Id \ {lastId'} : rows'[id] = rows[id]
        /\ UNCHANGED <<claimed, accepted>>
        /\ acked' = IF status = "pending" THEN acked \union {k} ELSE acked
    BY InsertFacts
  <1>2. RowsNumbered'
    BY <1>1 DEF RowsNumbered, Present, Id
  <1>3. ASSUME NEW i \in Inst, NEW c \in claimed'[i]
        PROVE  c.id <= lastId' /\ (c.id \in Present(rows') => rows'[c.id].key = c.key)
    <2>1. c \in claimed[i] /\ c.id \in Id /\ c.id <= lastId /\ c.id # lastId'
      BY <1>1, <1>3 DEF ClaimsMatchRows, TypeOK, BatchTyped, Claim, Id
    <2>2. QED
      BY <1>1, <2>1 DEF ClaimsMatchRows, Present, Id
  <1>4. DeliveredWasAccepted'
    BY <1>1 DEF DeliveredWasAccepted, WithStatus, NewRow
  <1>5. ASSUME NEW x \in acked', x \notin accepted'
        PROVE  \E id \in WithStatus(rows', DUE \union {"delivering", "parked"}) :
                  rows'[id].key = x /\ rows'[id].payload
    <2>1. CASE x \in acked
      BY <1>1, <1>5, <2>1 DEF NothingLost, WithStatus, DUE
    <2>2. CASE x \notin acked
      BY <1>1, <1>5, <2>2 DEF WithStatus, NewRow, DUE
    <2>3. QED
      BY <2>1, <2>2
  <1>6. QED
    BY <1>2, <1>3, <1>4, <1>5 DEF ClaimsMatchRows, NothingLost

\* one batch of retention,
LEMMA PruneDelivery ==
    ASSUME DeliveryInv, NEW t, PruneBatch(t)
    PROVE  RowsNumbered' /\ ClaimsMatchRows' /\ DeliveredWasAccepted' /\ NothingLost'
  <1> USE DEF DeliveryInv
  <1>1. /\ UNCHANGED <<lastId, acked, accepted, claimed>>
        /\ \A id \in Id :
              /\ rows[id].status \notin TERMINAL => rows'[id] = rows[id]
              /\ \/ rows'[id] = NoRow
                 \/ /\ rows'[id].key = rows[id].key
                    /\ rows'[id].status = rows[id].status
    BY PruneFacts
  <1>2. RowsNumbered'
    BY <1>1 DEF RowsNumbered, Present, NoRow
  <1>3. ClaimsMatchRows'
    BY <1>1 DEF ClaimsMatchRows, Present, NoRow
  <1>4. DeliveredWasAccepted'
    BY <1>1 DEF DeliveredWasAccepted, WithStatus, NoRow
  <1>5. NothingLost'
    BY <1>1 DEF NothingLost, WithStatus, DUE, TERMINAL
  <1>6. QED
    BY <1>2, <1>3, <1>4, <1>5

\* a claim,
LEMMA ClaimDelivery ==
    ASSUME DeliveryInv, NEW i \in Inst, ClaimBatch(i)
    PROVE  RowsNumbered' /\ ClaimsMatchRows' /\ DeliveredWasAccepted' /\ NothingLost'
  <1>0. TypeOK
    BY DEF DeliveryInv
  <1>p. PICK ids \in SUBSET Id : Claims(i, ids)
    BY <1>0, ClaimBatchFacts
  <1>1. /\ \A id \in ids : rows[id].status \in DUE
        /\ \A id \in ids : /\ rows'[id].key = rows[id].key
                           /\ rows'[id].payload = rows[id].payload
                           /\ rows'[id].status = "delivering"
        /\ \A id \in Id \ ids : rows'[id] = rows[id]
        /\ \A c \in claimed'[i] : c.id \in ids /\ c.key = rows[c.id].key
        /\ \A j \in Inst \ {i} : claimed'[j] = claimed[j]
    BY <1>p DEF Claims
  <1> USE DEF DeliveryInv
  <1>2. UNCHANGED <<lastId, acked, accepted>>
    BY DEF ClaimBatch, Cycling, endCloseVars
  <1>3. RowsNumbered'
    BY <1>1, <1>2 DEF RowsNumbered, Present, DUE
  <1>4. ASSUME NEW j \in Inst, NEW c \in claimed'[j]
        PROVE  c.id <= lastId' /\ (c.id \in Present(rows') => rows'[c.id].key = c.key)
    <2>1. CASE j = i
      BY <1>1, <1>2, <1>4, <2>1 DEF RowsNumbered, Present, DUE
    <2>2. CASE j # i
      BY <1>1, <1>2, <1>4, <2>2 DEF ClaimsMatchRows, Present, DUE
    <2>3. QED
      BY <2>1, <2>2
  <1>5. DeliveredWasAccepted'
    BY <1>1, <1>2 DEF DeliveredWasAccepted, WithStatus
  <1>6. NothingLost'
    BY <1>1, <1>2 DEF NothingLost, WithStatus, DUE
  <1>7. QED
    BY <1>3, <1>4, <1>5, <1>6 DEF ClaimsMatchRows

\* and the recording of a delivery.
LEMMA SettleDelivery ==
    ASSUME DeliveryInv, NEW i \in Inst, SettleOk(i)
    PROVE  RowsNumbered' /\ ClaimsMatchRows' /\ DeliveredWasAccepted' /\ NothingLost'
  <1> USE DEF DeliveryInv
  <1>1. /\ UNCHANGED <<lastId, acked, accepted, claimed>>
        /\ Keeps(rows, rows')
        /\ \A id \in Id : rows'[id] = rows[id] \/ rows[id].key \in accepted
    BY SettleFacts
  <1>2. RowsNumbered'
    BY <1>1 DEF RowsNumbered, Present, Keeps
  <1>3. ClaimsMatchRows'
    BY <1>1 DEF ClaimsMatchRows, Present, Keeps
  <1>4. DeliveredWasAccepted'
    BY <1>1 DEF DeliveredWasAccepted, WithStatus, Keeps
  <1>5. NothingLost'
    BY <1>1 DEF NothingLost, WithStatus, Keeps
  <1>6. QED
    BY <1>2, <1>3, <1>4, <1>5

\* The delivery invariant holds throughout.
LEMMA DeliveryInvariant == ReusesIds = FALSE => (Spec => []DeliveryInv)
  <1> SUFFICES ASSUME ReusesIds = FALSE PROVE Spec => []DeliveryInv
    OBVIOUS
  <1>1. Init => DeliveryInv
    BY TypeInit DEF DeliveryInv, Init, BatchShape, RowsNumbered, ClaimsMatchRows,
           BatchWasAccepted, DeliveredWasAccepted, NothingLost, WithStatus, Present,
           EmptyTable, NoRow
  <1>2. ASSUME DeliveryInv, [Next]_vars PROVE DeliveryInv'
    <2>1. TypeOK' /\ BatchShape' /\ BatchWasAccepted'
      BY <1>2, TypeStep, ShapeStep, AcceptedStep DEF DeliveryInv
    <2>2. RowsNumbered' /\ ClaimsMatchRows' /\ DeliveredWasAccepted' /\ NothingLost'
      <3>1. CASE \E j \in Inst : ClaimBatch(j)
        BY <1>2, <3>1, ClaimDelivery
      <3>2. CASE \A j \in Inst : claimed'[j] \subseteq claimed[j]
        <4>1. CASE InPlace
          BY <1>2, <3>2, <4>1, InPlaceDelivery
        <4>2. CASE \E j \in Inst : ClaimBatch(j) \/ SettleOk(j)
          BY <1>2, <4>2, ClaimDelivery, SettleDelivery
        <4>3. CASE \E t \in StartTime..now : PruneBatch(t)
          BY <1>2, <4>3, PruneDelivery
        <4>4. CASE \E k \in Key, r \in Route, status \in {"pending", "dropped_by_filter"} :
                      IngestInsert(k, r, status)
          BY <1>2, <4>4, InsertDelivery
        <4>5. QED
          BY <1>2, <4>1, <4>2, <4>3, <4>4, StepKinds DEF DeliveryInv
      <3>3. QED
        BY <1>2, <3>1, <3>2, ClaimedBefore DEF DeliveryInv
    <2>3. QED
      BY <2>1, <2>2 DEF DeliveryInv
  <1>3. QED
    BY <1>1, <1>2, PTL DEF Spec

\* The relay records as delivered only what End Close has taken, for any
\* number of instances that overrun their leases, fail and crash.
THEOREM DeliveryRecordsAreTrue ==
    ReusesIds = FALSE => (Spec => []DeliveredWasAccepted)
  <1>1. DeliveryInv => DeliveredWasAccepted
    BY DEF DeliveryInv
  <1>2. QED
    BY <1>1, DeliveryInvariant, PTL

\* At least once: an acknowledged event is with End Close or still in the
\* store, undelivered and with its payload, whatever fails in between.
THEOREM AcknowledgedIsKept ==
    ReusesIds = FALSE => (Spec => []NothingLost)
  <1>1. DeliveryInv => NothingLost
    BY DEF DeliveryInv
  <1>2. QED
    BY <1>1, DeliveryInvariant, PTL

-----------------------------------------------------------------------------
(* What a delivery is worth: one relay, and replicas whose leases hold.     *)

OneRelay == \A i, j \in Inst : i = j

-----------------------------------------------------------------------------
(* The inductive invariant.                                                 *)

\* An event has one row.
UniqueKeys ==
    \A x, y \in Present(rows) : rows[x].key = rows[y].key => x = y

\* A new row takes the place of none.
FreshIds == ~ReusesIds => RowsNumbered

\* The claims of a batch are of different rows, and what is mapped is no
\* longer to be mapped.
DistinctClaims ==
    \A i \in Inst :
        /\ todo[i] \intersect mapped[i] = {}
        /\ \A c, d \in claimed[i] : c.id = d.id => c = d

\* The row a claim was made of is still claimed; or it is at least still that
\* event's and not terminal.
HeldRow(c) == rows[c.id].key = c.key /\ rows[c.id].status = "delivering"
LiveRow(c) == rows[c.id].key = c.key /\ rows[c.id].status \in DUE \union {"delivering", "parked"}

\* What is being mapped, sent or settled is held until its result is written.
HeldBy(i) ==
    /\ pc[i] \in {"map", "post", "poll", "settlePark", "reject"} =>
          \A c \in todo[i] \union mapped[i] : HeldRow(c)
    /\ pc[i] = "settleOk" => \A c \in mapped[i] \ bad[i] : HeldRow(c)
    /\ pc[i] \in {"settleOk", "fail"} => \A c \in mapped[i] : LiveRow(c)
HeldBatch == \A i \in Inst : HeldBy(i)

HeldInv ==
    /\ TypeOK /\ BatchShape /\ BatchWasAccepted
    /\ FreshIds /\ UniqueKeys /\ DistinctClaims /\ HeldBatch

\* What is left to be recorded as delivered was not reported as failed.
ToldFor(i) ==
    pc[i] \in {"settlePark", "settleOk"} =>
          Keys(mapped[i] \ bad[i]) \intersect told = {}
ToldIsBad == \A i \in Inst : ToldFor(i)

-----------------------------------------------------------------------------
(* What the store calls do to the statuses.                                 *)

\* The rows ids go from one of the statuses from to the status to; the other
\* rows keep theirs, and all keep their event, and its payload until it is
\* delivered.
Touches(rs, qs, ids, from, to) ==
    /\ qs \in Table /\ ids \subseteq Present(rs)
    /\ \A id \in Id :
          /\ qs[id].key = rs[id].key
          /\ rs[id].status \notin TERMINAL => qs[id].payload = rs[id].payload
    /\ \A id \in ids : rs[id].status \in from /\ qs[id].status = to
    /\ \A id \in Id \ ids : qs[id].status = rs[id].status

\* An in-place update that changes the status of ids alone touches ids.
LEMMA KeepsTouches ==
    ASSUME NEW rs, NEW qs, NEW ids, NEW from, NEW to,
           Keeps(rs, qs), ids \subseteq Present(rs),
           \A id \in ids : rs[id].status \in from /\ qs[id].status = to,
           \A id \in Id \ ids : qs[id] = rs[id]
    PROVE  Touches(rs, qs, ids, from, to)
  BY DEF Keeps, Touches

\* markDelivered, markFailed and markParked touch the rows they are given.
LEMMA MarkTouches ==
    ASSUME NEW rs \in Table, NEW ids, NEW from,
           \A id \in ids \intersect Present(rs) : rs[id].status \in from
    PROVE  /\ Touches(rs, MarkDelivered(rs, ids), ids \intersect Present(rs), from, "delivered")
           /\ Touches(rs, MarkParked(rs, ids), ids \intersect Present(rs), from, "parked")
           /\ \A next \in Nat :
                 Touches(rs, MarkFailed(rs, ids, next), ids \intersect Present(rs), from, "retry")
  <1> DEFINE there == ids \intersect Present(rs)
  <1>1. there \subseteq Id /\ there \subseteq Present(rs) /\ \A id \in there : rs[id] \in Row
    BY RowCases DEF Present
  <1>2. /\ \A id \in there : MarkDelivered(rs, ids)[id].status = "delivered"
        /\ \A id \in Id \ there : MarkDelivered(rs, ids)[id] = rs[id]
    BY <1>1 DEF MarkDelivered, Row
  <1>3. /\ \A id \in there : MarkParked(rs, ids)[id].status = "parked"
        /\ \A id \in Id \ there : MarkParked(rs, ids)[id] = rs[id]
    BY <1>1 DEF MarkParked, Row
  <1>4. ASSUME NEW next \in Nat
        PROVE  /\ \A id \in there : MarkFailed(rs, ids, next)[id].status = "retry"
               /\ \A id \in Id \ there : MarkFailed(rs, ids, next)[id] = rs[id]
    BY <1>1 DEF MarkFailed, Row
  <1>5. /\ Keeps(rs, MarkDelivered(rs, ids)) /\ Keeps(rs, MarkParked(rs, ids))
        /\ \A next \in Nat : Keeps(rs, MarkFailed(rs, ids, next))
    BY MarkDeliveredKeeps, MarkParkedKeeps, MarkFailedKeeps
  <1> HIDE DEF there
  <1>6. \A id \in there : rs[id].status \in from
    BY DEF there
  <1>7. Touches(rs, MarkDelivered(rs, ids), there, from, "delivered")
    BY <1>1, <1>2, <1>5, <1>6, KeepsTouches
  <1>8. Touches(rs, MarkParked(rs, ids), there, from, "parked")
    BY <1>1, <1>3, <1>5, <1>6, KeepsTouches
  <1>9. ASSUME NEW next \in Nat
        PROVE  Touches(rs, MarkFailed(rs, ids, next), there, from, "retry")
    BY <1>1, <1>4, <1>5, <1>6, KeepsTouches
  <1>10. QED
    BY <1>7, <1>8, <1>9 DEF there

\* The calls that select rows by status touch only rows of that status.
LEMMA RecoverTouches ==
    ASSUME NEW rs \in Table, NEW t \in Nat, NEW owner
    PROVE  Touches(rs, RecoverDelivering(rs, t, owner),
                   Recoverable(rs, t, owner), {"delivering"}, "retry")
  <1> DEFINE ids == Recoverable(rs, t, owner)
  <1>1. /\ ids \subseteq Id /\ ids \subseteq Present(rs)
        /\ \A id \in ids : rs[id] \in Row /\ rs[id].status = "delivering"
    BY RowCases DEF Recoverable, WithStatus, Present
  <1>2. /\ \A id \in ids : RecoverDelivering(rs, t, owner)[id].status = "retry"
        /\ \A id \in Id \ ids : RecoverDelivering(rs, t, owner)[id] = rs[id]
    <2> HIDE DEF ids
    <2>1. RecoverDelivering(rs, t, owner) =
              [id \in Id |-> IF id \in ids
                             THEN [rs[id] EXCEPT !.status = "retry", !.nextAttemptAt = t,
                                                 !.claimedBy = None, !.leaseUntil = 0]
                             ELSE rs[id]]
      BY DEF RecoverDelivering, ids
    <2>2. QED
      BY <1>1, <2>1 DEF Row
  <1> HIDE DEF ids
  <1>3. Keeps(rs, RecoverDelivering(rs, t, owner))
    BY RecoverDeliveringKeeps
  <1>4. Touches(rs, RecoverDelivering(rs, t, owner), ids, {"delivering"}, "retry")
    BY <1>1, <1>2, <1>3, KeepsTouches
  <1>5. QED
    BY <1>4 DEF ids

\* parkExpired parks rows that wait for a retry.
LEMMA ParkExpiredTouches ==
    ASSUME NEW rs \in Table, NEW t, NEW age
    PROVE  Touches(rs, ParkExpired(rs, t, age), Expired(rs, t, age), {"retry"}, "parked")
  <1> DEFINE ids == Expired(rs, t, age)
  <1>1. /\ ids \subseteq Id /\ ids \subseteq Present(rs)
        /\ \A id \in ids : rs[id] \in Row /\ rs[id].status = "retry"
    BY RowCases DEF Expired, WithStatus, Present
  <1>2. /\ \A id \in ids : ParkExpired(rs, t, age)[id].status = "parked"
        /\ \A id \in Id \ ids : ParkExpired(rs, t, age)[id] = rs[id]
    <2> HIDE DEF ids
    <2>1. ParkExpired(rs, t, age) =
              [id \in Id |-> IF id \in ids THEN [rs[id] EXCEPT !.status = "parked"]
                             ELSE rs[id]]
      BY DEF ParkExpired, ids
    <2>2. QED
      BY <1>1, <2>1 DEF Row
  <1> HIDE DEF ids
  <1>3. Keeps(rs, ParkExpired(rs, t, age))
    BY ParkExpiredKeeps
  <1>4. Touches(rs, ParkExpired(rs, t, age), ids, {"retry"}, "parked")
    BY <1>1, <1>2, <1>3, KeepsTouches
  <1>5. QED
    BY <1>4 DEF ids

\* replay requeues parked rows.
LEMMA ReplayTouches ==
    ASSUME NEW rs \in Table, NEW t \in Nat, NEW given
    PROVE  Touches(rs, Replay(rs, given, t), given \intersect WithStatus(rs, {"parked"}),
                   {"parked"}, "retry")
  <1> DEFINE ids == given \intersect WithStatus(rs, {"parked"})
  <1>1. /\ ids \subseteq Id /\ ids \subseteq Present(rs)
        /\ \A id \in ids : rs[id] \in Row /\ rs[id].status = "parked"
    BY RowCases DEF WithStatus, Present
  <1>2. /\ \A id \in ids : Replay(rs, given, t)[id].status = "retry"
        /\ \A id \in Id \ ids : Replay(rs, given, t)[id] = rs[id]
    <2> HIDE DEF ids
    <2>1. Replay(rs, given, t) =
              [id \in Id |-> IF id \in ids
                             THEN [rs[id] EXCEPT !.status = "retry", !.attempts = 0,
                                                 !.nextAttemptAt = t]
                             ELSE rs[id]]
      BY DEF Replay, ids
    <2>2. QED
      BY <1>1, <2>1 DEF Row
  <1> HIDE DEF ids
  <1>3. Keeps(rs, Replay(rs, given, t))
    BY ReplayKeeps
  <1>4. Touches(rs, Replay(rs, given, t), ids, {"parked"}, "retry")
    BY <1>1, <1>2, <1>3, KeepsTouches
  <1>5. QED
    BY <1>4 DEF ids

\* releaseDelivering requeues rows that are still delivering.
LEMMA ReleaseTouches ==
    ASSUME NEW rs \in Table, NEW t \in Nat, NEW given
    PROVE  Touches(rs, ReleaseDelivering(rs, given, t),
                   given \intersect WithStatus(rs, {"delivering"}), {"delivering"}, "retry")
  <1> DEFINE ids == given \intersect WithStatus(rs, {"delivering"})
  <1>1. ids \intersect Present(rs) = ids /\ \A id \in ids : rs[id].status \in {"delivering"}
    BY DEF WithStatus, Present
  <1>2. ReleaseDelivering(rs, given, t) = MarkFailed(rs, ids, t)
    BY DEF ReleaseDelivering
  <1> HIDE DEF ids
  <1>3. Touches(rs, MarkFailed(rs, ids, t), ids \intersect Present(rs), {"delivering"}, "retry")
    BY <1>1, MarkTouches
  <1>4. QED
    BY <1>1, <1>2, <1>3 DEF ids

-----------------------------------------------------------------------------
(* The id of a new row.                                                     *)

\* A set of row ids that is not empty has a largest element.
LEMMA Largest ==
    ASSUME NEW T, T \subseteq Id, T # {}
    PROVE  \E m \in T : \A n \in T : n <= m
  <1> DEFINE Gap == {MaxId - n : n \in T}
  <1>1. Gap \subseteq Nat /\ Gap # {}
    BY BoundAssumption DEF Id
  <1>2. \E x \in Gap : \A y \in Gap : ~(<<y, x>> \in OpToRel(<, Nat))
    BY <1>1, WFMin, NatLessThanWellFounded
  <1>3. PICK x \in Gap : \A y \in Gap : ~(y < x)
    BY <1>1, <1>2 DEF OpToRel
  <1>4. PICK m \in T : x = MaxId - m
    OBVIOUS
  <1>5. ASSUME NEW n \in T PROVE n <= m
    <2>1. ~(MaxId - n < MaxId - m)
      BY <1>3, <1>4
    <2>2. QED
      BY <2>1, BoundAssumption DEF Id
  <1>6. QED
    BY <1>4, <1>5

\* SQLite reuses ids, but never that of a row that is there.
LEMMA NextRowidIsFree ==
    ASSUME NEW rs, NextRowid(rs) \in Id
    PROVE  NextRowid(rs) \notin Present(rs)
  <1>1. CASE Present(rs) = {}
    BY <1>1
  <1>2. CASE Present(rs) # {}
    <2> DEFINE top == CHOOSE m \in Present(rs) : \A n \in Present(rs) : n <= m
    <2>1. Present(rs) \subseteq Id
      BY DEF Present
    <2>2. top \in Present(rs) /\ \A n \in Present(rs) : n <= top
      BY <1>2, <2>1, Largest
    <2>3. NextRowid(rs) = 1 + top
      BY <1>2 DEF NextRowid
    <2>4. QED
      BY <2>1, <2>2, <2>3, BoundAssumption DEF Id
  <1>3. QED
    BY <1>1, <1>2

-----------------------------------------------------------------------------
(* What the steps do to the table, to what was acknowledged and to what End *)
(* Close has.                                                               *)

Aside == UNCHANGED <<lastId, acked, accepted>>

Quiet == Aside /\ Touches(rows, rows', {}, {}, "retry")
Moved(from, to) == Aside /\ \E ids : Touches(rows, rows', ids, from, to)
Recorded ==
    Aside /\ \E ids : /\ Touches(rows, rows', ids, {"delivering"}, "delivered")
                      /\ \A id \in ids : rows[id].key \in accepted
Took ==
    /\ UNCHANGED <<rows, lastId, acked>>
    /\ \E ks \in SUBSET Key :
          /\ accepted' = accepted \union ks
          /\ \A k \in ks : \E id \in WithStatus(rows, {"delivering"}) : rows[id].key = k
Inserted(k, status) ==
    /\ ~KeyTaken(rows, k)
    /\ \E id \in Id \ Present(rows), r \in Route :
          /\ rows' = Insert(rows, id, NewRow(k, r, status, now))
          /\ ~ReusesIds => lastId' = id
    /\ lastId <= lastId' /\ UNCHANGED accepted
    /\ acked' = IF status = "pending" THEN acked \union {k} ELSE acked
Forgotten ==
    Aside /\ \E ids \in SUBSET WithStatus(rows, TERMINAL) : rows' = Delete(rows, ids)

\* A table that stays as it is is touched nowhere.
LEMMA SameIsQuiet ==
    ASSUME TypeOK, UNCHANGED <<rows, lastId, acked, accepted>>
    PROVE  Quiet
  BY DEF Quiet, Aside, Touches, TypeOK, StoreTyped

\* The rows of claims that are held are there, and delivering.
LEMMA HeldTouch ==
    ASSUME NEW claims \in SUBSET Claim, \A c \in claims : HeldRow(c)
    PROVE  /\ Ids(claims) \intersect Present(rows) = Ids(claims)
           /\ \A id \in Ids(claims) : rows[id].status = "delivering"
           /\ \A k \in Keys(claims) :
                 \E id \in WithStatus(rows, {"delivering"}) : rows[id].key = k
  <1>1. \A c \in claims : c.id \in Id
    BY DEF Claim
  <1>2. QED
    BY <1>1 DEF HeldRow, Ids, Keys, Present, WithStatus

\* A new event gets a row nothing else has.
LEMMA InsertShape ==
    ASSUME TypeOK, FreshIds, NEW k \in Key, NEW r \in Route,
           NEW status \in {"pending", "dropped_by_filter"}, IngestInsert(k, r, status)
    PROVE  Inserted(k, status)
  <1>1. /\ NewId \in Id /\ ~KeyTaken(rows, k) /\ UNCHANGED accepted
        /\ rows' = Insert(rows, NewId, NewRow(k, r, status, now))
        /\ acked' = IF status = "pending" THEN acked \union {k} ELSE acked
        /\ lastId' = IF ReusesIds THEN lastId ELSE lastId + 1
        /\ lastId \in Nat
    BY DEF IngestInsert, endCloseVars, TypeOK, StoreTyped
  <1>2. NewId \notin Present(rows)
    <2>1. CASE ReusesIds
      BY <1>1, <2>1, NextRowidIsFree DEF NewId
    <2>2. CASE ~ReusesIds
      BY <1>1, <2>2 DEF NewId, FreshIds, RowsNumbered, Id
    <2>3. QED
      BY <2>1, <2>2
  <1>3. (~ReusesIds => lastId' = NewId) /\ lastId <= lastId'
    BY <1>1 DEF NewId
  <1>4. QED
    BY <1>1, <1>2, <1>3 DEF Inserted

\* One batch of retention wipes, which nobody notices, or deletes.
LEMMA PruneShape ==
    ASSUME TypeOK, NEW t, PruneBatch(t)
    PROVE  Quiet \/ Forgotten
  <1> DEFINE wipe == Wipeable(rows, t, WipeAfterMs)
             delete == Deletable(rows, t, DeleteAfterMs)
  <1>1. /\ wipe \in SUBSET WithStatus(rows, TERMINAL)
        /\ delete \in SUBSET WithStatus(rows, TERMINAL)
        /\ rows \in Table
    BY DEF Wipeable, Deletable, TypeOK, StoreTyped
  <1>2. Aside /\ (rows' = Wipe(rows, wipe) \/ rows' = Delete(rows, delete))
    BY DEF PruneBatch, Aside, endCloseVars
  <1> HIDE DEF wipe, delete
  <1>3. CASE rows' = Wipe(rows, wipe)
    BY <1>1, <1>2, <1>3, RetentionFacts DEF Quiet, Touches
  <1>4. CASE rows' = Delete(rows, delete)
    BY <1>1, <1>2, <1>4 DEF Forgotten
  <1>5. QED
    BY <1>2, <1>3, <1>4

\* claimDue moves due rows.
LEMMA ClaimShape ==
    ASSUME TypeOK, NEW i \in Inst, ClaimBatch(i)
    PROVE  Moved(DUE, "delivering")
  <1>p. PICK ids \in SUBSET Id : Claims(i, ids)
    BY ClaimBatchFacts
  <1>1. /\ \A id \in ids : rows[id].status \in DUE
        /\ \A id \in ids : /\ rows'[id].key = rows[id].key
                           /\ rows'[id].payload = rows[id].payload
                           /\ rows'[id].status = "delivering"
        /\ \A id \in Id \ ids : rows'[id] = rows[id]
    BY <1>p DEF Claims
  <1>2. rows' \in Table /\ Aside
    BY ClaimTyped DEF ClaimBatch, Cycling, endCloseVars, Aside
  <1>3. Touches(rows, rows', ids, DUE, "delivering")
    BY <1>1, <1>2 DEF Touches, Present, DUE
  <1>4. QED
    BY <1>2, <1>3 DEF Moved

\* Live: not terminal.
LIVE == DUE \union {"delivering", "parked"}

\* Touching rows of fewer statuses is touching rows of more.
LEMMA TouchMore ==
    ASSUME NEW rs, NEW qs, NEW ids, NEW from, NEW more, NEW to,
           Touches(rs, qs, ids, from, to), from \subseteq more
    PROVE  Touches(rs, qs, ids, more, to)
  BY DEF Touches

\* A call on rows of the batch: markParked and markDelivered on held ones,
\* markFailed on live ones.
LEMMA BatchTouches ==
    ASSUME TypeOK, NEW claims \in SUBSET Claim
    PROVE  /\ (\A c \in claims : HeldRow(c)) =>
                 /\ Touches(rows, MarkParked(rows, Ids(claims)), Ids(claims),
                            {"delivering"}, "parked")
                 /\ Touches(rows, MarkDelivered(rows, Ids(claims)), Ids(claims),
                            {"delivering"}, "delivered")
           /\ \A next \in Nat : (\A c \in claims : LiveRow(c)) =>
                 Touches(rows, MarkFailed(rows, Ids(claims), next), Ids(claims),
                         LIVE, "retry")
  <1>1. rows \in Table /\ \A c \in claims : c.id \in Id
    BY DEF TypeOK, StoreTyped, Claim
  <1>2. ASSUME \A c \in claims : HeldRow(c)
        PROVE  /\ Touches(rows, MarkParked(rows, Ids(claims)), Ids(claims),
                          {"delivering"}, "parked")
               /\ Touches(rows, MarkDelivered(rows, Ids(claims)), Ids(claims),
                          {"delivering"}, "delivered")
    <2>1. /\ Ids(claims) \intersect Present(rows) = Ids(claims)
          /\ \A id \in Ids(claims) \intersect Present(rows) : rows[id].status \in {"delivering"}
      BY <1>2, HeldTouch
    <2>2. QED
      BY <1>1, <2>1, MarkTouches
  <1>3. ASSUME NEW next \in Nat, \A c \in claims : LiveRow(c)
        PROVE  Touches(rows, MarkFailed(rows, Ids(claims), next), Ids(claims), LIVE, "retry")
    <2>1. \A id \in Ids(claims) : id \in Present(rows) /\ rows[id].status \in LIVE
      BY <1>1, <1>3 DEF LiveRow, LIVE, Ids, Present, DUE
    <2>2. Ids(claims) \intersect Present(rows) = Ids(claims)
      BY <2>1
    <2>3. QED
      BY <1>1, <2>1, <2>2, MarkTouches
  <1>4. QED
    BY <1>2, <1>3

\* The same of one claim in the map loop.
LEMMA OneTouches ==
    ASSUME TypeOK, NEW c \in Claim, HeldRow(c)
    PROVE  /\ Touches(rows, MarkParked(rows, {c.id}), {c.id}, {"delivering"}, "parked")
           /\ \A next \in Nat :
                 Touches(rows, MarkFailed(rows, {c.id}, next), {c.id}, {"delivering"}, "retry")
  <1>1. /\ rows \in Table /\ {c.id} \intersect Present(rows) = {c.id}
        /\ rows[c.id].status \in {"delivering"}
    BY DEF TypeOK, StoreTyped, Claim, HeldRow, Present
  <1>2. QED
    BY <1>1, MarkTouches

StoreStep ==
    \/ Quiet \/ Took \/ Recorded \/ Forgotten
    \/ Moved(DUE, "delivering")
    \/ Moved(LIVE, "retry")
    \/ Moved({"delivering", "retry"}, "parked")
    \/ \E k \in Key, status \in {"pending", "dropped_by_filter"} : Inserted(k, status)

\* The settling calls of deliverBatch move live rows.
LEMMA SettleShapes ==
    ASSUME HeldInv, NEW i \in Inst,
           SettlePark(i) \/ SettleOk(i) \/ ParkBatch(i) \/ RetryBatch(i)
    PROVE  StoreStep
  <1> USE DEF HeldInv
  <1>1. mapped[i] \in SUBSET Claim /\ bad[i] \in SUBSET mapped[i]
    BY DEF TypeOK, BatchTyped, BatchShape
  <1>2. Aside
    BY DEF SettlePark, SettleOk, ParkBatch, RetryBatch, StoreCall, Batching,
           Cycling, endCloseVars, Aside
  <1>3. CASE SettlePark(i)
    <2>1. rows' = MarkParked(rows, Ids(bad[i])) /\ \A c \in bad[i] : HeldRow(c)
      BY <1>1, <1>3 DEF SettlePark, At, HeldBatch, HeldBy
    <2>2. Touches(rows, rows', Ids(bad[i]), {"delivering", "retry"}, "parked")
      BY <1>1, <2>1, BatchTouches, TouchMore
    <2>3. QED
      BY <1>2, <2>2 DEF StoreStep, Moved
  <1>4. CASE SettleOk(i)
    <2> DEFINE good == mapped[i] \ bad[i]
    <2>1. rows' = MarkDelivered(rows, Ids(good)) /\ \A c \in good : HeldRow(c)
      BY <1>4 DEF SettleOk, At, HeldBatch, HeldBy
    <2>2. good \in SUBSET Claim /\ Keys(good) \subseteq accepted
      BY <1>1, <1>4 DEF SettleOk, At, BatchWasAccepted, Keys
    <2> HIDE DEF good
    <2>3. Touches(rows, rows', Ids(good), {"delivering"}, "delivered")
      BY <2>1, <2>2, BatchTouches
    <2>4. \A id \in Ids(good) : rows[id].key \in accepted
      BY <2>1, <2>2 DEF Ids, Keys, HeldRow
    <2>5. QED
      BY <1>2, <2>3, <2>4 DEF StoreStep, Recorded
  <1>5. CASE ParkBatch(i)
    <2>1. rows' = MarkParked(rows, Ids(mapped[i])) /\ \A c \in mapped[i] : HeldRow(c)
      BY <1>5 DEF ParkBatch, At, HeldBatch, HeldBy
    <2>2. Touches(rows, rows', Ids(mapped[i]), {"delivering", "retry"}, "parked")
      BY <1>1, <2>1, BatchTouches, TouchMore
    <2>3. QED
      BY <1>2, <2>2 DEF StoreStep, Moved
  <1>6. CASE RetryBatch(i)
    <2>1. PICK next \in Nat : rows' = MarkFailed(rows, Ids(mapped[i]), next)
      BY <1>6, ClockTypes DEF RetryBatch
    <2>2. \A c \in mapped[i] : LiveRow(c)
      BY <1>6 DEF RetryBatch, At, HeldBatch, HeldBy
    <2>3. Touches(rows, rows', Ids(mapped[i]), LIVE, "retry")
      BY <1>1, <2>1, <2>2, BatchTouches
    <2>4. QED
      BY <1>2, <2>3 DEF StoreStep, Moved
  <1>7. QED
    BY <1>3, <1>4, <1>5, <1>6

\* The map loop settles the event it holds.
LEMMA MapShapes ==
    ASSUME HeldInv, NEW i \in Inst, NEW c \in todo[i],
           ParkUnmappable(i, c) \/ RetryOne(i, c)
    PROVE  StoreStep
  <1> USE DEF HeldInv
  <1>1. c \in Claim /\ HeldRow(c)
    BY DEF TypeOK, BatchTyped, ParkUnmappable, RetryOne, At, HeldBatch, HeldBy
  <1>2. Aside
    BY DEF ParkUnmappable, RetryOne, Advance, Batching, Cycling, endCloseVars, Aside
  <1>3. CASE ParkUnmappable(i, c)
    <2>1. Touches(rows, rows', {c.id}, {"delivering", "retry"}, "parked")
      BY <1>1, <1>3, OneTouches, TouchMore DEF ParkUnmappable
    <2>2. QED
      BY <1>2, <2>1 DEF StoreStep, Moved
  <1>4. CASE RetryOne(i, c)
    <2>1. PICK next \in Nat : rows' = MarkFailed(rows, {c.id}, next)
      BY <1>4, ClockTypes DEF RetryOne
    <2>2. Touches(rows, rows', {c.id}, LIVE, "retry")
      BY <1>1, <2>1, OneTouches, TouchMore DEF LIVE
    <2>3. QED
      BY <1>2, <2>2 DEF StoreStep, Moved
  <1>5. QED
    BY <1>3, <1>4

\* The sweeps, the release and an operator's replay move rows by status.
LEMMA SweepShapes ==
    ASSUME TypeOK,
           \/ \E ids : ReplayEvents(ids)
           \/ \E i \in Inst : Recover(i) \/ Park(i) \/ ReleaseLeftover(i)
    PROVE  StoreStep
  <1>1. rows \in Table /\ now \in Nat /\ \A i \in Inst : cycleNow[i] \in Nat
    BY ClockTypes DEF TypeOK, StoreTyped, CycleTyped
  <1>2. ASSUME NEW ids, ReplayEvents(ids)
        PROVE  StoreStep
    <2>1. Aside /\ rows' = Replay(rows, ids, now)
      BY <1>2 DEF ReplayEvents, Operate, endCloseVars, Aside
    <2>2. Touches(rows, rows', ids \intersect WithStatus(rows, {"parked"}), {"parked"}, "retry")
      BY <1>1, <2>1, ReplayTouches
    <2>3. Touches(rows, rows', ids \intersect WithStatus(rows, {"parked"}), LIVE, "retry")
      BY <2>2, TouchMore DEF LIVE
    <2>4. QED
      BY <2>1, <2>3 DEF StoreStep, Moved
  <1>3. ASSUME NEW i \in Inst, Recover(i)
        PROVE  StoreStep
    <2>1. Aside /\ \E owner : rows' = RecoverDelivering(rows, cycleNow[i], owner)
      BY <1>3 DEF Recover, Sweeping, Cycling, endCloseVars, Aside
    <2>2. \E x : Touches(rows, rows', x, LIVE, "retry")
      BY <1>1, <2>1, RecoverTouches, TouchMore DEF LIVE
    <2>3. QED
      BY <2>1, <2>2 DEF StoreStep, Moved
  <1>4. ASSUME NEW i \in Inst, Park(i)
        PROVE  StoreStep
    <2>1. Aside /\ rows' = ParkExpired(rows, cycleNow[i], ParkAfterMs)
      BY <1>4 DEF Park, Sweeping, Cycling, endCloseVars, Aside
    <2>2. \E x : Touches(rows, rows', x, {"delivering", "retry"}, "parked")
      BY <1>1, <2>1, ParkExpiredTouches, TouchMore
    <2>3. QED
      BY <2>1, <2>2 DEF StoreStep, Moved
  <1>5. ASSUME NEW i \in Inst, ReleaseLeftover(i)
        PROVE  StoreStep
    <2>1. Aside /\ rows' = ReleaseDelivering(rows, Ids(claimed[i]), now)
      BY <1>5 DEF ReleaseLeftover, AfterRelease, Cycling, endCloseVars, Aside
    <2> DEFINE still == Ids(claimed[i]) \intersect WithStatus(rows, {"delivering"})
    <2>2. Touches(rows, rows', still, {"delivering"}, "retry")
      BY <1>1, <2>1, ReleaseTouches
    <2>3. Touches(rows, rows', still, LIVE, "retry")
      BY <2>2, TouchMore DEF LIVE
    <2>4. QED
      BY <2>1, <2>3 DEF StoreStep, Moved
  <1>6. QED
    BY <1>2, <1>3, <1>4, <1>5

\* End Close takes events the relay holds.
LEMMA SendShapes ==
    ASSUME HeldInv, NEW i \in Inst, Send(i)
    PROVE  StoreStep
  <1> USE DEF HeldInv
  <1> DEFINE ks == Keys(mapped[i])
  <1>1. ks \in SUBSET Key /\ \A k \in ks : \E id \in WithStatus(rows, {"delivering"}) : rows[id].key = k
    <2>1. mapped[i] \in SUBSET Claim
      BY DEF TypeOK, BatchTyped
    <2>2. \A c \in mapped[i] : HeldRow(c)
      BY DEF HeldBatch, HeldBy, Send, PostAccepted, PostTransient, PostUnreadable, PostRefused, At
    <2>3. QED
      BY <2>1, <2>2, KeysTyped, HeldTouch
  <1>2. /\ UNCHANGED <<rows, lastId, acked>>
        /\ accepted' = accepted \/ accepted' = accepted \union ks
    BY DEF Send, PostAccepted, PostTransient, PostUnreadable, PostRefused,
           EndCloseTakes, Batching, Cycling, endCloseVars
  <1> HIDE DEF ks
  <1>3. CASE accepted' = accepted
    BY <1>2, <1>3, SameIsQuiet DEF StoreStep
  <1>4. CASE accepted' = accepted \union ks
    BY <1>1, <1>2, <1>4 DEF StoreStep, Took
  <1>5. QED
    BY <1>2, <1>3, <1>4

\* Every step has one of these shapes.
LEMMA StoreSteps ==
    ASSUME HeldInv, [Next]_vars
    PROVE  StoreStep
  <1>0. TypeOK
    BY DEF HeldInv
  <1>1. UNCHANGED <<rows, lastId, acked, accepted>> => StoreStep
    BY <1>0, SameIsQuiet DEF StoreStep
  <1>2. ASSUME NEW k \in Key, NEW r \in Route,
               NEW status \in {"pending", "dropped_by_filter"}, IngestInsert(k, r, status)
        PROVE  StoreStep
    BY <1>2, InsertShape DEF HeldInv, StoreStep
  <1>3. ASSUME NEW t, PruneBatch(t)
        PROVE  StoreStep
    BY <1>0, <1>3, PruneShape DEF StoreStep
  <1>4. ASSUME NEW i \in Inst, ClaimBatch(i)
        PROVE  StoreStep
    BY <1>0, <1>4, ClaimShape DEF StoreStep
  <1>5. ASSUME Tick \/ (\E value : SetKillswitch(value)) \/ \E r : SetRoutePaused(r) \/ ReplaceRoutes(r)
        PROVE  StoreStep
    BY <1>1, <1>5 DEF Tick, SetKillswitch, SetRoutePaused, ReplaceRoutes, Operate,
           storeVars, endCloseVars
  <1>6. ASSUME NEW i \in Inst, Lifecycle(i)
        PROVE  StoreStep
    BY <1>1, <1>6 DEF Lifecycle, Crash, Stop, Start, Outage, storeVars, endCloseVars
  <1>7. ASSUME NEW i \in Inst,
               \/ BeginCycle(i) \/ CheckKillswitch(i) \/ ListDue(i) \/ FinishCycle(i)
               \/ \E r : NextRoute(i, r)
        PROVE  StoreStep
    BY <1>1, <1>7 DEF BeginCycle, CheckKillswitch, ListDue, FinishCycle, NextRoute,
           Sweeping, Routing, Cycling, endCloseVars
  <1>8. ASSUME NEW i \in Inst, NEW c \in todo[i], MapEvent(i, c) \/ Undecoded(i, c)
        PROVE  StoreStep
    BY <1>1, <1>8 DEF MapEvent, Undecoded, Advance, Batching, Cycling, endCloseVars
  <1>9. ASSUME NEW i \in Inst, PollAgain(i) \/ PollGivesUp(i)
               \/ \E failing, byIndex : PollResults(i, failing, byIndex)
        PROVE  StoreStep
    BY <1>1, <1>9 DEF PollAgain, PollGivesUp, PollResults, Settle, Batching,
           Cycling, endCloseVars
  <1>10. ASSUME NEW i \in Inst, StoreThrows(i)
        PROVE  StoreStep
    BY <1>1, <1>10 DEF StoreThrows, SweepThrows, CycleThrows, SettleThrows,
           BatchThrows, ReleaseThrows, Throw, Fault, AfterRelease, Cycling,
           endCloseVars
  <1>11. CASE UNCHANGED vars
    BY <1>1, <1>11 DEF vars, storeVars, endCloseVars
  <1>12. ASSUME NEW i \in Inst, NEW c \in todo[i], ParkUnmappable(i, c) \/ RetryOne(i, c)
        PROVE  StoreStep
    BY <1>12, MapShapes
  <1>13. ASSUME NEW i \in Inst,
               SettlePark(i) \/ SettleOk(i) \/ ParkBatch(i) \/ RetryBatch(i)
        PROVE  StoreStep
    BY <1>13, SettleShapes
  <1>14. QED
    BY <1>0, <1>2, <1>3, <1>4, <1>5, <1>6, <1>7, <1>8, <1>9, <1>10, <1>11, <1>12,
           <1>13, SweepShapes, SendShapes
       DEF Next, Environment, Operator, CycleStep, Housekeeping, Routes, MapBatch,
           SettleBatch

-----------------------------------------------------------------------------
(* The invariant.                                                           *)

\* Every step keeps one row to an event, and ids without reuse in order.
LEMMA KeysStep ==
    ASSUME TypeOK, FreshIds, UniqueKeys, StoreStep
    PROVE  FreshIds' /\ UniqueKeys'
  <1>1. ASSUME Aside, NEW ids, NEW from, NEW to, to # "absent",
               Touches(rows, rows', ids, from, to)
        PROVE  FreshIds' /\ UniqueKeys'
    <2>1. /\ lastId' = lastId
          /\ \A id \in Id : rows'[id].key = rows[id].key
          /\ Present(rows') = Present(rows)
      BY <1>1 DEF Aside, Touches, Present
    <2>2. Present(rows) \subseteq Id
      BY DEF Present
    <2>3. QED
      BY <2>1, <2>2 DEF FreshIds, RowsNumbered, UniqueKeys
  <1>2. CASE Took
    BY <1>2 DEF Took, FreshIds, RowsNumbered, UniqueKeys, Present
  <1>3. ASSUME NEW k \in Key, NEW status \in {"pending", "dropped_by_filter"},
               Inserted(k, status)
        PROVE  FreshIds' /\ UniqueKeys'
    <2>1. PICK id \in Id \ Present(rows), r \in Route :
              /\ rows' = Insert(rows, id, NewRow(k, r, status, now))
              /\ ~ReusesIds => lastId' = id
      BY <1>3 DEF Inserted
    <2>2. /\ rows'[id].key = k /\ \A x \in Id \ {id} : rows'[x] = rows[x]
          /\ \A x \in Present(rows) : rows[x].key # k
      BY <1>3, <2>1 DEF Inserted, KeyTaken, Insert, NewRow, TypeOK, StoreTyped, Table
    <2>3. Present(rows') \subseteq Present(rows) \union {id} /\ Present(rows) \subseteq Id
      BY <2>2 DEF Present
    <2>4. lastId <= lastId' /\ lastId \in Nat /\ (~ReusesIds => lastId' \in Nat)
      BY <1>3, <2>1 DEF Inserted, TypeOK, StoreTyped, Id
    <2>5. FreshIds'
      BY <2>1, <2>3, <2>4 DEF FreshIds, RowsNumbered, Id
    <2>6. UniqueKeys'
      BY <2>2, <2>3 DEF UniqueKeys
    <2>7. QED
      BY <2>5, <2>6
  <1>4. CASE Forgotten
    <2>1. lastId' = lastId /\ \A id \in Id : rows'[id] \in {rows[id], NoRow}
      BY <1>4 DEF Forgotten, Aside, Delete
    <2>2. \A id \in Present(rows') : id \in Present(rows) /\ rows'[id] = rows[id]
      BY <2>1 DEF Present, NoRow
    <2>3. QED
      BY <2>1, <2>2 DEF FreshIds, RowsNumbered, UniqueKeys
  <1>5. QED
    BY <1>1, <1>2, <1>3, <1>4 DEF StoreStep, Quiet, Moved, Recorded

\* A step of nobody's batch keeps the claims of every batch distinct.
LEMMA DistinctFrame ==
    ASSUME DistinctClaims, UNCHANGED <<claimed, todo, mapped>>
    PROVE  DistinctClaims'
  BY DEF DistinctClaims

\* The claims claimDue returns are of different rows.
LEMMA ClaimDistinct ==
    ASSUME TypeOK, NEW i \in Inst, ClaimBatch(i)
    PROVE  /\ \A c, d \in claimed'[i] : c.id = d.id => c = d
           /\ todo'[i] = claimed'[i] /\ mapped' = mapped /\ bad' = bad
           /\ \A j \in Inst \ {i} : claimed'[j] = claimed[j] /\ todo'[j] = todo[j]
           /\ pc' = [pc EXCEPT ![i] = IF claimed'[i] = {} THEN "route" ELSE "map"]
  <1> DEFINE ids == Claimable(rows, route[i], cycleNow[i], BatchMax)
             until == Clip(now + LeaseMs, Horizon - 1)
             claims == {[id |-> id, key |-> rows[id].key,
                         attempts |-> rows[id].attempts,
                         payload |-> rows[id].payload, lease |-> until] : id \in ids}
  <1>1. /\ claimed' = [claimed EXCEPT ![i] = claims] /\ todo' = [todo EXCEPT ![i] = claims]
        /\ mapped' = mapped /\ bad' = bad
        /\ pc' = [pc EXCEPT ![i] = IF ids = {} THEN "route" ELSE "map"]
    BY DEF ClaimBatch, Goto
  <1>2. \A c, d \in claims : c.id = d.id => c = d
    OBVIOUS
  <1>3. claims = {} <=> ids = {}
    OBVIOUS
  <1> HIDE DEF claims, ids
  <1>4. QED
    BY <1>1, <1>2, <1>3 DEF TypeOK, BatchTyped

\* Every step keeps the claims of a batch distinct.
LEMMA DistinctStep ==
    ASSUME TypeOK, BatchShape, DistinctClaims, [Next]_vars
    PROVE  DistinctClaims'
  <1> USE DEF TypeOK, BatchTyped
  <1>1. ASSUME Environment
        PROVE  DistinctClaims'
    BY <1>1, DistinctFrame DEF Environment, Tick, IngestInsert, Operator,
           SetKillswitch, SetRoutePaused, ReplaceRoutes, ReplayEvents, Operate,
           PruneBatch, batchVars
  <1>2. ASSUME NEW i \in Inst, Stop(i) \/ Start(i) \/ Housekeeping(i)
               \/ ListDue(i) \/ FinishCycle(i) \/ \E r : NextRoute(i, r)
        PROVE  DistinctClaims'
    BY <1>2, DistinctFrame DEF Stop, Start, Housekeeping, BeginCycle, Recover, Park,
           CheckKillswitch, ListDue, FinishCycle, NextRoute, Sweeping, Routing, batchVars
  <1>3. ASSUME NEW i \in Inst,
               Crash(i) \/ ReleaseLeftover(i) \/ ReleaseThrows(i)
        PROVE  DistinctClaims'
    BY <1>3 DEF DistinctClaims, Crash, ReleaseLeftover, ReleaseThrows, AfterRelease,
           DropBatch
  <1>4. ASSUME NEW i \in Inst, ClaimBatch(i)
        PROVE  DistinctClaims'
    <2>1. mapped[i] = {}
      BY <1>4 DEF ClaimBatch, At, BatchShape
    <2>2. QED
      BY <1>4, <2>1, ClaimDistinct DEF DistinctClaims
  <1>5. ASSUME NEW i \in Inst, NEW c \in todo[i], NEW good, good \in {{c}, {}},
               Advance(i, c, good)
        PROVE  DistinctClaims'
    <2>1. /\ claimed' = claimed
          /\ todo' = [todo EXCEPT ![i] = todo[i] \ {c}]
          /\ mapped' = [mapped EXCEPT ![i] = mapped[i] \union good]
      BY <1>5 DEF Advance, Batching
    <2>2. (todo[i] \ {c}) \intersect (mapped[i] \union good) = {}
      BY <1>5 DEF DistinctClaims
    <2>3. QED
      BY <2>1, <2>2 DEF DistinctClaims
  <1>6. ASSUME NEW i \in Inst, NEW c \in todo[i],
               MapEvent(i, c) \/ ParkUnmappable(i, c) \/ RetryOne(i, c)
        PROVE  DistinctClaims'
    BY <1>5, <1>6 DEF MapEvent, ParkUnmappable, RetryOne
  <1>7. ASSUME NEW i \in Inst, Send(i) \/ \E c \in todo[i] : Undecoded(i, c)
        PROVE  DistinctClaims'
    BY <1>7, DistinctFrame DEF Send, Undecoded, PostAccepted, PostTransient,
           PostUnreadable, PostRefused, Batching
  <1>8. ASSUME NEW i \in Inst,
               \/ PollAgain(i) \/ PollGivesUp(i) \/ SettlePark(i) \/ SettleOk(i)
               \/ ParkBatch(i) \/ RetryBatch(i)
               \/ \E failing, byIndex : PollResults(i, failing, byIndex)
        PROVE  DistinctClaims'
    BY <1>8, DistinctFrame DEF PollAgain, PollGivesUp, PollResults, Settle,
           SettlePark, SettleOk, ParkBatch, RetryBatch, StoreCall, Batching
  <1>9. ASSUME NEW i \in Inst,
               SweepThrows(i) \/ CycleThrows(i) \/ SettleThrows(i) \/ BatchThrows(i)
        PROVE  DistinctClaims'
    BY <1>9, DistinctFrame DEF SweepThrows, CycleThrows, SettleThrows, BatchThrows,
           Throw, batchVars
  <1>10. CASE UNCHANGED vars
    BY <1>10, DistinctFrame DEF vars, batchVars
  <1>11. QED
    BY <1>1, <1>2, <1>3, <1>4, <1>6, <1>7, <1>8, <1>9, <1>10 DEF Next, CycleStep,
           Routes, MapBatch, SettleBatch, StoreThrows, Lifecycle

\* A step that neither moves a batch nor changes a live row of it keeps the
\* batch held.
LEMMA HeldFrame ==
    ASSUME TypeOK, HeldBatch, UNCHANGED <<pc, todo, mapped, bad>>,
           \A id \in Id : rows[id].status \in LIVE =>
               /\ rows'[id].key = rows[id].key
               /\ rows'[id].status \in LIVE
               /\ rows[id].status = "delivering" => rows'[id].status = "delivering"
    PROVE  HeldBatch'
  <1>1. \A c \in Claim : /\ HeldRow(c) => HeldRow(c)'
                         /\ LiveRow(c) => LiveRow(c)'
    BY DEF HeldRow, LiveRow, LIVE, Claim
  <1>2. \A i \in Inst : mapped[i] \union todo[i] \subseteq Claim
    BY DEF TypeOK, BatchTyped
  <1>3. QED
    BY <1>1, <1>2 DEF HeldBatch, HeldBy

\* Nobody but the relay itself takes a live row out of its hands: not ingest,
\* not retention, not an operator.
LEMMA HeldByEnvironment ==
    ASSUME HeldInv, Environment
    PROVE  HeldBatch'
  <1> USE DEF HeldInv
  <1>1. UNCHANGED <<pc, todo, mapped, bad>>
    BY DEF Environment, Tick, IngestInsert, Operator, SetKillswitch, SetRoutePaused,
           ReplaceRoutes, ReplayEvents, Operate, PruneBatch, cycleVars, batchVars
  <1>2. CASE rows' = rows
    BY <1>1, <1>2, HeldFrame
  <1>3. ASSUME NEW k \in Key, NEW r \in Route,
               NEW status \in {"pending", "dropped_by_filter"}, IngestInsert(k, r, status)
        PROVE  HeldBatch'
    <2>1. PICK new \in Id \ Present(rows) : \E x \in Route :
              rows' = Insert(rows, new, NewRow(k, x, status, now))
      BY <1>3, InsertShape DEF Inserted
    <2>2. \A id \in Id : rows[id].status \in LIVE => rows'[id] = rows[id]
      BY <2>1 DEF Insert, Present, LIVE, DUE, TypeOK, StoreTyped, Table
    <2>3. QED
      BY <1>1, <2>2, HeldFrame
  <1>4. ASSUME NEW ids, ReplayEvents(ids)
        PROVE  HeldBatch'
    <2>1. Touches(rows, rows', ids \intersect WithStatus(rows, {"parked"}), {"parked"}, "retry")
      BY <1>4, ClockTypes, ReplayTouches DEF ReplayEvents, TypeOK, StoreTyped
    <2>2. \A id \in Id : rows[id].status \in LIVE =>
              /\ rows'[id].key = rows[id].key
              /\ rows'[id].status \in LIVE
              /\ rows[id].status = "delivering" => rows'[id].status = "delivering"
      BY <2>1 DEF Touches, LIVE, DUE, WithStatus
    <2>3. QED
      BY <1>1, <2>2, HeldFrame
  <1>5. ASSUME NEW t, PruneBatch(t)
        PROVE  HeldBatch'
    <2>1. \A id \in Id : rows[id].status \in LIVE => rows'[id] = rows[id]
      BY <1>5, PruneFacts DEF LIVE, DUE, TERMINAL
    <2>2. QED
      BY <1>1, <2>1, HeldFrame
  <1>6. CASE UNCHANGED rows
    BY <1>2, <1>6
  <1>7. QED
    BY <1>3, <1>4, <1>5, <1>6 DEF Environment, Operator, Tick, SetKillswitch,
           SetRoutePaused, ReplaceRoutes, storeVars

\* A claim that is held is live.
LEMMA HeldIsLive == \A c : HeldRow(c) => LiveRow(c)
  BY DEF HeldRow, LiveRow

\* The map loop settles one event of the batch and leaves the others held.
LEMMA HeldByMap ==
    ASSUME HeldInv, NEW i \in Inst, NEW c \in todo[i],
           MapEvent(i, c) \/ ParkUnmappable(i, c) \/ RetryOne(i, c)
    PROVE  HeldBy(i)'
  <1> USE DEF HeldInv
  <1>1. /\ pc \in [Inst -> PC] /\ pc[i] = "map"
        /\ todo[i] \subseteq Claim /\ mapped[i] \subseteq Claim /\ c \in Claim
        /\ todo \in [Inst -> SUBSET Claim] /\ mapped \in [Inst -> SUBSET Claim]
        /\ todo[i] \union mapped[i] \subseteq claimed[i]
    BY DEF TypeOK, CycleTyped, BatchTyped, MapEvent, ParkUnmappable, RetryOne, At, BatchShape
  <1>2. \A d \in todo[i] \union mapped[i] : HeldRow(d)
    BY <1>1 DEF HeldBatch, HeldBy
  <1>3. CASE MapEvent(i, c)
    <2>1. /\ rows' = rows /\ todo'[i] = todo[i] \ {c} /\ mapped'[i] = mapped[i] \union {c}
          /\ pc'[i] \in {"map", "post"}
      BY <1>1, <1>3 DEF MapEvent, Advance, Goto
    <2>2. \A d \in todo'[i] \union mapped'[i] : HeldRow(d)'
      BY <1>2, <2>1 DEF HeldRow
    <2>3. QED
      BY <2>1, <2>2 DEF HeldBy
  <1>4. CASE ParkUnmappable(i, c) \/ RetryOne(i, c)
    <2>1. /\ todo'[i] = todo[i] \ {c} /\ mapped'[i] = mapped[i]
          /\ pc'[i] \in {"map", "post", "release"}
      BY <1>1, <1>4 DEF ParkUnmappable, RetryOne, Advance, Goto
    <2>2. \A id \in Id \ {c.id} : rows'[id].key = rows[id].key /\ rows'[id].status = rows[id].status
      <3>1. CASE ParkUnmappable(i, c)
        BY <1>1, <1>2, <3>1, OneTouches DEF ParkUnmappable, Touches
      <3>2. CASE RetryOne(i, c)
        <4>1. PICK next \in Nat : rows' = MarkFailed(rows, {c.id}, next)
          BY <3>2, ClockTypes DEF RetryOne
        <4>2. Touches(rows, rows', {c.id}, {"delivering"}, "retry")
          BY <1>1, <1>2, <4>1, OneTouches
        <4>3. QED
          BY <4>2 DEF Touches
      <3>3. QED
        BY <1>4, <3>1, <3>2
    <2>3. \A d \in todo'[i] \union mapped'[i] : d \in Claim /\ d.id \in Id \ {c.id} /\ HeldRow(d)
      BY <1>1, <1>2, <2>1 DEF DistinctClaims, Claim
    <2>4. \A d \in todo'[i] \union mapped'[i] : HeldRow(d)'
      BY <2>2, <2>3 DEF HeldRow
    <2>5. QED
      BY <2>1, <2>4 DEF HeldBy
  <1>5. QED
    BY <1>3, <1>4

\* Sending and polling change no row.
LEMMA HeldBySend ==
    ASSUME HeldInv, NEW i \in Inst,
           \/ PostAccepted(i) \/ PostTransient(i) \/ PostUnreadable(i)
           \/ \E label \in {"reject", "fail"} : PostRefused(i, label)
           \/ PollAgain(i) \/ PollGivesUp(i) \/ SettleThrows(i)
           \/ \E failing \in SUBSET mapped[i], byIndex \in BOOLEAN :
                 PollResults(i, failing, byIndex)
    PROVE  HeldBy(i)'
  <1> USE DEF HeldInv
  <1>1. /\ pc \in [Inst -> PC] /\ pc[i] \in {"post", "poll", "settlePark", "settleOk"}
        /\ bad \in [Inst -> SUBSET Claim]
    BY DEF TypeOK, CycleTyped, BatchTyped, PostAccepted, PostTransient,
           PostUnreadable, PostRefused, PollAgain, PollGivesUp, PollResults,
           SettleThrows, At
  <1>2. /\ pc[i] # "settleOk" => \A c \in todo[i] \union mapped[i] : HeldRow(c) /\ LiveRow(c)
        /\ pc[i] = "settleOk" => \A c \in mapped[i] : LiveRow(c)
    BY <1>1, HeldIsLive DEF HeldBatch, HeldBy
  <1>3. rows' = rows /\ todo' = todo /\ mapped' = mapped
    BY DEF PostAccepted, PostTransient, PostUnreadable, PostRefused, PollAgain,
           PollGivesUp, PollResults, Settle, SettleThrows, Throw, Fault, Batching, batchVars
  <1>4. pc'[i] \in {"post", "poll", "settlePark", "settleOk", "reject", "fail"}
    BY <1>1 DEF PostAccepted, PostTransient, PostUnreadable, PostRefused, PollAgain,
           PollGivesUp, PollResults, Settle, SettleThrows, Throw, Goto
  <1>5. pc[i] = "settleOk" => pc'[i] = "fail"
    BY <1>1 DEF PostAccepted, PostTransient, PostUnreadable, PostRefused, PollAgain,
           PollGivesUp, PollResults, SettleThrows, Throw, Goto, At
  <1>6. /\ \A c : HeldRow(c) => HeldRow(c)'
        /\ \A c : LiveRow(c) => LiveRow(c)'
    BY <1>3 DEF HeldRow, LiveRow
  <1>7. QED
    <2>1. pc'[i] \in {"map", "post", "poll", "settlePark", "reject"} =>
              \A c \in todo'[i] \union mapped'[i] : HeldRow(c)'
      BY <1>2, <1>3, <1>5, <1>6
    <2>2. pc'[i] = "settleOk" => \A c \in mapped'[i] \ bad'[i] : HeldRow(c)'
      BY <1>2, <1>3, <1>5, <1>6
    <2>3. pc'[i] \in {"settleOk", "fail"} => \A c \in mapped'[i] : LiveRow(c)'
      BY <1>2, <1>3, <1>6
    <2>4. QED
      BY <2>1, <2>2, <2>3 DEF HeldBy

\* What failed is parked, and what did not is still held.
LEMMA HeldBySettlePark ==
    ASSUME HeldInv, NEW i \in Inst, SettlePark(i)
    PROVE  HeldBy(i)'
  <1> USE DEF HeldInv
  <1>1. /\ pc \in [Inst -> PC] /\ pc[i] = "settlePark" /\ bad[i] \subseteq mapped[i]
        /\ mapped[i] \subseteq Claim /\ mapped[i] \subseteq claimed[i]
    BY DEF TypeOK, CycleTyped, BatchTyped, BatchShape, SettlePark, At
  <1>2. \A c \in mapped[i] : HeldRow(c)
    BY <1>1 DEF HeldBatch, HeldBy
  <1>3. /\ pc'[i] = "settleOk" /\ mapped' = mapped /\ bad' = bad
        /\ rows' = MarkParked(rows, Ids(bad[i]))
    BY <1>1 DEF SettlePark, StoreCall, Goto, Batching
  <1>4. Touches(rows, rows', Ids(bad[i]), {"delivering"}, "parked")
    BY <1>1, <1>2, <1>3, BatchTouches
  <1>5. ASSUME NEW c \in mapped[i]
        PROVE  LiveRow(c)' /\ (c \notin bad[i] => HeldRow(c)')
    <2>1. c.id \in Id /\ rows[c.id].key = c.key /\ rows[c.id].status = "delivering"
      BY <1>1, <1>2 DEF Claim, HeldRow
    <2>2. c \notin bad[i] => c.id \notin Ids(bad[i])
      BY <1>1 DEF DistinctClaims, Ids
    <2>3. QED
      BY <1>4, <2>1, <2>2 DEF Touches, LiveRow, HeldRow
  <1>6. QED
    BY <1>3, <1>5 DEF HeldBy

\* What claimDue returns is held.
LEMMA HeldByClaim ==
    ASSUME HeldInv, NEW i \in Inst, ClaimBatch(i)
    PROVE  HeldBy(i)'
  <1> USE DEF HeldInv
  <1>p. PICK ids \in SUBSET Id : Claims(i, ids)
    BY ClaimBatchFacts
  <1>1. /\ \A id \in ids : /\ rows'[id].key = rows[id].key
                           /\ rows'[id].status = "delivering"
        /\ \A c \in claimed'[i] : c.id \in ids /\ c.key = rows[c.id].key
    BY <1>p DEF Claims
  <1>2. /\ pc \in [Inst -> PC] /\ mapped'[i] = {} /\ todo'[i] = claimed'[i]
        /\ pc' = [pc EXCEPT ![i] = IF claimed'[i] = {} THEN "route" ELSE "map"]
    BY ClaimDistinct DEF TypeOK, CycleTyped, BatchShape, ClaimBatch, At
  <1>3. pc'[i] \in {"map", "route"}
    BY <1>2
  <1>4. \A c \in todo'[i] \union mapped'[i] : HeldRow(c)'
    BY <1>1, <1>2 DEF HeldRow
  <1>5. QED
    BY <1>3, <1>4 DEF HeldBy

\* A batch in no working state holds nothing.
Working == {"map", "post", "poll", "settlePark", "settleOk", "fail", "reject"}
LEMMA HeldElsewhere ==
    ASSUME NEW i \in Inst, pc'[i] \notin Working
    PROVE  HeldBy(i)'
  BY DEF HeldBy, Working

\* Whatever an instance does, what it maps, sends and settles next is held.
LEMMA HeldByOwner ==
    ASSUME HeldInv, NEW i \in Inst, CycleStep(i) \/ StoreThrows(i) \/ Lifecycle(i)
    PROVE  HeldBy(i)'
  <1>0. pc \in [Inst -> PC]
    BY DEF HeldInv, TypeOK, CycleTyped
  <1>1. CASE Stop(i) \/ Start(i)
    <2>1. UNCHANGED <<rows, pc, todo, mapped, bad>>
      BY <1>1 DEF Stop, Outage, Start, storeVars, cycleVars, batchVars
    <2>2. HeldBatch'
      BY <2>1, HeldFrame DEF HeldInv
    <2>3. QED
      BY <2>2 DEF HeldBatch
  <1>2. CASE Crash(i) \/ Housekeeping(i) \/ ListDue(i) \/ FinishCycle(i)
             \/ \E r \in Route : NextRoute(i, r)
    <2>1. pc'[i] \notin Working
      BY <1>0, <1>2 DEF Crash, Housekeeping, BeginCycle, Recover, Park, CheckKillswitch,
             ListDue, FinishCycle, NextRoute, EndCycle, Goto, At, Working
    <2>2. QED
      BY <2>1, HeldElsewhere
  <1>3. CASE \E c \in todo[i] : Undecoded(i, c)
    BY <1>0, <1>3, HeldElsewhere DEF Undecoded, Goto, Working
  <1>4. CASE SettleOk(i) \/ ParkBatch(i) \/ RetryBatch(i)
    BY <1>0, <1>4, HeldElsewhere DEF SettleOk, ParkBatch, RetryBatch, StoreCall, Goto, Working
  <1>5. CASE ReleaseLeftover(i) \/ ReleaseThrows(i)
    <2>1. pc'[i] \notin Working
      BY <1>0, <1>5 DEF ReleaseLeftover, ReleaseThrows, AfterRelease, EndCycle, Goto, Working
    <2>2. QED
      BY <2>1, HeldElsewhere
  <1>6. CASE SweepThrows(i) \/ CycleThrows(i) \/ BatchThrows(i)
    <2>1. pc'[i] \notin Working
      BY <1>0, <1>6 DEF SweepThrows, CycleThrows, BatchThrows, Throw, EndCycle, Goto, Working
    <2>2. QED
      BY <2>1, HeldElsewhere
  <1>7. CASE Send(i) \/ SettleThrows(i) \/ PollAgain(i) \/ PollGivesUp(i)
             \/ \E failing \in SUBSET mapped[i], byIndex \in BOOLEAN :
                   PollResults(i, failing, byIndex)
    BY <1>7, HeldBySend DEF Send
  <1>8. QED
    BY <1>1, <1>2, <1>3, <1>4, <1>5, <1>6, <1>7, HeldByMap, HeldBySettlePark,
           HeldByClaim DEF CycleStep, Routes, MapBatch, SettleBatch, StoreThrows, Lifecycle

\* With one relay, what it maps, sends and settles is held throughout.
LEMMA HeldStep ==
    ASSUME HeldInv, OneRelay, [Next]_vars
    PROVE  HeldBatch'
  <1>1. CASE Environment
    BY <1>1, HeldByEnvironment
  <1>2. CASE UNCHANGED vars
    BY <1>2, HeldFrame DEF HeldInv, vars, storeVars, cycleVars, batchVars
  <1>3. ASSUME NEW i \in Inst, CycleStep(i) \/ StoreThrows(i) \/ Lifecycle(i)
        PROVE  HeldBatch'
    <2>1. HeldBy(i)'
      BY <1>3, HeldByOwner
    <2>2. \A j \in Inst : j = i
      BY DEF OneRelay
    <2>3. QED
      BY <2>1, <2>2 DEF HeldBatch
  <1>4. QED
    BY <1>1, <1>2, <1>3 DEF Next

\* With one relay the invariant holds throughout, whatever the store does
\* with ids.
LEMMA SoleInvariant == OneRelay => (Spec => []HeldInv)
  <1> SUFFICES ASSUME OneRelay PROVE Spec => []HeldInv
    OBVIOUS
  <1>1. Init => HeldInv
    BY TypeInit DEF HeldInv, Init, BatchShape, BatchWasAccepted, FreshIds,
           RowsNumbered, UniqueKeys, DistinctClaims, HeldBatch, HeldBy, Present, EmptyTable, NoRow
  <1>2. ASSUME HeldInv, [Next]_vars PROVE HeldInv'
    <2>1. TypeOK' /\ BatchShape' /\ BatchWasAccepted'
      BY <1>2, TypeStep, ShapeStep, AcceptedStep DEF HeldInv
    <2>2. FreshIds' /\ UniqueKeys'
      BY <1>2, StoreSteps, KeysStep DEF HeldInv
    <2>3. DistinctClaims' /\ HeldBatch'
      BY <1>2, DistinctStep, HeldStep DEF HeldInv
    <2>4. QED
      BY <2>1, <2>2, <2>3 DEF HeldInv
  <1>3. QED
    BY <1>1, <1>2, PTL DEF Spec

-----------------------------------------------------------------------------
(* A delivery is final, true and promised.                                  *)

\* One step leaves a delivered row delivered, or deletes it.
LEMMA FinalStep ==
    ASSUME TypeOK, StoreStep, NEW id \in WithStatus(rows, {"delivered"})
    PROVE  rows'[id].status \in {"delivered", "absent"}
  <1>1. id \in Id /\ rows[id].status = "delivered"
    BY DEF WithStatus
  <1>2. ASSUME NEW ids, NEW from, NEW to, Touches(rows, rows', ids, from, to),
               "delivered" \notin from \/ to = "delivered"
        PROVE  rows'[id].status = "delivered"
    BY <1>1, <1>2 DEF Touches
  <1>3. CASE \E k \in Key, status \in {"pending", "dropped_by_filter"} : Inserted(k, status)
    BY <1>1, <1>3 DEF Inserted, Insert, Present, TypeOK, StoreTyped, Table
  <1>4. CASE Forgotten
    BY <1>1, <1>4 DEF Forgotten, Delete, NoRow
  <1>5. CASE Took
    BY <1>1, <1>5 DEF Took
  <1>6. QED
    BY <1>2, <1>3, <1>4, <1>5 DEF StoreStep, Quiet, Moved, Recorded, LIVE, DUE

\* Delivered is final with one relay: no late markFailed, markParked or
\* release of an earlier batch, no sweep and no replay takes it back, although
\* the calls that settle a batch look up their rows by id alone.
THEOREM DeliveryIsFinal == OneRelay => (Spec => DeliveredIsFinal)
  <1> SUFFICES ASSUME OneRelay PROVE Spec => DeliveredIsFinal
    OBVIOUS
  <1> DEFINE Final == \A id \in WithStatus(rows, {"delivered"}) :
                          rows'[id].status \in {"delivered", "absent"}
  <1>1. ASSUME HeldInv, [Next]_vars PROVE Final
    BY <1>1, StoreSteps, FinalStep DEF HeldInv
  <1>2. HeldInv /\ [Next]_vars => [Final]_vars
    BY <1>1
  <1>3. QED
    BY <1>2, SoleInvariant, PTL DEF Spec, DeliveredIsFinal

\* One step delivers nothing End Close has not taken, and loses nothing.
LEMMA PromiseStep ==
    ASSUME TypeOK, StoreStep, DeliveredWasAccepted, NothingLost
    PROVE  DeliveredWasAccepted' /\ NothingLost'
  <1>1. ASSUME Aside, NEW ids, NEW from, NEW to, Touches(rows, rows', ids, from, to),
               to \in LIVE \/ (to = "delivered" /\ \A id \in ids : rows[id].key \in accepted)
        PROVE  DeliveredWasAccepted' /\ NothingLost'
    <2>1. accepted' = accepted /\ acked' = acked /\ \A id \in Id : rows'[id].key = rows[id].key
      BY <1>1 DEF Aside, Touches
    <2>0. \A id \in Id : \/ id \in ids /\ rows'[id].status = to
                         \/ rows'[id].status = rows[id].status
      BY <1>1 DEF Touches
    <2>2. ASSUME NEW id \in Id, rows'[id].status = "delivered"
          PROVE  rows'[id].key \in accepted'
      <3>1. CASE id \in ids /\ rows'[id].status = to
        BY <1>1, <2>1, <2>2, <3>1 DEF LIVE, DUE
      <3>2. CASE rows'[id].status = rows[id].status
        BY <2>1, <2>2, <3>2 DEF DeliveredWasAccepted, WithStatus
      <3>3. QED
        BY <2>0, <3>1, <3>2
    <2>3. ASSUME NEW k \in acked', k \notin accepted'
          PROVE  \E id \in WithStatus(rows', DUE \union {"delivering", "parked"}) :
                    rows'[id].key = k /\ rows'[id].payload
      <3>1. PICK id \in Id : rows[id].status \in LIVE /\ rows[id].key = k /\ rows[id].payload
        BY <2>1, <2>3 DEF NothingLost, WithStatus, LIVE
      <3>2. rows'[id].key = k /\ rows'[id].payload
        BY <1>1, <3>1 DEF Touches, LIVE, DUE, TERMINAL
      <3>3. rows'[id].status \in LIVE
        <4>1. CASE id \in ids /\ rows'[id].status = to
          BY <1>1, <2>1, <2>3, <3>1, <4>1
        <4>2. CASE rows'[id].status = rows[id].status
          BY <3>1, <4>2
        <4>3. QED
          BY <2>0, <4>1, <4>2
      <3>4. QED
        BY <3>1, <3>2, <3>3 DEF WithStatus, LIVE
    <2>4. QED
      BY <2>2, <2>3 DEF DeliveredWasAccepted, NothingLost, WithStatus
  <1>2. CASE Took
    BY <1>2 DEF Took, DeliveredWasAccepted, NothingLost, WithStatus
  <1>3. ASSUME NEW k \in Key, NEW status \in {"pending", "dropped_by_filter"},
               Inserted(k, status)
        PROVE  DeliveredWasAccepted' /\ NothingLost'
    <2>1. PICK new \in Id \ Present(rows), r \in Route :
              rows' = Insert(rows, new, NewRow(k, r, status, now))
      BY <1>3 DEF Inserted
    <2>2. /\ accepted' = accepted
          /\ acked' = IF status = "pending" THEN acked \union {k} ELSE acked
          /\ rows'[new].key = k /\ rows'[new].payload /\ rows'[new].status = status
          /\ \A x \in Id \ {new} : rows'[x] = rows[x]
          /\ rows[new].status = "absent"
      BY <1>3, <2>1 DEF Inserted, Insert, NewRow, TypeOK, StoreTyped, Table, Present
    <2>3. DeliveredWasAccepted'
      BY <2>2 DEF DeliveredWasAccepted, WithStatus
    <2>4. ASSUME NEW x \in acked', x \notin accepted'
          PROVE  \E id \in WithStatus(rows', DUE \union {"delivering", "parked"}) :
                    rows'[id].key = x /\ rows'[id].payload
      <3>1. CASE x \in acked
        BY <2>2, <2>4, <3>1 DEF NothingLost, WithStatus, DUE
      <3>2. CASE x \notin acked
        BY <2>2, <2>4, <3>2 DEF WithStatus, DUE
      <3>3. QED
        BY <3>1, <3>2
    <2>5. QED
      BY <2>3, <2>4 DEF NothingLost
  <1>4. CASE Forgotten
    <2>1. PICK ids \in SUBSET WithStatus(rows, TERMINAL) : rows' = Delete(rows, ids)
      BY <1>4 DEF Forgotten
    <2>2. /\ \A id \in Id : rows[id].status \notin TERMINAL => rows'[id] = rows[id]
          /\ \A id \in Id : rows'[id] \in {rows[id], NoRow}
          /\ acked' = acked /\ accepted' = accepted
      BY <1>4, <2>1 DEF Forgotten, Aside, Delete, WithStatus
    <2>3. QED
      BY <2>2 DEF DeliveredWasAccepted, NothingLost, WithStatus, NoRow, DUE, TERMINAL
  <1>5. QED
    BY <1>1, <1>2, <1>3, <1>4 DEF StoreStep, Quiet, Moved, Recorded, LIVE, DUE

\* With one relay, and a store that reuses ids, what is recorded as delivered
\* was taken by End Close and nothing acknowledged is lost.
LEMMA SolePromise ==
    OneRelay => (Spec => [](DeliveredWasAccepted /\ NothingLost))
  <1> SUFFICES ASSUME OneRelay PROVE Spec => [](DeliveredWasAccepted /\ NothingLost)
    OBVIOUS
  <1>1. Init => DeliveredWasAccepted /\ NothingLost
    BY DEF Init, DeliveredWasAccepted, NothingLost, WithStatus, EmptyTable, NoRow
  <1>2. ASSUME HeldInv, DeliveredWasAccepted, NothingLost, [Next]_vars
        PROVE  DeliveredWasAccepted' /\ NothingLost'
    BY <1>2, StoreSteps, PromiseStep DEF HeldInv
  <1>3. QED
    BY <1>1, <1>2, SoleInvariant, PTL DEF Spec

\* The relay records as delivered only what End Close has taken, whatever
\* SQLite's row ids: a claim never settles the row of another event.
THEOREM SoleRecordsAreTrue == OneRelay => (Spec => []DeliveredWasAccepted)
  <1>1. QED
    BY SolePromise, PTL

\* At least once, on SQLite too.
THEOREM SoleAcknowledgedIsKept == OneRelay => (Spec => []NothingLost)
  <1>1. QED
    BY SolePromise, PTL

-----------------------------------------------------------------------------
(* The refinement of Delivery.                                              *)

\* An event of the table stands where its row says, any other is unknown.
LEMMA StageFacts ==
    ASSUME UniqueKeys, NEW k
    PROVE  /\ \A id \in Present(rows) :
                 rows[id].key = k => EventStage(k) = StageOf(rows[id].status)
           /\ ~KeyTaken(rows, k) => EventStage(k) = "unknown"
  <1>1. ASSUME NEW id \in Present(rows), rows[id].key = k
        PROVE  EventStage(k) = StageOf(rows[id].status)
    <2>1. KeyTaken(rows, k)
      BY <1>1 DEF KeyTaken
    <2>2. \A x \in Present(rows) : rows[x].key = k <=> x = id
      BY <1>1 DEF UniqueKeys
    <2>3. (CHOOSE x \in Present(rows) : rows[x].key = k) = id
      BY <2>2
    <2>4. QED
      BY <2>1, <2>3 DEF EventStage
  <1>2. QED
    BY <1>1 DEF EventStage

\* The same in the next state.
LEMMA StageFactsNext ==
    ASSUME UniqueKeys', NEW k
    PROVE  /\ \A id \in Present(rows') :
                 rows'[id].key = k => EventStage(k)' = StageOf(rows'[id].status)
           /\ ~KeyTaken(rows', k) => EventStage(k)' = "unknown"
  <1>1. ASSUME NEW id \in Present(rows'), rows'[id].key = k
        PROVE  EventStage(k)' = StageOf(rows'[id].status)
    <2>1. KeyTaken(rows', k)
      BY <1>1 DEF KeyTaken
    <2>2. \A x \in Present(rows') : rows'[x].key = k <=> x = id
      BY <1>1 DEF UniqueKeys
    <2>3. (CHOOSE x \in Present(rows') : rows'[x].key = k) = id
      BY <2>2
    <2>4. QED
      BY <2>1, <2>3 DEF EventStage
  <1>2. QED
    BY <1>1 DEF EventStage

\* Touching rows moves the events of those rows, and no others.
LEMMA TouchMoves ==
    ASSUME TypeOK, UniqueKeys, UniqueKeys', UNCHANGED accepted,
           NEW ids, NEW from, NEW to, to # "absent", Touches(rows, rows', ids, from, to),
           NEW stages, \A status \in from : StageOf(status) \in stages
    PROVE  \E ks \in SUBSET Key :
              /\ Promise!Move(ks, stages, StageOf(to))
              /\ \A k \in ks : \E id \in ids : rows[id].key = k
  <1> DEFINE ks == {rows[id].key : id \in ids}
  <1>1. /\ \A id \in Id : rows'[id].key = rows[id].key
        /\ Present(rows') = Present(rows) /\ ids \subseteq Present(rows)
        /\ \A id \in ids : rows[id].status \in from /\ rows'[id].status = to
        /\ \A id \in Id \ ids : rows'[id].status = rows[id].status
        /\ Present(rows) \subseteq Id
    BY DEF Touches, Present
  <1>2. ks \in SUBSET Key
    BY <1>1, RowCases DEF Present, Row, TypeOK, StoreTyped
  <1>3. ASSUME NEW k \in ks PROVE EventStage(k) \in stages
    BY <1>1, StageFacts
  <1>4. ASSUME NEW k \in Key
        PROVE  EventStage(k)' = IF k \in ks THEN StageOf(to) ELSE EventStage(k)
    <2>1. ASSUME NEW id \in Present(rows), rows[id].key = k
          PROVE  EventStage(k)' = IF k \in ks THEN StageOf(to) ELSE EventStage(k)
      <3>1. /\ EventStage(k) = StageOf(rows[id].status)
            /\ EventStage(k)' = StageOf(rows'[id].status)
        BY <1>1, <2>1, StageFacts, StageFactsNext
      <3>2. k \in ks <=> id \in ids
        BY <1>1, <2>1 DEF UniqueKeys
      <3>3. QED
        BY <1>1, <3>1, <3>2
    <2>2. CASE ~KeyTaken(rows, k)
      <3>1. ~KeyTaken(rows', k) /\ k \notin ks
        BY <1>1, <2>2 DEF KeyTaken
      <3>2. QED
        BY <2>2, <3>1, StageFacts, StageFactsNext
    <2>3. QED
      BY <2>1, <2>2 DEF KeyTaken
  <1>5. \A k \in ks : \E id \in ids : rows[id].key = k
    OBVIOUS
  <1> HIDE DEF ks
  <1>6. Promise!Move(ks, stages, StageOf(to))
    <2>1. \A k \in ks : [x \in Key |-> EventStage(x)][k] \in stages
      BY <1>2, <1>3
    <2>2. [x \in Key |-> EventStage(x)]' =
              [x \in Key |-> IF x \in ks THEN StageOf(to)
                             ELSE [y \in Key |-> EventStage(y)][x]]
      BY <1>4
    <2>3. QED
      BY <2>1, <2>2 DEF Promise!Move
  <1>7. QED
    BY <1>2, <1>5, <1>6

\* What nobody notices is a stutter: no event moves.
LEMMA QuietStutters ==
    ASSUME UniqueKeys, UniqueKeys', Quiet
    PROVE  UNCHANGED Promise!vars
  <1>1. /\ \A id \in Id : rows'[id].key = rows[id].key /\ rows'[id].status = rows[id].status
        /\ Present(rows') = Present(rows) /\ Present(rows) \subseteq Id
        /\ UNCHANGED <<acked, accepted>>
    BY DEF Quiet, Aside, Touches, Present
  <1>2. ASSUME NEW k \in Key PROVE EventStage(k)' = EventStage(k)
    <2>1. ASSUME NEW id \in Present(rows), rows[id].key = k
          PROVE  EventStage(k)' = EventStage(k)
      BY <1>1, <2>1, StageFacts, StageFactsNext
    <2>2. CASE ~KeyTaken(rows, k)
      BY <1>1, <2>2, StageFacts, StageFactsNext DEF KeyTaken
    <2>3. QED
      BY <2>1, <2>2 DEF KeyTaken
  <1>3. QED
    BY <1>1, <1>2 DEF Promise!vars

\* A new row is a new event: it waits, or the filter has dropped it.
LEMMA InsertIsAccept ==
    ASSUME TypeOK, UniqueKeys, UniqueKeys', NEW k \in Key,
           NEW status \in {"pending", "dropped_by_filter"}, Inserted(k, status)
    PROVE  Promise!Accept(k) \/ Promise!Drop(k)
  <1>1. PICK new \in Id \ Present(rows), r \in Route :
            rows' = Insert(rows, new, NewRow(k, r, status, now))
    BY DEF Inserted
  <1>2. /\ ~KeyTaken(rows, k) /\ UNCHANGED accepted
        /\ acked' = IF status = "pending" THEN acked \union {k} ELSE acked
        /\ rows'[new].key = k /\ rows'[new].status = status
        /\ \A x \in Id \ {new} : rows'[x] = rows[x]
        /\ rows[new].status = "absent" /\ new \in Id
    BY <1>1 DEF Inserted, Insert, NewRow, TypeOK, StoreTyped, Table, Present
  <1>3. Present(rows') = Present(rows) \union {new} /\ Present(rows) \subseteq Id
    BY <1>2 DEF Present
  <1>4. EventStage(k) = "unknown" /\ EventStage(k)' = StageOf(status)
    BY <1>2, <1>3, StageFacts, StageFactsNext
  <1>5. ASSUME NEW x \in Key, x # k PROVE EventStage(x)' = EventStage(x)
    <2>1. ASSUME NEW id \in Present(rows), rows[id].key = x
          PROVE  EventStage(x)' = EventStage(x)
      <3>1. id \in Present(rows') /\ rows'[id] = rows[id]
        BY <1>2, <1>3, <2>1 DEF Present
      <3>2. QED
        BY <2>1, <3>1, StageFacts, StageFactsNext
    <2>2. CASE ~KeyTaken(rows, x)
      <3>1. ~KeyTaken(rows', x)
        BY <1>2, <1>3, <1>5, <2>2 DEF KeyTaken, Present
      <3>2. QED
        BY <2>2, <3>1, StageFacts, StageFactsNext
    <2>3. QED
      BY <2>1, <2>2 DEF KeyTaken
  <1>6. Promise!Move({k}, {"unknown"}, StageOf(status))
    <2>1. \A x \in {k} : [y \in Key |-> EventStage(y)][x] \in {"unknown"}
      BY <1>4
    <2>2. [x \in Key |-> EventStage(x)]' =
              [x \in Key |-> IF x \in {k} THEN StageOf(status)
                             ELSE [y \in Key |-> EventStage(y)][x]]
      BY <1>4, <1>5
    <2>3. QED
      BY <1>2, <2>1, <2>2 DEF Promise!Move
  <1>7. CASE status = "pending"
    BY <1>2, <1>6, <1>7 DEF Promise!Accept, StageOf, DUE
  <1>8. CASE status = "dropped_by_filter"
    BY <1>2, <1>6, <1>8 DEF Promise!Drop, StageOf, DUE
  <1>9. QED
    BY <1>7, <1>8

\* Retention forgets events that are delivered or were dropped.
LEMMA DeleteIsForget ==
    ASSUME TypeOK, UniqueKeys, UniqueKeys', Forgotten
    PROVE  \E ks \in SUBSET Key : Promise!Forget(ks)
  <1>1. PICK ids \in SUBSET WithStatus(rows, TERMINAL) : rows' = Delete(rows, ids)
    BY DEF Forgotten
  <1> DEFINE ks == {rows[id].key : id \in ids}
  <1>2. /\ ids \subseteq Present(rows) /\ Present(rows) \subseteq Id
        /\ \A id \in ids : StageOf(rows[id].status) \in {"delivered", "filtered"}
        /\ UNCHANGED <<acked, accepted>>
    BY DEF Forgotten, Aside, WithStatus, Present, TERMINAL, StageOf, DUE
  <1>3. /\ \A id \in Id \ ids : rows'[id] = rows[id]
        /\ Present(rows') = Present(rows) \ ids
    BY <1>1, <1>2 DEF Delete, NoRow, Present
  <1>4. ks \in SUBSET Key
    BY <1>2, RowCases DEF Present, Row, TypeOK, StoreTyped
  <1>5. ASSUME NEW k \in ks PROVE EventStage(k) \in {"delivered", "filtered"}
    BY <1>2, StageFacts
  <1>6. ASSUME NEW k \in Key
        PROVE  EventStage(k)' = IF k \in ks THEN "unknown" ELSE EventStage(k)
    <2>1. ASSUME NEW id \in Present(rows), rows[id].key = k
          PROVE  EventStage(k)' = IF k \in ks THEN "unknown" ELSE EventStage(k)
      <3>1. k \in ks <=> id \in ids
        BY <1>2, <2>1 DEF UniqueKeys
      <3>2. CASE id \in ids
        <4>1. ~KeyTaken(rows', k)
          BY <1>2, <1>3, <2>1, <3>2 DEF KeyTaken, UniqueKeys
        <4>2. QED
          BY <3>1, <3>2, <4>1, StageFactsNext
      <3>3. CASE id \notin ids
        <4>1. id \in Present(rows') /\ rows'[id] = rows[id]
          BY <1>2, <1>3, <3>3
        <4>2. QED
          BY <2>1, <3>1, <3>3, <4>1, StageFacts, StageFactsNext
      <3>4. QED
        BY <3>2, <3>3
    <2>2. CASE ~KeyTaken(rows, k)
      <3>1. ~KeyTaken(rows', k) /\ k \notin ks
        BY <1>2, <1>3, <2>2 DEF KeyTaken
      <3>2. QED
        BY <2>2, <3>1, StageFacts, StageFactsNext
    <2>3. QED
      BY <2>1, <2>2 DEF KeyTaken
  <1> HIDE DEF ks
  <1>7. Promise!Move(ks, {"delivered", "filtered"}, "unknown")
    <2>1. \A k \in ks : [x \in Key |-> EventStage(x)][k] \in {"delivered", "filtered"}
      BY <1>4, <1>5
    <2>2. [x \in Key |-> EventStage(x)]' =
              [x \in Key |-> IF x \in ks THEN "unknown"
                             ELSE [y \in Key |-> EventStage(y)][x]]
      BY <1>6
    <2>3. QED
      BY <1>2, <2>1, <2>2 DEF Promise!Move
  <1>8. QED
    BY <1>2, <1>4, <1>7 DEF Promise!Forget

\* End Close takes events that are held.
LEMMA TookIsTake ==
    ASSUME TypeOK, UniqueKeys, UniqueKeys', Took
    PROVE  \E ks \in SUBSET Key : Promise!Take(ks)
  <1>1. PICK ks \in SUBSET Key :
            /\ accepted' = accepted \union ks
            /\ \A k \in ks : \E id \in WithStatus(rows, {"delivering"}) : rows[id].key = k
    BY DEF Took
  <1>2. rows' = rows /\ acked' = acked
    BY DEF Took
  <1>3. ASSUME NEW k \in ks PROVE EventStage(k) = "held"
    <2>1. PICK id \in Present(rows) : rows[id].key = k /\ rows[id].status = "delivering"
      BY <1>1 DEF WithStatus, Present
    <2>2. EventStage(k) = StageOf("delivering")
      BY <2>1, StageFacts
    <2>3. QED
      BY <2>2 DEF StageOf, DUE
  <1>4. [k \in Key |-> EventStage(k)]' = [k \in Key |-> EventStage(k)]
    BY <1>2 DEF EventStage
  <1>5. QED
    BY <1>1, <1>2, <1>3, <1>4 DEF Promise!Take

\* Every step of the relay is a step of Delivery, or none.
LEMMA PromiseKept ==
    ASSUME TypeOK, UniqueKeys, UniqueKeys', StoreStep
    PROVE  [Promise!Next]_(Promise!vars)
  <1>1. CASE Quiet
    BY <1>1, QuietStutters
  <1>2. CASE Took
    BY <1>2, TookIsTake DEF Promise!Next
  <1>3. CASE Forgotten
    BY <1>3, DeleteIsForget DEF Promise!Next
  <1>4. CASE \E k \in Key, status \in {"pending", "dropped_by_filter"} : Inserted(k, status)
    BY <1>4, InsertIsAccept DEF Promise!Next
  <1>5. CASE Moved(DUE, "delivering")
    <2>1. PICK ids : Touches(rows, rows', ids, DUE, "delivering")
      BY <1>5 DEF Moved
    <2>2. UNCHANGED <<acked, accepted>> /\ \A s \in DUE : StageOf(s) \in {"waiting"}
      BY <1>5 DEF Moved, Aside, StageOf, DUE
    <2>3. \E ks \in SUBSET Key : Promise!Move(ks, {"waiting"}, StageOf("delivering"))
      BY <2>1, <2>2, TouchMoves
    <2>4. QED
      BY <2>2, <2>3 DEF Promise!Next, Promise!Hold, StageOf, DUE
  <1>6. CASE Moved(LIVE, "retry")
    <2>1. PICK ids : Touches(rows, rows', ids, LIVE, "retry")
      BY <1>6 DEF Moved
    <2>2. /\ UNCHANGED <<acked, accepted>>
          /\ \A s \in LIVE : StageOf(s) \in {"held", "parked", "waiting"}
      BY <1>6 DEF Moved, Aside, StageOf, LIVE, DUE
    <2>3. \E ks \in SUBSET Key : Promise!Move(ks, {"held", "parked", "waiting"}, StageOf("retry"))
      BY <2>1, <2>2, TouchMoves
    <2>4. QED
      BY <2>2, <2>3 DEF Promise!Next, Promise!Requeue, StageOf, DUE
  <1>7. CASE Moved({"delivering", "retry"}, "parked")
    <2>1. PICK ids : Touches(rows, rows', ids, {"delivering", "retry"}, "parked")
      BY <1>7 DEF Moved
    <2>2. /\ UNCHANGED <<acked, accepted>>
          /\ \A s \in {"delivering", "retry"} : StageOf(s) \in {"held", "waiting"}
      BY <1>7 DEF Moved, Aside, StageOf, DUE
    <2>3. \E ks \in SUBSET Key : Promise!Move(ks, {"held", "waiting"}, StageOf("parked"))
      BY <2>1, <2>2, TouchMoves
    <2>4. QED
      BY <2>2, <2>3 DEF Promise!Next, Promise!Park, StageOf, DUE
  <1>8. CASE Recorded
    <2>1. PICK ids : /\ Touches(rows, rows', ids, {"delivering"}, "delivered")
                     /\ \A id \in ids : rows[id].key \in accepted
      BY <1>8 DEF Recorded
    <2>2. UNCHANGED <<acked, accepted>> /\ \A s \in {"delivering"} : StageOf(s) \in {"held"}
      BY <1>8 DEF Recorded, Aside, StageOf, DUE
    <2>3. PICK ks \in SUBSET Key :
              /\ Promise!Move(ks, {"held"}, StageOf("delivered"))
              /\ \A k \in ks : \E id \in ids : rows[id].key = k
      BY <2>1, <2>2, TouchMoves
    <2>4. ks \subseteq accepted
      BY <2>1, <2>3
    <2>5. QED
      BY <2>2, <2>3, <2>4 DEF Promise!Next, Promise!Deliver, StageOf, DUE
  <1>9. QED
    BY <1>1, <1>2, <1>3, <1>4, <1>5, <1>6, <1>7, <1>8 DEF StoreStep

\* At first every event is unknown.
LEMMA PromiseInit == Init => Promise!Init
  BY DEF Init, Promise!Init, EventStage, KeyTaken, Present, EmptyTable, NoRow

\* One relay implements Delivery, whatever fails, crashes, is swept, paused,
\* replayed or pruned between two awaits, and whatever ids SQLite reuses.
THEOREM OneRelayKeepsPromise == OneRelay => (Spec => KeepsPromise)
  <1> SUFFICES ASSUME OneRelay PROVE Spec => KeepsPromise
    OBVIOUS
  <1>1. Init => Promise!Init
    BY PromiseInit
  <1>2. ASSUME HeldInv, HeldInv', [Next]_vars PROVE [Promise!Next]_(Promise!vars)
    BY <1>2, StoreSteps, PromiseKept DEF HeldInv
  <1>3. QED
    BY <1>1, <1>2, SoleInvariant, PTL DEF Spec, KeepsPromise, Promise!Spec

-----------------------------------------------------------------------------
(* What the relay was told.                                                 *)

\* Records carry the event id as external_id, as the default mapping writes it
\* and as extResultKey expects it.
OwnNames == \A k \in Key : RecordName[k] = EventName[k]

\* The batches of two instances share no row.
Separate ==
    \A i, j \in Inst : i # j => Ids(claimed[i]) \intersect Ids(claimed[j]) = {}

\* An instance moves no batch but its own.
LEMMA OthersStand ==
    ASSUME TypeOK, NEW i \in Inst, NEW j \in Inst, j # i,
           CycleStep(i) \/ StoreThrows(i) \/ Lifecycle(i)
    PROVE  /\ pc'[j] = pc[j] /\ todo'[j] = todo[j]
           /\ mapped'[j] = mapped[j] /\ bad'[j] = bad[j]
  <1> USE DEF TypeOK, CycleTyped, BatchTyped
  <1>1. CASE Housekeeping(i)
    BY <1>1 DEF Housekeeping, BeginCycle, Recover, Park, CheckKillswitch, EndCycle, Goto,
       Sweeping, Routing, batchVars
  <1>2. CASE Routes(i)
    BY <1>2 DEF Routes, ListDue, FinishCycle, ClaimBatch, NextRoute, EndCycle, Goto,
       Routing, batchVars
  <1>3. CASE MapBatch(i)
    BY <1>3 DEF MapBatch, MapEvent, ParkUnmappable, RetryOne, Undecoded, Advance, Goto
  <1>4. CASE Send(i)
    BY <1>4 DEF Send, PostAccepted, PostTransient, PostUnreadable, PostRefused, Goto
  <1>5. CASE SettleBatch(i)
    BY <1>5 DEF SettleBatch, PollAgain, PollGivesUp, PollResults, Settle, SettlePark,
       SettleOk, ParkBatch, RetryBatch, ReleaseLeftover, AfterRelease, DropBatch,
       StoreCall, EndCycle, Goto
  <1>6. CASE StoreThrows(i)
    BY <1>6 DEF StoreThrows, SweepThrows, CycleThrows, SettleThrows, BatchThrows,
       ReleaseThrows, AfterRelease, DropBatch, Throw, EndCycle, Goto, batchVars
  <1>7. CASE Lifecycle(i)
    BY <1>7 DEF Lifecycle, Crash, Stop, Start, EndCycle, DropBatch, cycleVars, batchVars
  <1>8. QED
    BY <1>1, <1>2, <1>3, <1>4, <1>5, <1>6, <1>7 DEF CycleStep

\* Every event End Close reports as failed is found among the results: by the
\* name of its record, or by its index.
LEMMA FailingIsBad ==
    ASSUME TypeOK, OwnNames, NEW i \in Inst, NEW failing \in SUBSET mapped[i],
           NEW byIndex \in BOOLEAN, PollResults(i, failing, byIndex)
    PROVE  /\ failing \subseteq bad'[i] /\ bad'[i] \subseteq mapped[i]
           /\ mapped' = mapped /\ rows' = rows
           /\ told' = (told \ Keys(mapped[i])) \union Keys(failing)
           /\ pc'[i] \in {"settlePark", "settleOk"} /\ pc[i] = "poll"
  <1> DEFINE names == {ResultName(c, mapped[i], byIndex) : c \in failing}
             matched == {c \in mapped[i] : Matches(c, mapped[i], names)}
  <1>1. /\ bad' = [bad EXCEPT ![i] = matched]
        /\ mapped' = mapped /\ rows' = rows
        /\ told' = (told \ Keys(mapped[i])) \union Keys(failing)
        /\ pc' = [pc EXCEPT ![i] = IF failing = {} THEN "settleOk" ELSE "settlePark"]
        /\ pc[i] = "poll"
    BY DEF PollResults, Settle, Batching, Goto, At
  <1>2. ASSUME NEW c \in failing PROVE c \in matched
    <2>1. c \in mapped[i] /\ c.key \in Key
      BY DEF TypeOK, BatchTyped, Claim
    <2>2. ResultName(c, mapped[i], byIndex) \in names
      OBVIOUS
    <2> HIDE DEF names
    <2>3. Matches(c, mapped[i], names)
      BY <2>1, <2>2 DEF Matches, ResultName, OwnNames
    <2>4. QED
      BY <2>1, <2>3
  <1>3. matched \subseteq mapped[i]
    OBVIOUS
  <1> HIDE DEF matched
  <1>4. QED
    BY <1>1, <1>2, <1>3 DEF TypeOK, BatchTyped, CycleTyped

\* Only a result tells of a failure.
LEMMA ToldSteps ==
    ASSUME [Next]_vars
    PROVE  \/ told' \subseteq told
           \/ \E i \in Inst : \E failing \in SUBSET mapped[i], byIndex \in BOOLEAN :
                 PollResults(i, failing, byIndex)
  <1>1. ASSUME Environment
        PROVE  told' \subseteq told
    BY <1>1 DEF Environment, Tick, IngestInsert, Operator, SetKillswitch,
           SetRoutePaused, ReplaceRoutes, ReplayEvents, Operate, PruneBatch, endCloseVars
  <1>2. ASSUME NEW i \in Inst, Lifecycle(i) \/ StoreThrows(i)
        PROVE  told' \subseteq told
    BY <1>2 DEF Lifecycle, Crash, Stop, Start, Outage, StoreThrows, SweepThrows,
           CycleThrows, SettleThrows, BatchThrows, ReleaseThrows, Throw,
           AfterRelease, endCloseVars
  <1>3. ASSUME NEW i \in Inst, Housekeeping(i) \/ Routes(i) \/ MapBatch(i)
        PROVE  told' \subseteq told
    BY <1>3 DEF Housekeeping, BeginCycle, Recover, Park, CheckKillswitch, Routes,
           ListDue, FinishCycle, ClaimBatch, NextRoute, MapBatch, MapEvent,
           ParkUnmappable, RetryOne, Undecoded, Advance, Sweeping, Routing, endCloseVars
  <1>4. ASSUME NEW i \in Inst, Send(i)
        PROVE  told' \subseteq told
    BY <1>4 DEF Send, PostAccepted, PostTransient, PostUnreadable, PostRefused,
           EndCloseTakes, endCloseVars
  <1>5. ASSUME NEW i \in Inst,
               \/ PollAgain(i) \/ PollGivesUp(i) \/ SettlePark(i) \/ SettleOk(i)
               \/ ParkBatch(i) \/ RetryBatch(i) \/ ReleaseLeftover(i)
        PROVE  told' \subseteq told
    BY <1>5 DEF PollAgain, PollGivesUp, SettlePark, SettleOk, ParkBatch, RetryBatch,
           ReleaseLeftover, AfterRelease, StoreCall, endCloseVars
  <1>6. CASE UNCHANGED vars
    BY <1>6 DEF vars, endCloseVars
  <1>7. QED
    BY <1>1, <1>2, <1>3, <1>4, <1>5, <1>6 DEF Next, CycleStep, SettleBatch

\* An instance keeps what it was told of out of what it will record as delivered.
LEMMA ToldBadOwn ==
    ASSUME HeldInv, OwnNames, ToldIsBad, NEW i \in Inst,
           CycleStep(i) \/ StoreThrows(i) \/ Lifecycle(i)
    PROVE  ToldFor(i)'
  <1> USE DEF HeldInv
  <1>0. pc \in [Inst -> PC] /\ bad \in [Inst -> SUBSET Claim]
    BY DEF TypeOK, CycleTyped, BatchTyped
  <1>1. ASSUME UNCHANGED <<pc, mapped, bad, told>>
        PROVE  ToldFor(i)'
    BY <1>1 DEF ToldIsBad, ToldFor
  <1>2. ASSUME pc'[i] \notin {"poll", "settlePark", "settleOk"}
        PROVE  ToldFor(i)'
    BY <1>2 DEF ToldFor
  <1>4. ASSUME Stop(i) \/ Start(i)
        PROVE  ToldFor(i)'
    BY <1>1, <1>4 DEF Stop, Outage, Start, cycleVars, batchVars, endCloseVars
  <1>5. ASSUME Crash(i) \/ Housekeeping(i)
        PROVE  ToldFor(i)'
    <2>1. pc'[i] \notin {"poll", "settlePark", "settleOk"}
      BY <1>0, <1>5 DEF Crash, Housekeeping, BeginCycle, Recover, Park,
             CheckKillswitch, EndCycle, Goto
    <2>2. QED
      BY <1>2, <2>1
  <1>6. ASSUME Routes(i)
        PROVE  ToldFor(i)'
    <2>1. pc'[i] \notin {"poll", "settlePark", "settleOk"}
      BY <1>0, <1>6 DEF Routes, ListDue, FinishCycle, ClaimBatch, NextRoute, EndCycle,
             Goto, At
    <2>2. QED
      BY <1>2, <2>1
  <1>7. ASSUME MapBatch(i)
        PROVE  ToldFor(i)'
    <2>1. pc'[i] \notin {"poll", "settlePark", "settleOk"}
      BY <1>0, <1>7 DEF MapBatch, MapEvent, ParkUnmappable, RetryOne, Undecoded,
             Advance, Goto
    <2>2. QED
      BY <1>2, <2>1
  <1>8. ASSUME PostAccepted(i)
        PROVE  ToldFor(i)'
    BY <1>0, <1>8 DEF PostAccepted, Goto, ToldFor
  <1>9. ASSUME PostTransient(i) \/ PostUnreadable(i)
               \/ \E label \in {"reject", "fail"} : PostRefused(i, label)
        PROVE  ToldFor(i)'
    <2>1. pc'[i] \notin {"poll", "settlePark", "settleOk"}
      BY <1>0, <1>9 DEF PostTransient, PostUnreadable, PostRefused, Goto, At
    <2>2. QED
      BY <1>2, <2>1
  <1>10. ASSUME PollAgain(i)
        PROVE  ToldFor(i)'
    BY <1>1, <1>10 DEF PollAgain, Batching, endCloseVars
  <1>11. ASSUME PollGivesUp(i)
        PROVE  ToldFor(i)'
    <2>1. /\ pc'[i] = "settleOk" /\ pc[i] = "poll" /\ mapped' = mapped /\ bad'[i] = {}
          /\ told' = told \ Keys(mapped[i])
      BY <1>0, <1>11 DEF PollGivesUp, Settle, Batching, Goto, At
    <2>2. Keys(mapped'[i] \ bad'[i]) \intersect told' = {}
      BY <2>1 DEF Keys
    <2>3. QED
      BY <2>1, <2>2 DEF ToldFor
  <1>12. ASSUME NEW failing \in SUBSET mapped[i], NEW byIndex \in BOOLEAN,
                PollResults(i, failing, byIndex)
        PROVE  ToldFor(i)'
    <2>1. /\ failing \subseteq bad'[i] /\ mapped' = mapped
          /\ told' = (told \ Keys(mapped[i])) \union Keys(failing)
          /\ pc'[i] \in {"settlePark", "settleOk"} /\ pc[i] = "poll"
      BY <1>12, FailingIsBad
    <2>2. \A c, d \in mapped[i] : c.key = d.key => c = d
      <3>1. \A c \in mapped[i] : HeldRow(c) /\ c.id \in Present(rows) /\ c \in claimed[i]
        BY <2>1 DEF HeldBatch, HeldBy, HeldRow, TypeOK, BatchTyped, Claim, Present, BatchShape
      <3>2. QED
        BY <3>1 DEF HeldRow, UniqueKeys, DistinctClaims
    <2>3. ASSUME NEW k \in Keys(mapped[i] \ bad'[i]) PROVE k \notin told'
      <3>1. PICK c \in mapped[i] \ bad'[i] : k = c.key
        BY DEF Keys
      <3>2. k \in Keys(mapped[i])
        BY <3>1 DEF Keys
      <3>3. k \notin Keys(failing)
        BY <2>1, <2>2, <3>1 DEF Keys
      <3>4. QED
        BY <2>1, <3>2, <3>3
    <2>4. QED
      BY <2>1, <2>3 DEF ToldFor
  <1>13. ASSUME SettlePark(i)
        PROVE  ToldFor(i)'
    <2>1. /\ pc'[i] = "settleOk" /\ pc[i] = "settlePark" /\ mapped' = mapped
          /\ bad' = bad /\ told' = told
      BY <1>0, <1>13 DEF SettlePark, StoreCall, Batching, Goto, At, endCloseVars
    <2>2. QED
      BY <2>1 DEF ToldIsBad, ToldFor
  <1>14. ASSUME SettleOk(i) \/ ParkBatch(i) \/ RetryBatch(i)
        PROVE  ToldFor(i)'
    BY <1>0, <1>2, <1>14 DEF SettleOk, ParkBatch, RetryBatch, StoreCall, Goto
  <1>15. ASSUME ReleaseLeftover(i) \/ ReleaseThrows(i)
        PROVE  ToldFor(i)'
    <2>1. pc'[i] \notin {"poll", "settlePark", "settleOk"}
      BY <1>0, <1>15 DEF ReleaseLeftover, ReleaseThrows, AfterRelease, EndCycle, Goto
    <2>2. QED
      BY <1>2, <2>1
  <1>16. ASSUME SweepThrows(i) \/ CycleThrows(i) \/ SettleThrows(i) \/ BatchThrows(i)
        PROVE  ToldFor(i)'
    <2>1. pc'[i] \notin {"poll", "settlePark", "settleOk"}
      BY <1>0, <1>16 DEF SweepThrows, CycleThrows, SettleThrows, BatchThrows, Throw,
             EndCycle, Goto
    <2>2. QED
      BY <1>2, <2>1
  <1>17. QED
    BY <1>4, <1>5, <1>6, <1>7, <1>8, <1>9, <1>10, <1>11, <1>12, <1>13, <1>14,
           <1>15, <1>16 DEF CycleStep, Send, SettleBatch, StoreThrows, Lifecycle

\* The results of one batch tell nothing of another's.
LEMMA ToldBadOthers ==
    ASSUME HeldInv, Separate, OwnNames, ToldIsBad, [Next]_vars,
           NEW j \in Inst, pc'[j] = pc[j], mapped'[j] = mapped[j], bad'[j] = bad[j]
    PROVE  ToldFor(j)'
  <1> USE DEF HeldInv
  <1>1. CASE told' \subseteq told
    BY <1>1 DEF ToldIsBad, ToldFor
  <1>2. ASSUME NEW i \in Inst, NEW failing \in SUBSET mapped[i], NEW byIndex \in BOOLEAN,
               PollResults(i, failing, byIndex)
        PROVE  ToldFor(j)'
    <2>1. /\ told' = (told \ Keys(mapped[i])) \union Keys(failing) /\ pc[i] = "poll"
          /\ pc'[i] \in {"settlePark", "settleOk"}
      BY <1>2, FailingIsBad
    <2>2. i # j
      BY <2>1
    <2>3. ASSUME NEW c \in failing, NEW d \in mapped[j], HeldRow(d), c.key = d.key
          PROVE  FALSE
      <3>1. /\ HeldRow(c) /\ c \in claimed[i] /\ d \in claimed[j]
            /\ c.id \in Present(rows) /\ d.id \in Present(rows)
        BY <2>1, <2>3 DEF HeldBatch, HeldBy, HeldRow, TypeOK, BatchTyped, Claim, Present,
               BatchShape
      <3>2. c.id = d.id
        BY <2>3, <3>1 DEF HeldRow, UniqueKeys
      <3>3. QED
        BY <2>2, <3>1, <3>2 DEF Separate, Ids
    <2>4. ASSUME NEW batch \in SUBSET mapped[j], \A d \in batch : HeldRow(d),
                 Keys(batch) \intersect told = {}
          PROVE  Keys(batch) \intersect told' = {}
      BY <2>1, <2>3, <2>4 DEF Keys
    <2>5. /\ pc[j] \in {"poll", "settlePark"} => \A d \in mapped[j] : HeldRow(d)
          /\ pc[j] = "settleOk" => \A d \in mapped[j] \ bad[j] : HeldRow(d)
      BY DEF HeldBatch, HeldBy
    <2>6. pc[j] \in {"settlePark", "settleOk"} =>
              Keys(mapped[j] \ bad[j]) \intersect told' = {}
      <3>1. mapped[j] \ bad[j] \in SUBSET mapped[j]
        OBVIOUS
      <3>2. QED
        BY <2>4, <2>5, <3>1 DEF ToldIsBad, ToldFor
    <2>7. QED
      BY <2>6 DEF ToldFor
  <1>3. QED
    BY <1>1, <1>2, ToldSteps

\* Every step keeps what was reported as failed out of what is left to be
\* recorded as delivered.
LEMMA ToldBadStep ==
    ASSUME HeldInv, Separate, OwnNames, ToldIsBad, [Next]_vars
    PROVE  ToldIsBad'
  <1>1. CASE Environment \/ UNCHANGED vars
    <2>1. UNCHANGED <<pc, mapped, bad>>
      BY <1>1 DEF Environment, Tick, IngestInsert, Operator, SetKillswitch,
             SetRoutePaused, ReplaceRoutes, ReplayEvents, Operate, PruneBatch, vars,
             cycleVars, batchVars
    <2>2. QED
      BY <2>1, ToldBadOthers DEF ToldIsBad
  <1>2. ASSUME NEW i \in Inst, CycleStep(i) \/ StoreThrows(i) \/ Lifecycle(i), NEW j \in Inst
        PROVE  ToldFor(j)'
    <2>1. CASE j = i
      BY <1>2, <2>1, ToldBadOwn
    <2>2. CASE j # i
      <3>1. pc'[j] = pc[j] /\ mapped'[j] = mapped[j] /\ bad'[j] = bad[j]
        BY <1>2, <2>2, OthersStand DEF HeldInv
      <3>2. QED
        BY <3>1, ToldBadOthers
    <2>3. QED
      BY <2>1, <2>2
  <1>3. QED
    BY <1>1, <1>2 DEF Next, ToldIsBad

\* One step records no event as delivered that was reported as failed, and
\* reports none that is.
LEMMA ToldStep ==
    ASSUME HeldInv, OwnNames, ToldIsBad, RefusalIsHeeded, [Next]_vars
    PROVE  RefusalIsHeeded'
  <1> USE DEF HeldInv
  <1>1. ASSUME NEW i \in Inst, NEW failing \in SUBSET mapped[i], NEW byIndex \in BOOLEAN,
               PollResults(i, failing, byIndex)
        PROVE  RefusalIsHeeded'
    <2>1. /\ rows' = rows /\ told' = (told \ Keys(mapped[i])) \union Keys(failing) /\ pc[i] = "poll"
      BY <1>1, FailingIsBad
    <2>2. ASSUME NEW id \in WithStatus(rows, {"delivered"}) PROVE rows[id].key \notin Keys(failing)
      <3>1. id \in Present(rows) /\ rows[id].status = "delivered"
        BY DEF WithStatus, Present
      <3>2. ASSUME NEW c \in failing, c.key = rows[id].key PROVE FALSE
        <4>1. HeldRow(c) /\ c.id \in Present(rows)
          BY <2>1 DEF HeldBatch, HeldBy, HeldRow, TypeOK, BatchTyped, Claim, Present
        <4>2. c.id = id
          BY <3>1, <3>2, <4>1 DEF UniqueKeys, HeldRow
        <4>3. QED
          BY <3>1, <4>1, <4>2 DEF HeldRow
      <3>3. QED
        BY <3>2 DEF Keys
    <2>3. QED
      BY <2>1, <2>2 DEF RefusalIsHeeded
  <1>2. ASSUME told' \subseteq told,
               \A id \in Id : rows'[id].status = "delivered" =>
                   rows[id].status = "delivered" /\ rows'[id].key = rows[id].key
        PROVE  RefusalIsHeeded'
    BY <1>2 DEF RefusalIsHeeded, WithStatus
  <1>3. ASSUME NEW i \in Inst, SettleOk(i)
        PROVE  RefusalIsHeeded'
    <2> DEFINE good == mapped[i] \ bad[i]
    <2>1. /\ pc[i] = "settleOk" /\ told' = told
          /\ rows' = MarkDelivered(rows, Ids(good))
      BY <1>3 DEF SettleOk, At, StoreCall, endCloseVars
    <2>2. /\ Keys(good) \intersect told = {} /\ good \in SUBSET Claim
          /\ \A c \in good : HeldRow(c)
      BY <2>1 DEF ToldIsBad, ToldFor, HeldBatch, HeldBy, TypeOK, BatchTyped
    <2> HIDE DEF good
    <2>3. Touches(rows, rows', Ids(good), {"delivering"}, "delivered")
      BY <2>1, <2>2, BatchTouches
    <2>4. ASSUME NEW id \in Id, rows'[id].status = "delivered"
          PROVE  rows'[id].key \notin told
      <3>1. rows'[id].key = rows[id].key
        BY <2>3 DEF Touches
      <3>2. CASE id \in Ids(good)
        BY <2>2, <3>1, <3>2 DEF Ids, Keys, HeldRow
      <3>3. CASE id \notin Ids(good)
        BY <2>3, <2>4, <3>1, <3>3 DEF Touches, RefusalIsHeeded, WithStatus
      <3>4. QED
        BY <3>2, <3>3
    <2>5. QED
      BY <2>1, <2>4 DEF RefusalIsHeeded, WithStatus
  <1>4. ASSUME told' \subseteq told, InPlace
        PROVE  RefusalIsHeeded'
    BY <1>2, <1>4 DEF InPlace, Keeps, Undelivered, TERMINAL
  <1>5. ASSUME told' \subseteq told, NEW t, PruneBatch(t)
        PROVE  RefusalIsHeeded'
    BY <1>2, <1>5, PruneFacts DEF NoRow
  <1>6. ASSUME told' \subseteq told, NEW i \in Inst, ClaimBatch(i)
        PROVE  RefusalIsHeeded'
    <2>1. \A id \in Id : rows'[id].status = "delivered" => rows'[id] = rows[id]
      BY <1>6, ClaimBatchFacts DEF Claims
    <2>2. QED
      BY <1>2, <1>6, <2>1
  <1>7. ASSUME told' \subseteq told, NEW k \in Key, NEW r \in Route,
               NEW status \in {"pending", "dropped_by_filter"}, IngestInsert(k, r, status)
        PROVE  RefusalIsHeeded'
    <2>1. \A id \in Id : rows'[id].status = "delivered" => rows'[id] = rows[id]
      BY <1>7 DEF IngestInsert, Insert, NewRow, TypeOK, StoreTyped, Table
    <2>2. QED
      BY <1>2, <1>7, <2>1
  <1>8. QED
    BY <1>1, <1>3, <1>4, <1>5, <1>6, <1>7, ToldSteps, StepKinds

\* An event that the last poll of its batch reported as failed is not recorded
\* as delivered, whatever throws, crashes, is swept or is replayed between the
\* answer and its record, when records carry the event id as external_id.  (With
\* other names results are looked up by an index that may be another record's
\* name; and a later poll that fails hides the report.)
THEOREM RefusalIsKept ==
    OneRelay /\ OwnNames => (Spec => []RefusalIsHeeded)
  <1> SUFFICES ASSUME OneRelay, OwnNames PROVE Spec => []RefusalIsHeeded
    OBVIOUS
  <1>1. Init => ToldIsBad /\ RefusalIsHeeded
    BY DEF Init, ToldIsBad, ToldFor, RefusalIsHeeded, WithStatus, EmptyTable, NoRow
  <1>2. ASSUME HeldInv, ToldIsBad, RefusalIsHeeded, [Next]_vars
        PROVE  ToldIsBad' /\ RefusalIsHeeded'
    <2>1. Separate
      BY DEF OneRelay, Separate
    <2>2. QED
      BY <1>2, <2>1, ToldBadStep, ToldStep
  <1>3. QED
    BY <1>1, <1>2, SoleInvariant, PTL DEF Spec

-----------------------------------------------------------------------------
(* Replicas.                                                                *)

\* A batch is over before one of its leases runs out and before an event that it
\* has put back comes due, which no backoff of zero makes at once.  The lease may
\* be longer than every backoff, and ids may be reused.
BatchesEndInTime ==
    Outlasts = {} /\ \A attempts \in Nat : 0 \notin BackoffDelays(attempts)

\* An operator replays an event that a batch still at work has parked.
EarlyReplay ==
    \E ids \in SUBSET Id :
        /\ ReplayEvents(ids)
        /\ \E i \in Inst : \E c \in claimed[i] :
              c.id \in ids /\ rows[c.id].status = "parked"

\* Retention deletes an event that a batch still at work has just delivered.
EarlyDelete ==
    \E t \in StartTime..now :
        /\ PruneBatch(t)
        /\ \E i \in Inst : \E c \in claimed[i] : c.id \in Present(rows) \ Present(rows)'

\* Nobody but the relays moves what a batch at work has claimed.
Intrusion == EarlyReplay \/ EarlyDelete
NoIntrusion == [][~Intrusion]_vars

\* A claimed row is leased to its instance, or it is settled or not yet due.
Leased(i, c) ==
    /\ rows[c.id].status = "delivering"
    /\ rows[c.id].claimedBy = i /\ rows[c.id].leaseUntil = c.lease
Ended(c) ==
    \/ rows[c.id].status \in {"parked", "delivered"}
    \/ rows[c.id].status = "retry" /\ now < rows[c.id].nextAttemptAt

InHand(i) ==
    \A c \in claimed[i] :
        /\ c.lease < Horizon
        /\ now < Horizon => now <= c.lease /\ (Leased(i, c) \/ Ended(c))
Apart == now < Horizon => Separate

LeaseInv ==
    /\ \A i \in Inst : cycleNow[i] <= now /\ InHand(i)
    /\ Apart

\* A finite set of naturals that is not empty has a largest element.
LEMMA FiniteMax ==
    ASSUME NEW S \in SUBSET Nat, IsFiniteSet(S), S # {}
    PROVE  \E m \in S : \A n \in S : n <= m
  <1> DEFINE Above(m) == {n \in S : m <= n}
             Tops == {Above(m) : m \in S}
  <1>1. Tops \subseteq FiniteSubsetsOf(S) /\ Tops # {}
    <2>1. ASSUME NEW m \in S PROVE Above(m) \in SUBSET S /\ IsFiniteSet(Above(m))
      <3>1. Above(m) \in SUBSET S
        OBVIOUS
      <3>2. QED
        BY <3>1, FS_Subset
    <2>2. QED
      BY <2>1 DEF FiniteSubsetsOf
  <1>2. PICK U \in Tops : \A V \in Tops : ~(<<V, U>> \in StrictSubsetOrdering(S))
    BY <1>1, FS_StrictSubsetOrderingWellFounded, WFMin
  <1>3. PICK m \in S : U = Above(m)
    OBVIOUS
  <1>4. ASSUME NEW n \in S, ~(n <= m) PROVE FALSE
    <2>0. n \in Nat /\ m \in Nat /\ m < n
      BY <1>4
    <2>1. Above(n) \subseteq U /\ m \in U /\ m \notin Above(n)
      <3>1. \A k \in S : n <= k => m <= k
        BY <2>0
      <3>2. Above(n) \subseteq Above(m)
        BY <3>1
      <3>3. m \in Above(m) /\ m \notin Above(n)
        BY <2>0
      <3>4. QED
        BY <1>3, <3>2, <3>3
    <2>2. <<Above(n), U>> \in StrictSubsetOrdering(S)
      <3> DEFINE A == Above(n)
      <3>1. A \in SUBSET S /\ U \in SUBSET S /\ A \subseteq U /\ A # U
        BY <1>3, <2>1
      <3> HIDE DEF A
      <3>2. <<A, U>> \in StrictSubsetOrdering(S)
        BY <3>1 DEF StrictSubsetOrdering
      <3>3. QED
        BY <3>2 DEF A
    <2>3. QED
      BY <1>2, <2>2
  <1>5. QED
    BY <1>4

\* retryBatch's attempts are those of an event of the batch.
LEMMA MostAttemptsTyped ==
    ASSUME TypeOK, BatchShape, DistinctClaims, NEW i \in Inst, mapped[i] # {}
    PROVE  MostAttempts(mapped[i]) \in Nat
  <1> DEFINE ids == Ids(mapped[i])
             counts == {c.attempts : c \in mapped[i]}
             f == [id \in ids |-> (CHOOSE c \in mapped[i] : c.id = id).attempts]
  <1>1. /\ mapped[i] \subseteq Claim
        /\ \A c, d \in mapped[i] : c.id = d.id => c = d
    BY DEF TypeOK, BatchTyped, BatchShape, DistinctClaims
  <1>2. ids \subseteq Id /\ counts \subseteq Nat /\ counts # {}
    BY <1>1 DEF Ids, Claim
  <1>3. IsFiniteSet(ids)
    <2>1. IsFiniteSet(Id)
      BY BoundAssumption, FS_Interval DEF Id
    <2>2. ids \in SUBSET Id
      BY <1>2
    <2> HIDE DEF ids
    <2>3. QED
      BY <2>1, <2>2, FS_Subset
  <1>4. \A c \in mapped[i] : c.id \in ids /\ f[c.id] = c.attempts
    BY <1>1 DEF Ids
  <1>5. f \in [ids -> counts]
    BY <1>1 DEF Ids
  <1>6. f \in Surjection(ids, counts)
    BY <1>4, <1>5 DEF Surjection
  <1>7. IsFiniteSet(counts)
    BY <1>3, <1>6, FS_Surjection
  <1>8. \E m \in counts : \A n \in counts : n <= m
    BY <1>2, <1>7, FiniteMax
  <1>9. \E m \in counts : \A c \in mapped[i] : c.attempts <= m
    BY <1>8
  <1>10. MostAttempts(mapped[i]) \in counts
    BY <1>9 DEF MostAttempts
  <1>11. QED
    BY <1>2, <1>10

\* Without zero backoffs a failed attempt is rescheduled to a later time.
LEMMA NextIsLater ==
    ASSUME TypeOK, BatchesEndInTime, now < Horizon, NEW attempts \in Nat,
           NEW next \in NextAttemptAt(attempts)
    PROVE  now < next
  <1>1. PICK d \in BackoffDelays(attempts) : next = Clip(now + d, Horizon)
    BY DEF NextAttemptAt
  <1>2. d \in Nat /\ d # 0
    BY SettingsAssumption DEF BatchesEndInTime, BackoffDelays
  <1>3. now \in Nat /\ Horizon \in Nat
    BY ClockTypes
  <1>4. QED
    BY <1>1, <1>2, <1>3 DEF Clip

\* What the calls that settle rows leave of one row.
LEMMA MarkAfter ==
    ASSUME NEW rs \in Table, NEW ids, NEW id \in Id
    PROVE  /\ \/ MarkParked(rs, ids)[id] = rs[id]
              \/ id \in ids /\ MarkParked(rs, ids)[id].status = "parked"
           /\ \/ MarkDelivered(rs, ids)[id] = rs[id]
              \/ id \in ids /\ MarkDelivered(rs, ids)[id].status = "delivered"
  <1>1. id \in Present(rs) => rs[id] \in Row
    BY RowCases DEF Present
  <1>2. QED
    BY <1>1 DEF MarkParked, MarkDelivered, Row

\* And what markFailed leaves of it.
LEMMA MarkFailedAfter ==
    ASSUME NEW rs \in Table, NEW ids, NEW next, NEW id \in Id
    PROVE  \/ MarkFailed(rs, ids, next)[id] = rs[id]
           \/ /\ id \in ids /\ MarkFailed(rs, ids, next)[id].status = "retry"
              /\ MarkFailed(rs, ids, next)[id].nextAttemptAt = next
  <1>1. id \in Present(rs) => rs[id] \in Row
    BY RowCases DEF Present
  <1>2. QED
    BY <1>1 DEF MarkFailed, Row

\* The clock stands still, no claim is new, and a row under a claim stays as
\* it is, is settled, or is put back for later.
LEMMA LeaseFrame ==
    ASSUME TypeOK, LeaseInv, now' = now,
           \A j \in Inst : cycleNow'[j] <= now /\ claimed'[j] \subseteq claimed[j],
           now < Horizon => \A j \in Inst : \A c \in claimed'[j] :
               rows'[c.id] = rows[c.id] \/ Ended(c)'
    PROVE  LeaseInv'
  <1>1. ASSUME NEW j \in Inst, NEW c \in claimed'[j]
        PROVE  /\ c.lease < Horizon
               /\ now < Horizon => now <= c.lease /\ (Leased(j, c)' \/ Ended(c)')
    <2>1. c \in claimed[j] /\ InHand(j)
      BY <1>1 DEF LeaseInv
    <2>2. now < Horizon => Leased(j, c)' \/ Ended(c)'
      BY <2>1 DEF InHand, Leased, Ended
    <2>3. QED
      BY <2>1, <2>2 DEF InHand
  <1>2. \A j \in Inst : InHand(j)'
    BY <1>1 DEF InHand
  <1>3. Apart'
    BY DEF LeaseInv, Apart, Separate, Ids
  <1>4. QED
    BY <1>2, <1>3 DEF LeaseInv

\* The clock moves past no lease of a batch at work, nor to where an event that
\* the batch has put back comes due.
LEMMA LeaseByTick ==
    ASSUME TypeOK, BatchesEndInTime, LeaseInv, Tick
    PROVE  LeaseInv'
  <1>1. /\ now' = now + 1 /\ now < Horizon /\ now \in Nat
        /\ rows' = rows /\ claimed' = claimed /\ cycleNow' = cycleNow
    BY ClockTypes DEF Tick, storeVars, cycleVars, batchVars
  <1>0. ASSUME NEW i \in Inst, NEW c \in claimed[i]
        PROVE  /\ ~(c.lease < now + 1)
               /\ rows[c.id].status = "retry" => ~(rows[c.id].nextAttemptAt <= now + 1)
    <2>1. Outlasted(i) = {}
      BY DEF Tick, BatchesEndInTime
    <2>2. /\ \A d \in {x \in claimed[i] : x.lease < now + 1} : "lease" \in Outlasted(i)
          /\ \A d \in {x \in claimed[i] : rows[x.id].status = "retry"
                                        /\ rows[x.id].nextAttemptAt <= now + 1} :
                 "retry" \in Outlasted(i)
      BY DEF Outlasted
    <2>3. QED
      BY <2>1, <2>2
  <1>2. \A i \in Inst : claimed[i] \subseteq Claim /\ cycleNow[i] \in Nat
    BY ClockTypes DEF TypeOK, BatchTyped, CycleTyped
  <1>3. ASSUME NEW i \in Inst PROVE InHand(i)'
    <2>1. ASSUME NEW c \in claimed[i]
          PROVE  /\ c.lease < Horizon /\ now + 1 <= c.lease
                 /\ Leased(i, c) \/ Ended(c)
      <3>1. c.lease \in Nat
        BY <1>2 DEF Claim
      <3>2. QED
        BY <1>0, <1>1, <3>1 DEF LeaseInv, InHand
    <2>2. ASSUME NEW c \in claimed[i]
          PROVE  /\ Leased(i, c) => Leased(i, c)'
                 /\ Ended(c) => Ended(c)'
      <3>1. rows[c.id].status = "retry" => rows[c.id].nextAttemptAt \in Nat
        <4>1. c.id \in Id
          BY <1>2 DEF Claim
        <4>2. QED
          BY <4>1, RowCases DEF TypeOK, StoreTyped, Row, NoRow
      <3>2. rows[c.id].status = "retry" => now + 1 < rows[c.id].nextAttemptAt
        BY <1>0, <1>1, <3>1
      <3>3. QED
        BY <1>1, <3>2 DEF Leased, Ended
    <2>3. QED
      BY <1>1, <2>1, <2>2 DEF InHand
  <1>4. \A i \in Inst : cycleNow'[i] <= now'
    BY <1>1, <1>2 DEF LeaseInv
  <1>5. Apart'
    BY <1>1 DEF LeaseInv, Apart, Separate, Ids
  <1>6. QED
    BY <1>3, <1>4, <1>5 DEF LeaseInv

\* Ingest, retention and operators leave claimed rows alone: a new event gets
\* the id of no row that is there, and neither retention nor replay takes one
\* of a batch at work.
LEMMA LeaseByEnvironment ==
    ASSUME BatchesEndInTime, TypeOK, FreshIds, LeaseInv, Environment, ~Intrusion
    PROVE  LeaseInv'
  <1>0. TypeOK
    OBVIOUS
  <1>1. CASE Tick
    BY <1>0, <1>1, LeaseByTick
  <1>2. ASSUME now' = now, claimed' = claimed, cycleNow' = cycleNow,
               now < Horizon => \A j \in Inst : \A c \in claimed[j] :
                   rows'[c.id] = rows[c.id] \/ Ended(c)'
        PROVE  LeaseInv'
    BY <1>0, <1>2, LeaseFrame DEF LeaseInv
  <1>3. ASSUME NEW j \in Inst, NEW c \in claimed[j]
        PROVE  /\ c.id \in Id
               /\ now < Horizon => c.id \in Present(rows)
    BY DEF TypeOK, BatchTyped, Claim, LeaseInv, InHand, Leased, Ended, Present
  <1>4. ASSUME NEW k \in Key, NEW r \in Route,
               NEW status \in {"pending", "dropped_by_filter"}, IngestInsert(k, r, status)
        PROVE  LeaseInv'
    <2>1. PICK new \in Id \ Present(rows) : \E x \in Route :
              rows' = Insert(rows, new, NewRow(k, x, status, now))
      BY <1>4, InsertShape DEF Inserted
    <2>2. \A id \in Present(rows) : rows'[id] = rows[id]
      BY <2>1 DEF Insert, Present, TypeOK, StoreTyped, Table
    <2>3. now' = now /\ claimed' = claimed /\ cycleNow' = cycleNow
      BY <1>4 DEF IngestInsert, batchVars, cycleVars
    <2>4. QED
      BY <1>2, <1>3, <2>2, <2>3
  <1>5. ASSUME NEW t \in StartTime..now, PruneBatch(t)
        PROVE  LeaseInv'
    <2>1. \A id \in Id : /\ rows[id].status \notin TERMINAL => rows'[id] = rows[id]
                         /\ \/ rows'[id] = NoRow
                            \/ rows'[id].status = rows[id].status
      BY <1>0, <1>5, PruneFacts
    <2>2. now' = now /\ claimed' = claimed /\ cycleNow' = cycleNow
      BY <1>5 DEF PruneBatch, batchVars, cycleVars
    <2>3. ASSUME NEW j \in Inst, NEW c \in claimed[j], now < Horizon
          PROVE  rows'[c.id] = rows[c.id] \/ Ended(c)'
      <3>1. Leased(j, c) \/ Ended(c)
        BY <2>3 DEF LeaseInv, InHand
      <3>2. CASE rows[c.id].status = "delivered"
        <4>1. c.id \in Present(rows)'
          BY <1>3, <1>5, <2>3 DEF Intrusion, EarlyDelete
        <4>2. rows'[c.id].status = "delivered"
          BY <1>3, <2>1, <3>2, <4>1 DEF Present, NoRow
        <4>3. QED
          BY <4>2 DEF Ended
      <3>3. CASE rows[c.id].status # "delivered"
        BY <1>3, <2>1, <3>1, <3>3 DEF Leased, Ended, TERMINAL
      <3>4. QED
        BY <3>2, <3>3
    <2>4. QED
      BY <1>0, <2>2, <2>3, LeaseFrame DEF LeaseInv
  <1>6. ASSUME NEW ids \in SUBSET Id, ReplayEvents(ids)
        PROVE  LeaseInv'
    <2>1. \A j \in Inst : \A c \in claimed[j] :
              c.id \notin ids \/ rows[c.id].status # "parked"
      BY <1>6 DEF Intrusion, EarlyReplay
    <2>2. /\ \A x \in Id : x \notin ids \/ rows[x].status # "parked" => rows'[x] = rows[x]
          /\ now' = now /\ claimed' = claimed /\ cycleNow' = cycleNow
      BY <1>6 DEF ReplayEvents, Operate, Replay, WithStatus, batchVars, cycleVars
    <2>3. QED
      BY <1>2, <1>3, <2>1, <2>2
  <1>7. ASSUME \/ \E value \in {"none", "pause", "panic"} : SetKillswitch(value)
               \/ \E r \in Route : SetRoutePaused(r) \/ ReplaceRoutes(r)
        PROVE  LeaseInv'
    BY <1>2, <1>7 DEF SetKillswitch, SetRoutePaused, ReplaceRoutes, Operate, batchVars, cycleVars
  <1>8. CASE Operator
    <2>1. CASE \E ids \in SUBSET Id : ReplayEvents(ids)
      BY <2>1, <1>6
    <2>2. CASE \/ \E value \in {"none", "pause", "panic"} : SetKillswitch(value)
               \/ \E r \in Route : SetRoutePaused(r) \/ ReplaceRoutes(r)
      BY <2>2, <1>7
    <2>3. \A id \in Id : {id} \in SUBSET Id
      OBVIOUS
    <2>4. QED
      BY <1>8, <2>1, <2>2, <2>3 DEF Operator
  <1>9. CASE \E k \in Key, r \in Route, status \in {"pending", "dropped_by_filter"} :
                IngestInsert(k, r, status)
    BY <1>4, <1>9
  <1>10. CASE \E t \in StartTime..now : PruneBatch(t)
    BY <1>5, <1>10
  <1>11. QED
    BY <1>1, <1>8, <1>9, <1>10 DEF Environment

\* What a batch at work has claimed cannot be claimed again,
LEMMA NotClaimable ==
    ASSUME TypeOK, LeaseInv, now < Horizon, NEW i \in Inst, NEW j \in Inst,
           NEW c \in claimed[j]
    PROVE  c.id \notin DueRows(rows, cycleNow[i])
  <1>1. /\ Leased(j, c) \/ Ended(c)
        /\ now <= c.lease /\ c.id \in Id /\ c.lease \in Nat
    BY DEF LeaseInv, InHand, TypeOK, BatchTyped, Claim
  <1>2. cycleNow[i] \in Nat /\ cycleNow[i] <= now /\ now \in Nat
    BY ClockTypes DEF TypeOK, CycleTyped, LeaseInv
  <1>3. ASSUME rows[c.id].status \in DUE, rows[c.id].nextAttemptAt <= cycleNow[i] PROVE FALSE
    <2>1. rows[c.id].status = "retry" /\ now < rows[c.id].nextAttemptAt
      BY <1>1, <1>3 DEF Leased, Ended, DUE
    <2>2. rows[c.id].nextAttemptAt \in Nat
      BY <1>1, <2>1, RowCases DEF TypeOK, StoreTyped, Row
    <2>3. QED
      BY <1>1, <1>2, <1>3, <2>1, <2>2
  <1>4. QED
    BY <1>3 DEF DueRows

\* nor recovered by another instance: the lease has not run out, and only its
\* owner reclaims by name.
LEMMA NotRecoverable ==
    ASSUME TypeOK, LeaseInv, now < Horizon, NEW i \in Inst, NEW j \in Inst, j # i,
           NEW c \in claimed[j]
    PROVE  c.id \notin Recoverable(rows, cycleNow[i], IF reclaim[i] THEN i ELSE None)
  <1>1. /\ Leased(j, c) \/ Ended(c)
        /\ now <= c.lease /\ c.lease \in Nat
    BY DEF LeaseInv, InHand, TypeOK, BatchTyped, Claim
  <1>2. cycleNow[i] \in Nat /\ cycleNow[i] <= now /\ now \in Nat
    BY ClockTypes DEF TypeOK, CycleTyped, LeaseInv
  <1>3. QED
    BY <1>1, <1>2, NoneAssumption DEF Recoverable, WithStatus, Leased, Ended

\* Whatever an instance does, a row another batch at work has claimed stays as
\* it is, unless it waits for a retry past its window.
LEMMA Spared ==
    ASSUME TypeOK, BatchShape, LeaseInv, now < Horizon, NEW i \in Inst, NEW j \in Inst, j # i,
           NEW c \in claimed[j], CycleStep(i) \/ StoreThrows(i) \/ Lifecycle(i)
    PROVE  \/ rows'[c.id] = rows[c.id]
           \/ /\ rows[c.id].status = "retry" /\ rows'[c.id].status = "parked"
              /\ rows'[c.id].key = rows[c.id].key
  <1>1. /\ c.id \in Id /\ rows \in Table /\ c.id \notin Ids(claimed[i])
        /\ todo[i] \union mapped[i] \subseteq claimed[i] /\ bad[i] \subseteq mapped[i]
    BY DEF TypeOK, BatchTyped, StoreTyped, Claim, LeaseInv, Apart, Separate, Ids, BatchShape
  <1>2. CASE Recover(i)
    BY <1>1, <1>2, NotRecoverable DEF Recover, RecoverDelivering
  <1>3. CASE Park(i)
    <2>1. rows' = ParkExpired(rows, cycleNow[i], ParkAfterMs)
      BY <1>3 DEF Park
    <2>2. CASE c.id \notin Expired(rows, cycleNow[i], ParkAfterMs)
      BY <1>1, <2>1, <2>2 DEF ParkExpired
    <2>3. CASE c.id \in Expired(rows, cycleNow[i], ParkAfterMs)
      <3>1. rows[c.id] \in Row /\ rows[c.id].status = "retry"
        BY <1>1, <2>3, RowCases DEF Expired, WithStatus
      <3>2. QED
        BY <1>1, <2>1, <2>3, <3>1 DEF ParkExpired, Row
    <2>4. QED
      BY <2>2, <2>3
  <1>4. CASE ClaimBatch(i)
    <2>1. c.id \notin Claimable(rows, route[i], cycleNow[i], BatchMax)
      BY NotClaimable DEF Claimable
    <2>2. QED
      BY <1>1, <1>4, <2>1 DEF ClaimBatch, ClaimDue
  <1>5. CASE \E d \in todo[i] : ParkUnmappable(i, d) \/ RetryOne(i, d)
    <2>1. \A d \in todo[i] : c.id # d.id
      BY <1>1 DEF Ids
    <2>2. QED
      BY <1>1, <1>5, <2>1 DEF ParkUnmappable, RetryOne, MarkParked, MarkFailed
  <1>6. CASE SettlePark(i) \/ SettleOk(i) \/ ParkBatch(i) \/ RetryBatch(i)
    <2>1. c.id \notin Ids(mapped[i]) /\ c.id \notin Ids(bad[i]) /\ c.id \notin Ids(mapped[i] \ bad[i])
      BY <1>1 DEF Ids
    <2>2. QED
      BY <1>1, <1>6, <2>1 DEF SettlePark, SettleOk, ParkBatch, RetryBatch, MarkParked,
         MarkDelivered, MarkFailed
  <1>7. CASE ReleaseLeftover(i)
    BY <1>1, <1>7 DEF ReleaseLeftover, ReleaseDelivering, MarkFailed
  <1>8. CASE StoreThrows(i) \/ Lifecycle(i)
    BY <1>8 DEF StoreThrows, SweepThrows, CycleThrows, SettleThrows, BatchThrows,
       ReleaseThrows, Throw, Fault, Lifecycle, Crash, Stop, Start, Outage, storeVars
  <1>9. CASE BeginCycle(i) \/ CheckKillswitch(i) \/ ListDue(i) \/ FinishCycle(i)
             \/ \E r \in Route : NextRoute(i, r)
    BY <1>9 DEF BeginCycle, CheckKillswitch, ListDue, FinishCycle, NextRoute, Routing
  <1>10. CASE \/ Send(i) \/ PollAgain(i) \/ PollGivesUp(i)
              \/ \E failing \in SUBSET mapped[i], byIndex \in BOOLEAN :
                    PollResults(i, failing, byIndex)
              \/ \E d \in todo[i] : MapEvent(i, d) \/ Undecoded(i, d)
    BY <1>10 DEF Send, PostAccepted, PostTransient, PostUnreadable, PostRefused,
       PollAgain, PollGivesUp, PollResults, Settle, MapEvent, Undecoded
  <1>11. QED
    BY <1>2, <1>3, <1>4, <1>5, <1>6, <1>7, <1>8, <1>9, <1>10 DEF CycleStep,
       Housekeeping, Routes, MapBatch, SettleBatch

\* The sweep of an instance leaves alone what others hold, and reclaims its own
\* before any batch.
LEMMA LeaseBySweep ==
    ASSUME TypeOK, BatchShape, LeaseInv, NEW i \in Inst, Recover(i) \/ Park(i)
    PROVE  LeaseInv'
  <1>1. /\ now' = now /\ claimed' = claimed /\ cycleNow' = cycleNow /\ claimed[i] = {}
    BY DEF Recover, Park, Sweeping, Cycling, batchVars, BatchShape, At
  <1>2. ASSUME NEW j \in Inst, NEW c \in claimed[j], now < Horizon
        PROVE  rows'[c.id] = rows[c.id] \/ Ended(c)'
    BY <1>1, <1>2, Spared DEF Ended, CycleStep, Housekeeping
  <1>3. QED
    BY <1>1, <1>2, LeaseFrame DEF LeaseInv

\* A claim takes nothing that another batch at work has claimed, and its lease
\* starts now.
LEMMA LeaseByClaim ==
    ASSUME TypeOK, BatchShape, LeaseInv, NEW i \in Inst, ClaimBatch(i)
    PROVE  LeaseInv'
  <1> DEFINE ids == Claimable(rows, route[i], cycleNow[i], BatchMax)
             until == Clip(now + LeaseMs, Horizon - 1)
             claims == {[id |-> id, key |-> rows[id].key,
                         attempts |-> rows[id].attempts,
                         payload |-> rows[id].payload, lease |-> until] : id \in ids}
  <1>1. /\ rows' = ClaimDue(rows, ids, cycleNow[i], i, until)
        /\ claimed' = [claimed EXCEPT ![i] = claims]
        /\ now' = now /\ cycleNow' = cycleNow
    BY DEF ClaimBatch, Cycling
  <1>2. ids \subseteq Id /\ \A id \in ids : rows[id].status \in DUE /\ rows[id].nextAttemptAt <= cycleNow[i]
    BY DEF Claimable, DueRows
  <1>3. \A c \in claims : c.id \in ids /\ c.lease = until
    OBVIOUS
  <1>4. /\ now \in Nat /\ LeaseMs \in Nat /\ Horizon \in Nat /\ Horizon - 1 \in Nat
        /\ cycleNow[i] \in Nat /\ cycleNow[i] <= now
    BY ClockTypes, SettingsAssumption DEF TypeOK, CycleTyped, LeaseInv
  <1>5. until < Horizon /\ until <= now + LeaseMs /\ (now < Horizon => now <= until)
    BY <1>4 DEF Clip
  <1>6. \A id \in ids : /\ rows'[id].status = "delivering" /\ rows'[id].claimedBy = i
                        /\ rows'[id].leaseUntil = until
    <2> HIDE DEF ids, until
    <2>1. \A id \in ids : rows[id] \in Row
      BY <1>2, RowCases DEF TypeOK, StoreTyped, DUE
    <2>2. QED
      BY <1>1, <1>2, <2>1 DEF ClaimDue, Row
  <1>7. \A id \in Id \ ids : rows'[id] = rows[id]
    BY <1>1 DEF ClaimDue
  <1> HIDE DEF ids, until, claims
  <1>8. ASSUME NEW j \in Inst, j # i
        PROVE  /\ InHand(j)'
               /\ now < Horizon => Ids(claimed[j]) \intersect ids = {}
    <2>1. ASSUME NEW c \in claimed[j], now < Horizon PROVE c.id \in Id \ ids
      BY <2>1, NotClaimable DEF ids, Claimable, TypeOK, BatchTyped, Claim
    <2>2. claimed'[j] = claimed[j]
      BY <1>1, <1>8
    <2>3. ASSUME NEW c \in claimed[j], now < Horizon
          PROVE  Leased(j, c)' \/ Ended(c)'
      BY <1>1, <1>7, <2>1, <2>3 DEF LeaseInv, InHand, Leased, Ended
    <2>4. InHand(j)'
      BY <1>1, <2>2, <2>3 DEF LeaseInv, InHand
    <2>5. QED
      BY <2>1, <2>4 DEF Ids
  <1>9. claimed'[i] = claims
    BY <1>1 DEF TypeOK, BatchTyped
  <1>10. InHand(i)'
    BY <1>1, <1>3, <1>5, <1>6, <1>9 DEF InHand, Leased
  <1>11. Apart'
    <2>1. \A j \in Inst : j # i => claimed'[j] = claimed[j]
      BY <1>1
    <2>2. Ids(claimed'[i]) \subseteq ids
      BY <1>3, <1>9 DEF Ids
    <2>3. QED
      BY <1>1, <1>8, <2>1, <2>2 DEF LeaseInv, Apart, Separate, Ids
  <1>12. \A j \in Inst : InHand(j)'
    BY <1>8, <1>10
  <1>13. QED
    BY <1>1, <1>11, <1>12 DEF LeaseInv

\* What a batch writes, it writes to rows of its own claims.
LEMMA OwnCall ==
    ASSUME TypeOK, LeaseInv, NEW i \in Inst, NEW ids \in SUBSET Ids(claimed[i]),
           now < Horizon,
           \/ rows' = MarkParked(rows, ids) \/ rows' = MarkDelivered(rows, ids)
           \/ \E next : now < next /\ rows' = MarkFailed(rows, ids, next),
           now' = now
    PROVE  \A j \in Inst : \A c \in claimed[j] : rows'[c.id] = rows[c.id] \/ Ended(c)'
  <1>1. ASSUME NEW j \in Inst, NEW c \in claimed[j]
        PROVE  rows'[c.id] = rows[c.id] \/ Ended(c)'
    <2>1. c.id \in Id /\ rows \in Table
      BY DEF TypeOK, BatchTyped, Claim, StoreTyped
    <2>2. j # i => c.id \notin ids
      BY DEF LeaseInv, Apart, Separate, Ids
    <2>3. CASE rows' = MarkParked(rows, ids)
      BY <2>1, <2>3, MarkAfter DEF Ended
    <2>4. CASE rows' = MarkDelivered(rows, ids)
      <3>1. rows'[c.id] = rows[c.id] \/ rows'[c.id].status = "delivered"
        BY <2>1, <2>4, MarkAfter
      <3>2. QED
        BY <3>1 DEF Ended
    <2>5. ASSUME NEW next, now < next, rows' = MarkFailed(rows, ids, next)
          PROVE  rows'[c.id] = rows[c.id] \/ Ended(c)'
      <3>1. \/ MarkFailed(rows, ids, next)[c.id] = rows[c.id]
            \/ /\ c.id \in ids /\ MarkFailed(rows, ids, next)[c.id].status = "retry"
               /\ MarkFailed(rows, ids, next)[c.id].nextAttemptAt = next
        BY <2>1, MarkFailedAfter
      <3>2. QED
        BY <2>2, <2>5, <3>1 DEF Ended
    <2>6. QED
      BY <2>3, <2>4, <2>5
  <1>2. QED
    BY <1>1

\* The map loop and the settling of a batch.
LEMMA LeaseByBatch ==
    ASSUME BatchesEndInTime, TypeOK, BatchShape, DistinctClaims, LeaseInv, NEW i \in Inst,
           \/ \E c \in todo[i] : ParkUnmappable(i, c) \/ RetryOne(i, c)
           \/ SettlePark(i) \/ SettleOk(i) \/ ParkBatch(i) \/ RetryBatch(i)
    PROVE  LeaseInv'
  <1>0. TypeOK /\ BatchShape
    OBVIOUS
  <1>1. now' = now /\ claimed' = claimed /\ cycleNow' = cycleNow
    BY DEF ParkUnmappable, RetryOne, Advance, SettlePark, SettleOk, ParkBatch, RetryBatch,
       StoreCall, Batching, Cycling
  <1>2. /\ todo[i] \union mapped[i] \subseteq claimed[i] /\ bad[i] \subseteq mapped[i]
        /\ claimed[i] \subseteq Claim
    BY <1>0 DEF BatchShape, TypeOK, BatchTyped
  <1>3. ASSUME now < Horizon, NEW attempts \in Nat, NEW next \in NextAttemptAt(attempts)
        PROVE  now < next
    BY <1>0, <1>3, NextIsLater
  <1>4. ASSUME now < Horizon
        PROVE  \A j \in Inst : \A c \in claimed[j] : rows'[c.id] = rows[c.id] \/ Ended(c)'
    <2>1. ASSUME NEW c \in todo[i], ParkUnmappable(i, c) \/ RetryOne(i, c)
          PROVE  \A j \in Inst : \A d \in claimed[j] : rows'[d.id] = rows[d.id] \/ Ended(d)'
      <3>1. {c.id} \in SUBSET Ids(claimed[i]) /\ c.attempts \in Nat
        BY <1>2 DEF Ids, Claim
      <3>2. CASE ParkUnmappable(i, c)
        <4>1. rows' = MarkParked(rows, {c.id})
          BY <3>2 DEF ParkUnmappable
        <4>2. QED
          BY <1>0, <1>1, <1>4, <3>1, <4>1, OwnCall
      <3>3. CASE RetryOne(i, c)
        <4>1. PICK next \in NextAttemptAt(c.attempts) : rows' = MarkFailed(rows, {c.id}, next)
          BY <3>3 DEF RetryOne
        <4>2. now < next
          BY <1>3, <1>4, <3>1
        <4>3. QED
          BY <1>0, <1>1, <1>4, <3>1, <4>1, <4>2, OwnCall
      <3>4. QED
        BY <2>1, <3>2, <3>3
    <2>2. /\ Ids(bad[i]) \in SUBSET Ids(claimed[i])
          /\ Ids(mapped[i]) \in SUBSET Ids(claimed[i])
          /\ Ids(mapped[i] \ bad[i]) \in SUBSET Ids(claimed[i])
      BY <1>2 DEF Ids
    <2>3. CASE SettlePark(i) \/ SettleOk(i) \/ ParkBatch(i)
      <3>1. \/ rows' = MarkParked(rows, Ids(bad[i]))
            \/ rows' = MarkParked(rows, Ids(mapped[i]))
            \/ rows' = MarkDelivered(rows, Ids(mapped[i] \ bad[i]))
        BY <2>3 DEF SettlePark, SettleOk, ParkBatch
      <3>2. QED
        BY <1>0, <1>1, <1>4, <2>2, <3>1, OwnCall
    <2>4. CASE RetryBatch(i)
      <3>1. PICK next \in NextAttemptAt(MostAttempts(mapped[i])) :
                rows' = MarkFailed(rows, Ids(mapped[i]), next)
        BY <2>4 DEF RetryBatch
      <3>2. CASE mapped[i] = {}
        <4>1. \A id \in Id : rows'[id] = rows[id]
          BY <3>1, <3>2 DEF MarkFailed, Ids
        <4>2. \A j \in Inst : \A c \in claimed[j] : c.id \in Id
          BY <1>0 DEF TypeOK, BatchTyped, Claim
        <4>3. QED
          BY <4>1, <4>2
      <3>3. CASE mapped[i] # {}
        <4>1. MostAttempts(mapped[i]) \in Nat
          BY <1>0, <3>3, MostAttemptsTyped
        <4>2. now < next
          BY <1>3, <1>4, <4>1
        <4>3. QED
          BY <1>0, <1>1, <1>4, <2>2, <3>1, <4>2, OwnCall
      <3>4. QED
        BY <3>2, <3>3
    <2>5. QED
      BY <2>1, <2>3, <2>4
  <1>5. QED
    BY <1>0, <1>1, <1>4, LeaseFrame DEF LeaseInv

\* One step, no intrusion: leases keep batches apart.
LEMMA LeaseStep ==
    ASSUME BatchesEndInTime, TypeOK, BatchShape, FreshIds, DistinctClaims, LeaseInv,
           [Next]_vars, ~Intrusion
    PROVE  LeaseInv'
  <1>0. TypeOK /\ BatchShape
    OBVIOUS
  <1>1. /\ now \in Nat /\ 0 <= now /\ \A j \in Inst : cycleNow[j] <= now
        /\ cycleNow \in [Inst -> 0..Horizon] /\ claimed \in [Inst -> SUBSET Claim]
    <2>1. now \in Nat
      BY <1>0, ClockTypes
    <2>2. QED
      BY <1>0, <2>1 DEF LeaseInv, TypeOK, CycleTyped, BatchTyped
  <1>2. ASSUME now' = now, rows' = rows,
               \A j \in Inst : cycleNow'[j] <= now /\ claimed'[j] \subseteq claimed[j]
        PROVE  LeaseInv'
    BY <1>0, <1>2, LeaseFrame
  <1>3. CASE UNCHANGED vars
    BY <1>1, <1>2, <1>3 DEF vars, storeVars, cycleVars, batchVars
  <1>4. ASSUME NEW i \in Inst, Lifecycle(i)
        PROVE  LeaseInv'
    BY <1>1, <1>2, <1>4 DEF Lifecycle, Crash, Stop, Start, Outage, EndCycle, DropBatch,
       storeVars, cycleVars, batchVars
  <1>5. ASSUME NEW i \in Inst, SweepThrows(i) \/ CycleThrows(i) \/ SettleThrows(i)
               \/ BatchThrows(i) \/ ReleaseThrows(i)
        PROVE  LeaseInv'
    BY <1>1, <1>2, <1>5 DEF SweepThrows, CycleThrows, SettleThrows, BatchThrows,
       ReleaseThrows, AfterRelease, DropBatch, Throw, Fault, EndCycle, Cycling, batchVars
  <1>6. ASSUME NEW i \in Inst, BeginCycle(i) \/ CheckKillswitch(i)
        PROVE  LeaseInv'
    <2>1. \A j \in Inst : cycleNow'[j] \in {cycleNow[j], now, 0}
      BY <1>1, <1>6 DEF BeginCycle, CheckKillswitch, EndCycle
    <2>2. now' = now /\ rows' = rows /\ claimed' = claimed /\ now \in Nat
      BY <1>0, <1>6, ClockTypes DEF BeginCycle, CheckKillswitch, Sweeping, Routing, Cycling, batchVars
    <2>3. \A j \in Inst : cycleNow'[j] <= now
      BY <1>1, <2>1, <2>2
    <2>4. QED
      BY <1>2, <2>2, <2>3
  <1>7. ASSUME NEW i \in Inst, ListDue(i) \/ FinishCycle(i) \/ \E r \in Route : NextRoute(i, r)
        PROVE  LeaseInv'
    BY <1>1, <1>2, <1>7 DEF ListDue, FinishCycle, NextRoute, EndCycle, Routing, Cycling, batchVars
  <1>8. ASSUME NEW i \in Inst,
               \/ Send(i) \/ PollAgain(i) \/ PollGivesUp(i)
               \/ \E failing \in SUBSET mapped[i], byIndex \in BOOLEAN :
                     PollResults(i, failing, byIndex)
               \/ \E c \in todo[i] : MapEvent(i, c) \/ Undecoded(i, c)
        PROVE  LeaseInv'
    BY <1>1, <1>2, <1>8 DEF Send, PostAccepted, PostTransient, PostUnreadable, PostRefused,
       PollAgain, PollGivesUp, PollResults, Settle, MapEvent, Advance, Undecoded,
       Batching, Cycling
  <1>9. ASSUME NEW i \in Inst, ReleaseLeftover(i)
        PROVE  LeaseInv'
    <2>1. /\ rows' = ReleaseDelivering(rows, Ids(claimed[i]), now)
          /\ claimed' = [claimed EXCEPT ![i] = {}] /\ now' = now
          /\ \A j \in Inst : cycleNow'[j] \in {cycleNow[j], 0}
      BY <1>1, <1>9 DEF ReleaseLeftover, AfterRelease, DropBatch, EndCycle, Cycling
    <2>2. \A id \in Id : id \notin Ids(claimed[i]) => rows'[id] = rows[id]
      BY <2>1 DEF ReleaseDelivering, MarkFailed
    <2>3. ASSUME now < Horizon, NEW j \in Inst, NEW c \in claimed'[j]
          PROVE  rows'[c.id] = rows[c.id]
      <3>1. j # i /\ c \in claimed[j] /\ c.id \in Id
        BY <1>1, <2>1, <2>3 DEF Claim
      <3>2. c.id \notin Ids(claimed[i])
        BY <2>3, <3>1 DEF LeaseInv, Apart, Separate, Ids
      <3>3. QED
        BY <2>2, <3>1, <3>2
    <2>4. \A j \in Inst : cycleNow'[j] <= now /\ claimed'[j] \subseteq claimed[j]
      BY <1>1, <2>1
    <2>5. QED
      BY <1>0, <2>1, <2>3, <2>4, LeaseFrame
  <1>10. CASE Environment
    BY <1>10, LeaseByEnvironment
  <1>11. ASSUME NEW i \in Inst, Recover(i) \/ Park(i) \/ ClaimBatch(i)
        PROVE  LeaseInv'
    BY <1>0, <1>11, LeaseBySweep, LeaseByClaim
  <1>12. ASSUME NEW i \in Inst, CycleStep(i) \/ StoreThrows(i)
         PROVE  LeaseInv'
    BY <1>5, <1>6, <1>7, <1>8, <1>9, <1>11, <1>12, LeaseByBatch DEF CycleStep, StoreThrows,
       Housekeeping, Routes, MapBatch, SettleBatch
  <1>13. QED
    BY <1>3, <1>4, <1>10, <1>12 DEF Next

\* What keeps replicas apart holds throughout.
LEMMA LeaseInvariant ==
    BatchesEndInTime =>
        (Spec /\ NoIntrusion => [](TypeOK /\ BatchShape /\ DistinctClaims /\ LeaseInv))
  <1> SUFFICES ASSUME BatchesEndInTime
               PROVE  Spec /\ NoIntrusion =>
                          [](TypeOK /\ BatchShape /\ DistinctClaims /\ LeaseInv)
    OBVIOUS
  <1> DEFINE Base == TypeOK /\ BatchShape /\ FreshIds
  <1>1. Init => DistinctClaims /\ LeaseInv
    BY ClockAssumption DEF Init, DistinctClaims, LeaseInv, InHand, Apart, Separate, Ids
  <1>2. ASSUME Base, DistinctClaims, LeaseInv, [Next]_vars, [~Intrusion]_vars
        PROVE  DistinctClaims' /\ LeaseInv'
    <2>1. DistinctClaims'
      BY <1>2, DistinctStep
    <2>2. CASE ~Intrusion
      BY <1>2, <2>1, <2>2, LeaseStep
    <2>3. CASE UNCHANGED vars
      <3>1. now' = now /\ rows' = rows /\ cycleNow' = cycleNow /\ claimed' = claimed
        BY <2>3 DEF vars, storeVars, cycleVars, batchVars
      <3>2. QED
        BY <1>2, <2>1, <3>1, LeaseFrame DEF LeaseInv
    <2>4. QED
      BY <1>2, <2>2, <2>3
  <1>3. Spec => []FreshIds
    <2>1. CASE ReusesIds
      <3>1. FreshIds
        BY <2>1 DEF FreshIds
      <3>2. QED
        BY <3>1, PTL
    <2>2. CASE ReusesIds = FALSE
      <3>1. DeliveryInv => FreshIds
        BY DEF DeliveryInv, FreshIds
      <3>2. Spec => []DeliveryInv
        BY <2>2, DeliveryInvariant
      <3>3. QED
        BY <3>1, <3>2, PTL
    <2>3. ReusesIds \in BOOLEAN
      BY SettingsAssumption
    <2>4. QED
      BY <2>1, <2>2, <2>3
  <1>4. Spec => [](TypeOK /\ BatchShape)
    <2>1. ClaimInv => TypeOK /\ BatchShape
      BY DEF ClaimInv
    <2>2. QED
      BY <2>1, ClaimInvariant, PTL
  <1>5. QED
    BY <1>1, <1>2, <1>3, <1>4, PTL DEF Spec, NoIntrusion

\* While an instance is mapping, sending or settling an event under a lease that
\* has not run out, no other holds it: no sweep, claim, retry or release of a
\* replica takes it away, whatever the lease and the backoffs are and whether ids
\* are reused, as long as batches end in time and neither an operator nor
\* retention takes an event out of a batch at work.
THEOREM LeaseExcludes ==
    BatchesEndInTime => (Spec /\ NoIntrusion => []LeaseIsExclusive)
  <1> SUFFICES ASSUME BatchesEndInTime PROVE Spec /\ NoIntrusion => []LeaseIsExclusive
    OBVIOUS
  <1>1. ASSUME TypeOK, BatchShape, LeaseInv PROVE LeaseIsExclusive
    <2>1. ASSUME NEW i \in Inst, NEW j \in Inst, NEW c \in Holding(i), NEW d \in Holding(j),
                 i # j, c.id = d.id
          PROVE  c.lease < now \/ d.lease < now
      <3>1. c \in claimed[i] /\ d \in claimed[j] /\ c \in Claim
        BY <1>1 DEF Holding, BatchShape, TypeOK, BatchTyped
      <3>2. ~(now < Horizon)
        BY <1>1, <2>1, <3>1 DEF LeaseInv, Apart, Separate, Ids
      <3>3. now = Horizon
        <4>1. now \in 0..Horizon /\ Horizon \in Nat
          BY <1>1, ClockTypes
        <4>2. QED
          BY <3>2, <4>1
      <3>4. c.lease < Horizon
        BY <1>1, <3>1 DEF LeaseInv, InHand
      <3>5. QED
        BY <3>3, <3>4
    <2>2. QED
      BY <2>1 DEF LeaseIsExclusive
  <1>2. QED
    BY <1>1, LeaseInvariant, PTL

\* What replicas map, send and settle is held throughout.
LEMMA ReplicaHeldStep ==
    ASSUME HeldInv, LeaseInv, now < Horizon, [Next]_vars
    PROVE  HeldBatch'
  <1> USE DEF HeldInv
  <1>1. CASE Environment
    BY <1>1, HeldByEnvironment
  <1>2. CASE UNCHANGED vars
    BY <1>2, HeldFrame DEF vars, storeVars, cycleVars, batchVars
  <1>3. ASSUME NEW i \in Inst, CycleStep(i) \/ StoreThrows(i) \/ Lifecycle(i), NEW j \in Inst
        PROVE  HeldBy(j)'
    <2>1. CASE j = i
      BY <1>3, <2>1, HeldByOwner
    <2>2. CASE j # i
      <3>1. /\ pc'[j] = pc[j] /\ todo'[j] = todo[j]
            /\ mapped'[j] = mapped[j] /\ bad'[j] = bad[j]
        BY <1>3, <2>2, OthersStand
      <3>2. ASSUME NEW c \in todo[j] \union mapped[j]
            PROVE  /\ HeldRow(c) => HeldRow(c)'
                   /\ LiveRow(c) => LiveRow(c)'
        <4>1. c \in claimed[j]
          BY DEF BatchShape
        <4>2. \/ rows'[c.id] = rows[c.id]
              \/ /\ rows[c.id].status = "retry" /\ rows'[c.id].status = "parked"
                 /\ rows'[c.id].key = rows[c.id].key
          BY <1>3, <2>2, <4>1, Spared
        <4>3. QED
          BY <4>2 DEF HeldRow, LiveRow
      <3>3. HeldBy(j)
        BY DEF HeldBatch
      <3>4. QED
        BY <3>1, <3>2, <3>3 DEF HeldBy
    <2>3. QED
      BY <2>1, <2>2
  <1>4. QED
    BY <1>1, <1>2, <1>3 DEF Next, HeldBatch

\* Before the last instant of the clock, where leases run out at once, the
\* invariant of one relay holds of replicas as well.
LEMMA ReplicaInvariant ==
    BatchesEndInTime =>
        (Spec /\ NoIntrusion /\ [](now < Horizon) => []HeldInv)
  <1> SUFFICES ASSUME BatchesEndInTime
               PROVE  Spec /\ NoIntrusion /\ [](now < Horizon) => []HeldInv
    OBVIOUS
  <1>1. Init => HeldInv
    BY TypeInit DEF HeldInv, Init, BatchShape, BatchWasAccepted, FreshIds,
           RowsNumbered, UniqueKeys, DistinctClaims, HeldBatch, HeldBy, Present,
           EmptyTable, NoRow
  <1>2. ASSUME HeldInv, LeaseInv, now < Horizon, [Next]_vars PROVE HeldInv'
    <2>1. TypeOK' /\ BatchShape' /\ BatchWasAccepted'
      BY <1>2, TypeStep, ShapeStep, AcceptedStep DEF HeldInv
    <2>2. FreshIds' /\ UniqueKeys'
      BY <1>2, StoreSteps, KeysStep DEF HeldInv
    <2>3. DistinctClaims' /\ HeldBatch'
      BY <1>2, DistinctStep, ReplicaHeldStep DEF HeldInv
    <2>4. QED
      BY <2>1, <2>2, <2>3 DEF HeldInv
  <1>3. QED
    BY <1>1, <1>2, LeaseInvariant, PTL DEF Spec

\* Replicas keep the promise of Delivery too, as long as batches end in time and
\* neither an operator nor retention takes an event out of a batch at work.
THEOREM ReplicasKeepPromise ==
    BatchesEndInTime =>
        (Spec /\ NoIntrusion /\ [](now < Horizon) => KeepsPromise)
  <1> SUFFICES ASSUME BatchesEndInTime
               PROVE  Spec /\ NoIntrusion /\ [](now < Horizon) => KeepsPromise
    OBVIOUS
  <1>1. Init => Promise!Init
    BY PromiseInit
  <1>2. ASSUME HeldInv, HeldInv', [Next]_vars PROVE [Promise!Next]_(Promise!vars)
    BY <1>2, StoreSteps, PromiseKept DEF HeldInv
  <1>3. QED
    BY <1>1, <1>2, ReplicaInvariant, PTL DEF Spec, KeepsPromise, Promise!Spec

\* Between replicas under the same conditions a delivery is final: no late
\* write of another replica's batch takes it back.
THEOREM ReplicasDeliverForGood ==
    BatchesEndInTime =>
        (Spec /\ NoIntrusion /\ [](now < Horizon) => DeliveredIsFinal)
  <1> SUFFICES ASSUME BatchesEndInTime
               PROVE  Spec /\ NoIntrusion /\ [](now < Horizon) => DeliveredIsFinal
    OBVIOUS
  <1> DEFINE Final == \A id \in WithStatus(rows, {"delivered"}) :
                          rows'[id].status \in {"delivered", "absent"}
  <1>1. ASSUME HeldInv, [Next]_vars PROVE Final
    BY <1>1, StoreSteps, FinalStep DEF HeldInv
  <1>2. HeldInv /\ [Next]_vars => [Final]_vars
    BY <1>1
  <1>3. QED
    BY <1>2, ReplicaInvariant, PTL DEF Spec, DeliveredIsFinal

\* ... and what was reported to one replica as failed is recorded as delivered by
\* none.
THEOREM ReplicasHeedRefusals ==
    BatchesEndInTime /\ OwnNames =>
        (Spec /\ NoIntrusion /\ [](now < Horizon) => []RefusalIsHeeded)
  <1> SUFFICES ASSUME BatchesEndInTime, OwnNames
               PROVE  Spec /\ NoIntrusion /\ [](now < Horizon) => []RefusalIsHeeded
    OBVIOUS
  <1>1. Init => ToldIsBad /\ RefusalIsHeeded
    BY DEF Init, ToldIsBad, ToldFor, RefusalIsHeeded, WithStatus, EmptyTable, NoRow
  <1>2. ASSUME HeldInv, LeaseInv, now < Horizon, ToldIsBad, RefusalIsHeeded, [Next]_vars
        PROVE  ToldIsBad' /\ RefusalIsHeeded'
    <2>1. Separate
      BY <1>2 DEF LeaseInv, Apart
    <2>2. QED
      BY <1>2, <2>1, ToldBadStep, ToldStep
  <1>3. QED
    BY <1>1, <1>2, ReplicaInvariant, LeaseInvariant, PTL DEF Spec

=============================================================================
