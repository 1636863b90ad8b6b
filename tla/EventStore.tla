------------------------------ MODULE EventStore ------------------------------
(***************************************************************************)
(* The event store contract (packages/core/src/engine/store.ts), as its    *)
(* reference implementation (packages/core/src/engine/memory-store.ts) and *)
(* the one the relay ships (packages/store-sqlite/src/repo/events.ts)      *)
(* realise it.  Every store call is one SQL statement or one transaction,  *)
(* so each is an operator from a table of rows to a table of rows, and the *)
(* modules that use the store turn one call into one atomic step.          *)
(*                                                                         *)
(* A row keeps the columns that decide anything: the two nullable lease    *)
(* columns are None and 0, payload is FALSE once retention has wiped it,   *)
(* delivered_at, bulk_request_id and last_error are only displayed.        *)
(* ISO timestamps compare like the instants they denote: naturals here.    *)
(***************************************************************************)
EXTENDS Naturals, FiniteSets

CONSTANTS
    Key,            \* idempotency keys of inbound events
    Route,          \* route ids
    Inst,           \* instance ids: what claimed_by can hold
    None,           \* SQL NULL
    MaxId,          \* bound: row ids are 1..MaxId
    MaxAttempts     \* bound: the attempts column saturates here

ASSUME NoneAssumption == None \notin Key /\ None \notin Route /\ None \notin Inst
ASSUME BoundAssumption == MaxId \in Nat \ {0} /\ MaxAttempts \in Nat

Id == 1..MaxId

DUE == {"pending", "retry"}
TERMINAL == {"delivered", "dropped_by_filter"}
Status == DUE \union TERMINAL \union {"delivering", "parked"}

\* One row of the events table.
Row == [key : Key, route : Route, status : Status, attempts : Nat,
        receivedAt : Nat, nextAttemptAt : Nat,
        claimedBy : Inst \union {None}, leaseUntil : Nat, payload : BOOLEAN]

\* An id the table does not hold.
NoRow == [key |-> None, route |-> None, status |-> "absent", attempts |-> 0,
          receivedAt |-> 0, nextAttemptAt |-> 0,
          claimedBy |-> None, leaseUntil |-> 0, payload |-> FALSE]

Table == [Id -> Row \union {NoRow}]
EmptyTable == [id \in Id |-> NoRow]

Present(rs) == {id \in Id : rs[id].status # "absent"}
WithStatus(rs, S) == {id \in Id : rs[id].status \in S}

\* attempts + 1; nextAttemptAt in backoff.ts never looks past its own cap.
Incremented(a) == IF a < MaxAttempts THEN a + 1 ELSE a

-----------------------------------------------------------------------------
(* insert: the row that a new event gets.  INSERT ... ON CONFLICT           *)
(* (idempotency_key) DO NOTHING is guarded by KeyTaken at the call.         *)

KeyTaken(rs, k) == \E id \in Present(rs) : rs[id].key = k

NewRow(k, r, status, t) ==
    [key |-> k, route |-> r, status |-> status, attempts |-> 0,
     receivedAt |-> t, nextAttemptAt |-> t,
     claimedBy |-> None, leaseUntil |-> 0, payload |-> TRUE]

\* SQLite gives a new row the id after the largest one in the table: the
\* primary key is not AUTOINCREMENT, so the id of a deleted last row returns.
NextRowid(rs) ==
    IF Present(rs) = {} THEN 1
    ELSE 1 + CHOOSE m \in Present(rs) : \A n \in Present(rs) : n <= m

Insert(rs, id, row) == [rs EXCEPT ![id] = row]

-----------------------------------------------------------------------------
(* Claiming.                                                               *)

\* Mutation: every event that was not delivered is due.
DueUnlessDelivered(rs, t) ==
    {id \in Present(rs) : rs[id].status # "delivered" /\ rs[id].nextAttemptAt <= t}

DueRows(rs, t) ==
    {id \in Id : rs[id].status \in DUE /\ rs[id].nextAttemptAt <= t}

RoutesWithDueEvents(rs, t) == {rs[id].route : id \in DueRows(rs, t)}

\* The rows one claimDue call takes: the route's due rows, oldest first.
Claimable(rs, r, t, limit) ==
    LET due == {id \in DueRows(rs, t) : rs[id].route = r}
    IN  {id \in due : Cardinality({older \in due : older < id}) < limit}

ClaimDue(rs, ids, t, owner, until) ==
    [id \in Id |-> IF id \in ids
                   THEN [rs[id] EXCEPT !.status = "delivering",
                                       !.nextAttemptAt = t,
                                       !.claimedBy = owner,
                                       !.leaseUntil = until]
                   ELSE rs[id]]

-----------------------------------------------------------------------------
(* Settling.  markDelivered, markFailed and markParked look up rows by id   *)
(* alone: neither the status nor the claim of the row is consulted.         *)

MarkDelivered(rs, ids) ==
    [id \in Id |-> IF id \in ids \intersect Present(rs)
                   THEN [rs[id] EXCEPT !.status = "delivered",
                                       !.claimedBy = None, !.leaseUntil = 0]
                   ELSE rs[id]]

MarkFailed(rs, ids, next) ==
    [id \in Id |-> IF id \in ids \intersect Present(rs)
                   THEN [rs[id] EXCEPT !.status = "retry",
                                       !.attempts = Incremented(rs[id].attempts),
                                       !.nextAttemptAt = next,
                                       !.claimedBy = None, !.leaseUntil = 0]
                   ELSE rs[id]]

MarkParked(rs, ids) ==
    [id \in Id |-> IF id \in ids \intersect Present(rs)
                   THEN [rs[id] EXCEPT !.status = "parked",
                                       !.claimedBy = None, !.leaseUntil = 0]
                   ELSE rs[id]]

\* Mutation: the release does not look at the status.
ReleaseAnyStatus(rs, ids, t) == MarkFailed(rs, ids, t)

\* Back to retry, but only the rows that are still delivering.
ReleaseDelivering(rs, ids, t) ==
    MarkFailed(rs, ids \intersect WithStatus(rs, {"delivering"}), t)

-----------------------------------------------------------------------------
(* Housekeeping.                                                            *)

\* Mutations: the sweep does not look at the lease; it looks at nothing else
\* than the owner.
RecoverableAnyLease(rs, t, owner) == WithStatus(rs, {"delivering"})
RecoverableByOwner(rs, t, owner) ==
    {id \in WithStatus(rs, {"delivering"}) : owner # None /\ rs[id].claimedBy = owner}

\* owner is None when the caller passes undefined.  A null lease is 0, and
\* so is before every t.
Recoverable(rs, t, owner) ==
    {id \in WithStatus(rs, {"delivering"}) :
        rs[id].leaseUntil < t \/ (owner # None /\ rs[id].claimedBy = owner)}

RecoverDelivering(rs, t, owner) ==
    [id \in Id |-> IF id \in Recoverable(rs, t, owner)
                   THEN [rs[id] EXCEPT !.status = "retry",
                                       !.nextAttemptAt = t,
                                       !.claimedBy = None, !.leaseUntil = 0]
                   ELSE rs[id]]

\* received_at < now - maxAge.
OlderThan(row, t, age) == row.receivedAt + age < t

\* Mutations: the sweep looks for rows that never failed; the retry window
\* is measured from the scheduled attempt.
ExpiredPending(rs, t, age) ==
    {id \in WithStatus(rs, {"pending"}) : OlderThan(rs[id], t, age)}
ExpiredByAttempt(rs, t, age) ==
    {id \in WithStatus(rs, {"retry"}) : rs[id].nextAttemptAt + age < t}

Expired(rs, t, age) ==
    {id \in WithStatus(rs, {"retry"}) : OlderThan(rs[id], t, age)}

\* Mutation: a status nothing else knows.
ParkAsExpired(rs, t, age) ==
    [id \in Id |-> IF id \in Expired(rs, t, age)
                   THEN [rs[id] EXCEPT !.status = "expired"]
                   ELSE rs[id]]

ParkExpired(rs, t, age) ==
    [id \in Id |-> IF id \in Expired(rs, t, age)
                   THEN [rs[id] EXCEPT !.status = "parked"]
                   ELSE rs[id]]

\* Mutation: parked counts as terminal.
DeletableParked(rs, t, age) ==
    {id \in WithStatus(rs, TERMINAL \union {"parked"}) : OlderThan(rs[id], t, age)}

\* Retention: wipe payloads of old terminal rows, or, when none is left to
\* wipe, delete terminal rows that are older still.
Wipeable(rs, t, age) ==
    {id \in WithStatus(rs, TERMINAL) :
        OlderThan(rs[id], t, age) /\ rs[id].payload}

Deletable(rs, t, age) ==
    {id \in WithStatus(rs, TERMINAL) : OlderThan(rs[id], t, age)}

Wipe(rs, ids) ==
    [id \in Id |-> IF id \in ids THEN [rs[id] EXCEPT !.payload = FALSE]
                   ELSE rs[id]]

Delete(rs, ids) == [id \in Id |-> IF id \in ids THEN NoRow ELSE rs[id]]

-----------------------------------------------------------------------------
(* Admin: replay and replayAllParked requeue parked rows.                   *)

Replay(rs, ids, t) ==
    [id \in Id |-> IF id \in ids \intersect WithStatus(rs, {"parked"})
                   THEN [rs[id] EXCEPT !.status = "retry", !.attempts = 0,
                                       !.nextAttemptAt = t]
                   ELSE rs[id]]
=============================================================================
