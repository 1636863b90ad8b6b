------------------------------ MODULE Dispatcher ------------------------------
(***************************************************************************)
(* The forwarding engine (packages/core/src/forward/dispatcher.ts) over a  *)
(* shared event store, with everything that runs between two of its        *)
(* awaits: ingest, operators, retention, other instances, crashes, the     *)
(* clock, and an End Close API that may accept, refuse or lose a request.  *)
(*                                                                         *)
(* One step is one await of the code: a store call, a control-store read   *)
(* or an HTTP request, together with the synchronous code around it.       *)
(* pc[i] names the await instance i stands before.                         *)
(***************************************************************************)
EXTENDS EventStore

CONSTANTS
    Arrivals,           \* <<key, route>> pairs processors may deliver
    Undecodable,        \* keys whose payload cannot be decrypted or parsed
    RecordName,         \* external_id of the record an event maps to
    EventName,          \* extResultKey(event).externalId: its event_id tail
    ReusesIds,          \* TRUE: SQLite row ids; FALSE: ids are never reused
    BatchMax, LeaseMs, RecoverIntervalMs, ParkAfterMs,      \* settings.ts
    BackoffBaseMs, BackoffCapMs, WipeAfterMs, DeleteAfterMs,
    IN_REQUEST_RETRIES, RESULT_POLL_ATTEMPTS,
    StartTime, Horizon, \* bounds of the clock
    MaxFaults,          \* bound on failing store calls
    MaxOutages,         \* bound on crashes and shutdowns
    MaxOps,             \* bound on operator actions
    Outlasts,           \* what a batch at work may outlast: "lease", "retry"
    Restarts            \* the instances that come back after an outage

ASSUME ArrivalsAssumption == Arrivals \subseteq Key \X Route
ASSUME NamesAssumption == RecordName \in [Key -> Nat] /\ EventName \in [Key -> Nat]
ASSUME SettingsAssumption ==
    /\ {BatchMax, LeaseMs, RecoverIntervalMs, ParkAfterMs, BackoffBaseMs,
        BackoffCapMs, WipeAfterMs, DeleteAfterMs} \subseteq Nat
    /\ {IN_REQUEST_RETRIES, RESULT_POLL_ATTEMPTS} \subseteq Nat
    /\ {MaxFaults, MaxOutages, MaxOps} \subseteq Nat
    /\ ReusesIds \in BOOLEAN /\ Outlasts \subseteq {"lease", "retry"}
    /\ Restarts \subseteq Inst
ASSUME ClockAssumption ==
    /\ StartTime \in Nat /\ Horizon \in Nat
    /\ 0 < StartTime /\ RecoverIntervalMs <= StartTime
    /\ StartTime < Horizon /\ RecoverIntervalMs < Horizon

VARIABLES
    rows, lastId,       \* the events table; the memory store's nextId - 1
    now,                \* the clock
    killswitch, paused, known,      \* control store; routes the provider knows
    running, reclaim, lastSweep,    \* running, reclaimOwner set?, lastSweepAt
    pc, cycleNow, due, route,       \* cycle(): position and locals
    claimed, todo, mapped, bad,     \* deliverBatch()/settleResults(): locals
    tries,              \* iteration of the request or result-poll loop
    acked,              \* keys whose sender was told "accepted"
    accepted,           \* End Close: keys of the records it has taken
    results, refused,   \* bulk requests it has processed; keys it refused
    told,               \* history: keys the last poll of theirs reported failed
    faults, outages, ops            \* how much of each bound is used

storeVars == <<rows, lastId>>
controlVars == <<killswitch, paused, known>>
procVars == <<running, reclaim, lastSweep>>
batchVars == <<claimed, todo, mapped, bad, tries>>
cycleVars == <<pc, cycleNow, due, route>>
endCloseVars == <<accepted, results, refused, told>>
boundVars == <<faults, outages, ops>>
vars == <<storeVars, now, controlVars, procVars, cycleVars, batchVars, acked,
          endCloseVars, boundVars>>

\* What the code keeps of a claimed row: the EventRecord claimDue returned.
Claim == [id : Id, key : Key, attempts : Nat, payload : BOOLEAN, lease : Nat]
Ids(claims) == {c.id : c \in claims}
Keys(claims) == {c.key : c \in claims}

PC == {"idle", "recover", "park", "killswitch", "due", "route", "claim", "map",
       "post", "poll", "settlePark", "settleOk", "fail", "reject", "release",
       "unwind"}

Init ==
    /\ rows = EmptyTable /\ lastId = 0
    /\ now = StartTime
    /\ killswitch = "none" /\ paused = {} /\ known = Route
    /\ running = [i \in Inst |-> TRUE]
    /\ reclaim = [i \in Inst |-> TRUE]
    /\ lastSweep = [i \in Inst |-> 0]
    /\ pc = [i \in Inst |-> "idle"]
    /\ cycleNow = [i \in Inst |-> 0]
    /\ due = [i \in Inst |-> {}]
    /\ route = [i \in Inst |-> None]
    /\ claimed = [i \in Inst |-> {}]
    /\ todo = [i \in Inst |-> {}]
    /\ mapped = [i \in Inst |-> {}]
    /\ bad = [i \in Inst |-> {}]
    /\ tries = [i \in Inst |-> 0]
    /\ acked = {} /\ accepted = {} /\ results = {} /\ refused = {} /\ told = {}
    /\ faults = 0 /\ outages = 0 /\ ops = 0

-----------------------------------------------------------------------------
(* Time.  The last instant stands for "long after": a deadline that would   *)
(* fall beyond it is clipped so that it has passed there, so the clock      *)
(* needs no instant after Horizon and nothing waits for one.                *)

Clip(t, last) == IF t < last THEN t ELSE last

\* backoffMs: base * 2^attempts up to the cap, with 20% jitter, rounded.
BackoffDelays(attempts) ==
    LET full == BackoffBaseMs * 2 ^ Clip(attempts, 30)
        raw == Clip(full, BackoffCapMs)
    IN  {d \in 0..(2 * BackoffCapMs) :
            8 * raw <= 10 * d + 5 /\ 10 * d <= 12 * raw + 5}

\* nextAttemptAt: the instants a failed attempt may be rescheduled to.
NextAttemptAt(attempts) ==
    {Clip(now + d, Horizon) : d \in BackoffDelays(attempts)}

\* What a batch at work outlasts when the clock moves: the lease of an event it
\* claimed; the wait of one it has put back, or that was replayed.
Outlasted(i) ==
    {"lease" : c \in {d \in claimed[i] : d.lease < now + 1}}
    \union {"retry" : c \in {d \in claimed[i] :
                 rows[d.id].status = "retry" /\ rows[d.id].nextAttemptAt <= now + 1}}

Tick ==
    /\ now < Horizon
    /\ \A i \in Inst : Outlasted(i) \subseteq Outlasts
    /\ now' = now + 1
    /\ UNCHANGED <<storeVars, controlVars, procVars, cycleVars, batchVars,
                   acked, endCloseVars, boundVars>>

-----------------------------------------------------------------------------
(* Ingest: the insert that ends the webhook handler; the route's filter     *)
(* decides the status.  A key already in the table is acked as a duplicate  *)
(* and changes nothing.  Arrivals stop early enough for the clock to see    *)
(* their retry window close.                                                *)

NewId == IF ReusesIds THEN NextRowid(rows) ELSE lastId + 1

IngestInsert(k, r, status) ==
    /\ <<k, r>> \in Arrivals
    /\ now + ParkAfterMs < Horizon
    /\ ~KeyTaken(rows, k)
    /\ NewId \in Id
    /\ rows' = Insert(rows, NewId, NewRow(k, r, status, now))
    /\ lastId' = IF ReusesIds THEN lastId ELSE lastId + 1
    /\ acked' = IF status = "pending" THEN acked \union {k} ELSE acked
    /\ UNCHANGED <<now, controlVars, procVars, cycleVars, batchVars,
                   endCloseVars, boundVars>>

-----------------------------------------------------------------------------
(* Operators: the admin plane's state-changing calls and route changes.     *)

Operate ==
    /\ ops < MaxOps
    /\ ops' = ops + 1
    /\ UNCHANGED <<lastId, now, procVars, cycleVars, batchVars, acked,
                   endCloseVars, faults, outages>>

SetKillswitch(value) ==
    /\ Operate
    /\ killswitch # value
    /\ killswitch' = value
    /\ UNCHANGED <<rows, paused, known>>

SetRoutePaused(r) ==
    /\ Operate
    /\ r \in known
    /\ paused' = IF r \in paused THEN paused \ {r} ELSE paused \union {r}
    /\ UNCHANGED <<rows, killswitch, known>>

\* A configuration that drops a route, and the pause that belongs to it, or
\* brings it back.
ReplaceRoutes(r) ==
    /\ Operate
    /\ known' = IF r \in known THEN known \ {r} ELSE known \union {r}
    /\ paused' = paused \intersect known'
    /\ UNCHANGED <<rows, killswitch>>

ReplayEvents(ids) ==
    /\ Operate
    /\ ids \intersect WithStatus(rows, {"parked"}) # {}
    /\ rows' = Replay(rows, ids, now)
    /\ UNCHANGED controlVars

-----------------------------------------------------------------------------
(* Retention, concurrent with the cycles: one batch of runPrune, whose own  *)
(* clock reading t was taken when the run began.  PRUNE_BATCH exceeds every *)
(* table here, so a batch takes all it may.                                 *)

PruneBatch(t) ==
    LET wipe == Wipeable(rows, t, WipeAfterMs)
        delete == Deletable(rows, t, DeleteAfterMs)
    IN  /\ wipe \union delete # {}
        /\ rows' = IF wipe # {} THEN Wipe(rows, wipe) ELSE Delete(rows, delete)
        /\ UNCHANGED <<lastId, now, controlVars, procVars, cycleVars,
                       batchVars, acked, endCloseVars, boundVars>>

-----------------------------------------------------------------------------
(* The life of an instance.  A crash loses everything but the store; a new  *)
(* Dispatcher starts with reclaimOwner set and lastSweepAt zero.            *)

EndCycle(i) ==
    /\ pc' = [pc EXCEPT ![i] = "idle"]
    /\ cycleNow' = [cycleNow EXCEPT ![i] = 0]
    /\ due' = [due EXCEPT ![i] = {}]
    /\ route' = [route EXCEPT ![i] = None]

DropBatch(i) ==
    /\ claimed' = [claimed EXCEPT ![i] = {}]
    /\ todo' = [todo EXCEPT ![i] = {}]
    /\ mapped' = [mapped EXCEPT ![i] = {}]
    /\ bad' = [bad EXCEPT ![i] = {}]
    /\ tries' = [tries EXCEPT ![i] = 0]

Outage ==
    /\ outages < MaxOutages
    /\ outages' = outages + 1
    /\ UNCHANGED <<storeVars, now, controlVars, acked, endCloseVars, faults, ops>>

Crash(i) ==
    /\ Outage
    /\ running[i] \/ pc[i] # "idle"
    /\ running' = [running EXCEPT ![i] = FALSE]
    /\ reclaim' = [reclaim EXCEPT ![i] = TRUE]
    /\ lastSweep' = [lastSweep EXCEPT ![i] = 0]
    /\ EndCycle(i)
    /\ DropBatch(i)

\* stop(): no new work; the cycle in flight drains.
Stop(i) ==
    /\ Outage
    /\ running[i]
    /\ running' = [running EXCEPT ![i] = FALSE]
    /\ UNCHANGED <<reclaim, lastSweep, cycleVars, batchVars>>

\* A new process with the same instance id, once the old one is gone.
Start(i) ==
    /\ i \in Restarts
    /\ ~running[i]
    /\ pc[i] = "idle"
    /\ running' = [running EXCEPT ![i] = TRUE]
    /\ reclaim' = [reclaim EXCEPT ![i] = TRUE]
    /\ lastSweep' = [lastSweep EXCEPT ![i] = 0]
    /\ UNCHANGED <<storeVars, now, controlVars, cycleVars, batchVars, acked,
                   endCloseVars, boundVars>>

-----------------------------------------------------------------------------
(* cycle(): housekeeping, then the killswitch, then one batch per due route *)

At(i, label) == pc[i] = label
Goto(i, label) == pc' = [pc EXCEPT ![i] = label]

\* What no step of a cycle changes, and what its three parts leave alone.
Cycling == UNCHANGED <<lastId, now, controlVars, running, acked, outages, ops>>
Sweeping == Cycling /\ UNCHANGED <<due, route, batchVars, endCloseVars, faults>>
Routing ==
    Cycling /\ UNCHANGED <<rows, reclaim, lastSweep, batchVars, endCloseVars, faults>>
Batching ==
    Cycling /\ UNCHANGED <<reclaim, lastSweep, cycleNow, due, route, claimed, faults>>

SweepDue(i, t) == t >= lastSweep[i] + RecoverIntervalMs

BeginCycle(i) ==
    /\ At(i, "idle") /\ running[i]
    /\ cycleNow' = [cycleNow EXCEPT ![i] = now]
    /\ Goto(i, IF reclaim[i] \/ SweepDue(i, now) THEN "recover" ELSE "killswitch")
    /\ Sweeping /\ UNCHANGED <<rows, reclaim, lastSweep>>

Recover(i) ==
    /\ At(i, "recover")
    /\ rows' = RecoverDelivering(rows, cycleNow[i], IF reclaim[i] THEN i ELSE None)
    /\ reclaim' = [reclaim EXCEPT ![i] = FALSE]
    /\ Goto(i, IF SweepDue(i, cycleNow[i]) THEN "park" ELSE "killswitch")
    /\ Sweeping /\ UNCHANGED <<lastSweep, cycleNow>>

Park(i) ==
    /\ At(i, "park")
    /\ rows' = ParkExpired(rows, cycleNow[i], ParkAfterMs)
    /\ lastSweep' = [lastSweep EXCEPT ![i] = Clip(now, Horizon - RecoverIntervalMs)]
    /\ Goto(i, "killswitch")
    /\ Sweeping /\ UNCHANGED <<reclaim, cycleNow>>

\* Mutation: only pause stops the cycle.
CheckPauseOnly(i) ==
    /\ At(i, "killswitch")
    /\ IF killswitch # "pause"
       THEN Goto(i, "due") /\ UNCHANGED <<cycleNow, due, route>>
       ELSE EndCycle(i)
    /\ Routing

\* Read once per cycle.
CheckKillswitch(i) ==
    /\ At(i, "killswitch")
    /\ IF killswitch = "none"
       THEN Goto(i, "due") /\ UNCHANGED <<cycleNow, due, route>>
       ELSE EndCycle(i)
    /\ Routing

ListDue(i) ==
    /\ At(i, "due")
    /\ due' = [due EXCEPT ![i] = RoutesWithDueEvents(rows, cycleNow[i])]
    /\ Goto(i, "route")
    /\ Routing /\ UNCHANGED <<cycleNow, route>>

\* The stores list routes in no promised order.  A route the provider does
\* not know, or that is paused, is skipped.
NextRoute(i, r) ==
    /\ At(i, "route") /\ running[i]
    /\ r \in due[i]
    /\ due' = [due EXCEPT ![i] = @ \ {r}]
    /\ IF r \in known \ paused
       THEN Goto(i, "claim") /\ route' = [route EXCEPT ![i] = r]
       ELSE UNCHANGED <<pc, route>>
    /\ Routing /\ UNCHANGED cycleNow

FinishCycle(i) ==
    /\ At(i, "route")
    /\ due[i] = {} \/ ~running[i]
    /\ EndCycle(i)
    /\ Routing

\* The due rows are those of the cycle's clock reading; the lease starts at
\* the real one.
ClaimBatch(i) ==
    /\ At(i, "claim")
    /\ LET ids == Claimable(rows, route[i], cycleNow[i], BatchMax)
           until == Clip(now + LeaseMs, Horizon - 1)
           claims == {[id |-> id, key |-> rows[id].key,
                       attempts |-> rows[id].attempts,
                       payload |-> rows[id].payload, lease |-> until] : id \in ids}
       IN  /\ rows' = ClaimDue(rows, ids, cycleNow[i], i, until)
           /\ claimed' = [claimed EXCEPT ![i] = claims]
           /\ todo' = [todo EXCEPT ![i] = claims]
           /\ Goto(i, IF ids = {} THEN "route" ELSE "map")
    /\ route' = [route EXCEPT ![i] = None]
    /\ Cycling
    /\ UNCHANGED <<reclaim, lastSweep, cycleNow, due, mapped, bad, tries,
                   endCloseVars, faults>>

-----------------------------------------------------------------------------
(* deliverBatch(): map and enrich event by event, in the order claimed.     *)

Decodable(c) == c.payload /\ c.key \notin Undecodable
IsNext(c, claims) == c \in claims /\ \A d \in claims : c.id <= d.id

\* Take c off the list; good is what it adds to the batch.
Advance(i, c, good) ==
    /\ todo' = [todo EXCEPT ![i] = @ \ {c}]
    /\ mapped' = [mapped EXCEPT ![i] = @ \union good]
    /\ Goto(i, IF todo[i] # {c} THEN "map"
               ELSE IF mapped[i] \union good = {} THEN "release" ELSE "post")
    /\ Batching /\ UNCHANGED <<bad, tries, endCloseVars>>

MapEvent(i, c) ==
    /\ At(i, "map") /\ IsNext(c, todo[i]) /\ Decodable(c)
    /\ Advance(i, c, {c})
    /\ UNCHANGED rows

\* MappingError or EnrichmentError.
ParkUnmappable(i, c) ==
    /\ At(i, "map") /\ IsNext(c, todo[i]) /\ Decodable(c)
    /\ rows' = MarkParked(rows, {c.id})
    /\ Advance(i, c, {})

\* The host's enrichment threw or timed out.
RetryOne(i, c) ==
    /\ At(i, "map") /\ IsNext(c, todo[i]) /\ Decodable(c)
    /\ \E next \in NextAttemptAt(c.attempts) : rows' = MarkFailed(rows, {c.id}, next)
    /\ Advance(i, c, {})

\* A payload that cannot be decoded or parsed throws out of deliverBatch.
Undecoded(i, c) ==
    /\ At(i, "map") /\ IsNext(c, todo[i]) /\ ~Decodable(c)
    /\ Goto(i, "unwind")
    /\ Batching /\ UNCHANGED <<rows, todo, mapped, bad, tries, endCloseVars>>

-----------------------------------------------------------------------------
(* postWithRetries().                                                       *)

\* The idempotency key of a bulk request: its records, in their order.
Names(claims) == {RecordName[c.key] : c \in claims}
IdempotencyKey(claims) ==
    {<<RecordName[c.key], Names({d \in claims : d.id < c.id})>> : c \in claims}

\* The results of the bulk request End Close has under that key, if it has
\* processed it already.
ResultsOf(claims) == {r \in results : r.batch = IdempotencyKey(claims)}

\* A batch posted again is the bulk request it was: its refusals stand.  In a
\* new one End Close has yet to refuse a record.
EndCloseTakes(claims) ==
    /\ accepted' = accepted \union Keys(claims)
    /\ refused' = IF ResultsOf(claims) = {} THEN refused \ Keys(claims) ELSE refused
    /\ UNCHANGED <<results, told>>

PostAccepted(i) ==
    /\ At(i, "post")
    /\ EndCloseTakes(mapped[i])
    /\ tries' = [tries EXCEPT ![i] = 0]
    /\ Goto(i, "poll")
    /\ Batching /\ UNCHANGED <<rows, todo, mapped, bad>>

\* A TransientHttpError: the request, or only its answer, was lost.
PostTransient(i) ==
    /\ At(i, "post")
    /\ \/ EndCloseTakes(mapped[i])
       \/ UNCHANGED endCloseVars
    /\ IF tries[i] < IN_REQUEST_RETRIES
       THEN tries' = [tries EXCEPT ![i] = @ + 1] /\ UNCHANGED pc
       ELSE tries' = [tries EXCEPT ![i] = 0] /\ Goto(i, "fail")
    /\ Batching /\ UNCHANGED <<rows, todo, mapped, bad>>

\* A success whose body cannot be read or parsed: an ordinary Error, which the
\* request loop does not retry.
PostUnreadable(i) ==
    /\ At(i, "post")
    /\ EndCloseTakes(mapped[i])
    /\ tries' = [tries EXCEPT ![i] = 0]
    /\ Goto(i, "fail")
    /\ Batching /\ UNCHANGED <<rows, todo, mapped, bad>>

\* A PermanentHttpError: 400 and 422 park the batch, anything else retries.
PostRefused(i, label) ==
    /\ At(i, "post")
    /\ tries' = [tries EXCEPT ![i] = 0]
    /\ Goto(i, label)
    /\ Batching /\ UNCHANGED <<rows, todo, mapped, bad, endCloseVars>>

-----------------------------------------------------------------------------
(* settleResults(): poll for per-row results, then write them down.         *)

\* Still pending or processing.
PollAgain(i) ==
    /\ At(i, "poll") /\ ResultsOf(mapped[i]) = {}
    /\ tries[i] + 1 < RESULT_POLL_ATTEMPTS
    /\ tries' = [tries EXCEPT ![i] = @ + 1]
    /\ Batching /\ UNCHANGED <<rows, pc, todo, mapped, bad, endCloseVars>>

Settle(i, failing, label) ==
    /\ bad' = [bad EXCEPT ![i] = failing]
    /\ tries' = [tries EXCEPT ![i] = 0]
    /\ Goto(i, label)
    /\ Batching /\ UNCHANGED <<rows, todo, mapped, accepted>>

\* The poll failed, or the last one still found the request unfinished.
PollGivesUp(i) ==
    /\ At(i, "poll")
    /\ Settle(i, {}, "settleOk")
    /\ told' = told \ Keys(mapped[i])
    /\ UNCHANGED <<results, refused>>

\* A result row names its record by external_id, or by index when it has
\* none.  A name that is a numeral is that number, so an external_id can
\* equal an index.
Index(c, claims) == Cardinality({d \in claims : d.id < c.id})
ResultName(c, claims, byIndex) ==
    IF byIndex THEN Index(c, claims) ELSE RecordName[c.key]

\* Mutation: results are matched by name only.
MatchesByName(c, claims, names) == EventName[c.key] \in names

Matches(c, claims, names) ==
    EventName[c.key] \in names \/ Index(c, claims) \in names

\* A bulk request is processed once: its results are the same ever after.
EndCloseReports(claims, failing) ==
    LET result == [batch |-> IdempotencyKey(claims), failed |-> Names(failing)]
    IN  /\ ResultsOf(claims) \subseteq {result}
        /\ results' = results \union {result}
        /\ refused' = IF result \in results THEN refused ELSE refused \union Keys(failing)

PollResults(i, failing, byIndex) ==
    /\ At(i, "poll")
    /\ LET names == {ResultName(c, mapped[i], byIndex) : c \in failing}
       IN  Settle(i, {c \in mapped[i] : Matches(c, mapped[i], names)},
                  IF failing = {} THEN "settleOk" ELSE "settlePark")
    /\ EndCloseReports(mapped[i], failing)
    /\ told' = (told \ Keys(mapped[i])) \union Keys(failing)

\* One store call on the rows of the batch, then on to label.
StoreCall(i, label) ==
    Goto(i, label) /\ Batching /\ UNCHANGED <<todo, mapped, bad, tries, endCloseVars>>

SettlePark(i) ==
    /\ At(i, "settlePark")
    /\ rows' = MarkParked(rows, Ids(bad[i]))
    /\ StoreCall(i, "settleOk")

\* Mutation: the whole claim is recorded, not only what was sent.
SettleWholeClaim(i) ==
    /\ At(i, "settleOk")
    /\ rows' = MarkDelivered(rows, Ids(claimed[i] \ bad[i]))
    /\ StoreCall(i, "release")

SettleOk(i) ==
    /\ At(i, "settleOk")
    /\ rows' = MarkDelivered(rows, Ids(mapped[i] \ bad[i]))
    /\ StoreCall(i, "release")

\* The catch of deliverBatch.
ParkBatch(i) ==
    /\ At(i, "reject")
    /\ rows' = MarkParked(rows, Ids(mapped[i]))
    /\ StoreCall(i, "release")

MostAttempts(claims) ==
    CHOOSE n \in {c.attempts : c \in claims} : \A c \in claims : c.attempts <= n

RetryBatch(i) ==
    /\ At(i, "fail")
    /\ \E next \in NextAttemptAt(MostAttempts(mapped[i])) :
          rows' = MarkFailed(rows, Ids(mapped[i]), next)
    /\ StoreCall(i, "release")

\* releaseLeftover(), the finally of the batch; with an exception in flight
\* ("unwind") the cycle ends after it.
AfterRelease(i) ==
    /\ DropBatch(i)
    /\ IF At(i, "unwind") THEN EndCycle(i)
       ELSE Goto(i, "route") /\ UNCHANGED <<cycleNow, due, route>>
    /\ Cycling /\ UNCHANGED <<lastSweep, endCloseVars>>

ReleaseLeftover(i) ==
    /\ pc[i] \in {"release", "unwind"}
    /\ rows' = ReleaseDelivering(rows, Ids(claimed[i]), now)
    /\ AfterRelease(i)
    /\ UNCHANGED <<reclaim, faults>>

-----------------------------------------------------------------------------
(* Store calls that throw.  A failed call changes no row.                   *)

Fault ==
    /\ faults < MaxFaults
    /\ faults' = faults + 1
    /\ UNCHANGED rows

Throw(i, label) ==
    /\ Fault
    /\ Goto(i, label)
    /\ Cycling
    /\ UNCHANGED <<reclaim, lastSweep, cycleNow, due, route, batchVars, endCloseVars>>

\* Housekeeping failures are logged and the cycle goes on.
SweepThrows(i) == pc[i] \in {"recover", "park"} /\ Throw(i, "killswitch")

\* Outside a batch an exception ends the cycle.
CycleThrows(i) ==
    /\ \/ pc[i] \in {"killswitch", "due", "claim"}
       \/ At(i, "route") /\ running[i] /\ due[i] # {}
    /\ Fault
    /\ EndCycle(i)
    /\ Cycling /\ UNCHANGED <<reclaim, lastSweep, batchVars, endCloseVars>>

\* settleResults runs inside the try of deliverBatch: its failure is handled
\* like a failed delivery.
SettleThrows(i) == pc[i] \in {"settlePark", "settleOk"} /\ Throw(i, "fail")

\* Mutation: an exception leaves the cycle without the finally.
BatchAbandoned(i) ==
    /\ pc[i] \in {"map", "fail", "reject"}
    /\ Fault
    /\ DropBatch(i) /\ EndCycle(i)
    /\ Cycling /\ UNCHANGED <<reclaim, lastSweep, endCloseVars>>

\* A failing write in the map loop or in the catch leaves deliverBatch.
BatchThrows(i) == pc[i] \in {"map", "fail", "reject"} /\ Throw(i, "unwind")

\* Mutation: a failed release is only logged.
ReleaseFailureLogged(i) ==
    /\ pc[i] \in {"release", "unwind"}
    /\ Fault
    /\ AfterRelease(i)
    /\ UNCHANGED reclaim

ReleaseThrows(i) ==
    /\ pc[i] \in {"release", "unwind"}
    /\ Fault
    /\ reclaim' = [reclaim EXCEPT ![i] = TRUE]
    /\ AfterRelease(i)

-----------------------------------------------------------------------------
Housekeeping(i) == BeginCycle(i) \/ Recover(i) \/ Park(i) \/ CheckKillswitch(i)

Routes(i) ==
    \/ ListDue(i) \/ FinishCycle(i) \/ ClaimBatch(i)
    \/ \E r \in Route : NextRoute(i, r)

MapBatch(i) ==
    \E c \in todo[i] : \/ MapEvent(i, c) \/ ParkUnmappable(i, c)
                       \/ RetryOne(i, c) \/ Undecoded(i, c)

Send(i) ==
    \/ PostAccepted(i) \/ PostTransient(i) \/ PostUnreadable(i)
    \/ \E label \in {"reject", "fail"} : PostRefused(i, label)

SettleBatch(i) ==
    \/ PollAgain(i) \/ PollGivesUp(i)
    \/ \E failing \in SUBSET mapped[i], byIndex \in BOOLEAN :
          PollResults(i, failing, byIndex)
    \/ SettlePark(i) \/ SettleOk(i) \/ ParkBatch(i) \/ RetryBatch(i)
    \/ ReleaseLeftover(i)

CycleStep(i) ==
    Housekeeping(i) \/ Routes(i) \/ MapBatch(i) \/ Send(i) \/ SettleBatch(i)

StoreThrows(i) ==
    \/ SweepThrows(i) \/ CycleThrows(i) \/ SettleThrows(i) \/ BatchThrows(i)
    \/ ReleaseThrows(i)

Lifecycle(i) == Crash(i) \/ Stop(i) \/ Start(i)

Operator ==
    \/ \E value \in {"none", "pause", "panic"} : SetKillswitch(value)
    \/ \E r \in Route : SetRoutePaused(r) \/ ReplaceRoutes(r)
    \/ \E id \in Id : ReplayEvents({id})
    \/ ReplayEvents(Id)

Environment ==
    \/ Tick
    \/ \E k \in Key, r \in Route, status \in {"pending", "dropped_by_filter"} :
          IngestInsert(k, r, status)
    \/ Operator
    \/ \E t \in StartTime..now : PruneBatch(t)

Next ==
    \/ Environment
    \/ \E i \in Inst : CycleStep(i) \/ StoreThrows(i) \/ Lifecycle(i)

Spec == Init /\ [][Next]_vars

\* The poll timer keeps starting cycles and every await returns; a process
\* that is to come back does; time passes.  Nothing is assumed of ingest,
\* operators, retention or of what End Close answers.
Fairness ==
    /\ WF_vars(Tick)
    /\ \A i \in Inst : WF_vars(CycleStep(i)) /\ WF_vars(Start(i))

FairSpec == Spec /\ Fairness

-----------------------------------------------------------------------------
(* Properties.                                                              *)

\* Every variable has its type, and a row that exists is a whole row.
StoreTyped == rows \in Table /\ lastId \in 0..MaxId
ClockTyped == now \in StartTime..Horizon
ControlTyped ==
    /\ killswitch \in {"none", "pause", "panic"}
    /\ paused \subseteq Route /\ known \subseteq Route
ProcTyped ==
    /\ running \in [Inst -> BOOLEAN] /\ reclaim \in [Inst -> BOOLEAN]
    /\ lastSweep \in [Inst -> 0..Horizon]
CycleTyped ==
    /\ pc \in [Inst -> PC] /\ cycleNow \in [Inst -> 0..Horizon]
    /\ due \in [Inst -> SUBSET Route] /\ route \in [Inst -> Route \union {None}]
BatchTyped ==
    /\ claimed \in [Inst -> SUBSET Claim] /\ todo \in [Inst -> SUBSET Claim]
    /\ mapped \in [Inst -> SUBSET Claim] /\ bad \in [Inst -> SUBSET Claim]
    /\ tries \in [Inst -> Nat]
EventsTyped ==
    /\ acked \subseteq Key /\ accepted \subseteq Key
    /\ results \subseteq [batch : SUBSET (Nat \X SUBSET Nat), failed : SUBSET Nat]
    /\ refused \subseteq Key /\ told \subseteq Key
BoundsTyped ==
    faults \in 0..MaxFaults /\ outages \in 0..MaxOutages /\ ops \in 0..MaxOps
TypeOK ==
    /\ StoreTyped /\ ClockTyped /\ ControlTyped /\ ProcTyped
    /\ CycleTyped /\ BatchTyped /\ EventsTyped /\ BoundsTyped

\* No claim is orphaned: a delivering row is in the batch its owner is
\* working on, or its owner will reclaim it by name in its next cycle
\* (reclaimOwner) if it has one, whatever failed, crashed or was taken over in
\* between.
NoOrphanedClaim ==
    \A id \in WithStatus(rows, {"delivering"}) :
        LET owner == rows[id].claimedBy
        IN  owner \in Inst /\ (reclaim[owner] \/ id \in Ids(claimed[owner]))

\* The store says delivered only of events End Close has taken.
DeliveredWasAccepted ==
    \A id \in WithStatus(rows, {"delivered"}) : rows[id].key \in accepted

\* At least once: an event whose sender was told "accepted" is with End
\* Close, or is still in the store, undelivered, with its payload.
NothingLost ==
    \A k \in acked :
        \/ k \in accepted
        \/ \E id \in WithStatus(rows, DUE \union {"delivering", "parked"}) :
              rows[id].key = k /\ rows[id].payload

\* What the relay is told it heeds: an event that the last poll of its batch
\* reported as failed is not recorded as delivered, whatever fails, crashes or
\* is swept between the answer and its record.
RefusalIsHeeded ==
    \A id \in WithStatus(rows, {"delivered"}) : rows[id].key \notin told

\* A row End Close rejected is not recorded as delivered: "Rows the API rejected
\* park" (settleResults).
RefusedNotDelivered ==
    \A id \in WithStatus(rows, {"delivered"}) : rows[id].key \notin refused

\* The sweep parks what "has been retrying longer than maxAgeMs" (parkExpired in
\* store.ts): not an event that was put back untried less than that ago.
ParksWhatRetried ==
    [][\A id \in WithStatus(rows, {"retry"}) :
          (rows[id].attempts = 0 /\ rows'[id].status = "parked")
              => rows[id].nextAttemptAt + ParkAfterMs < now]_vars

\* Delivered is final: the row keeps that status until retention deletes it.
DeliveredIsFinal ==
    [][\A id \in WithStatus(rows, {"delivered"}) :
          rows'[id].status \in {"delivered", "absent"}]_vars

\* While its batch's lease has not run out, no other instance holds an event
\* that an instance is still mapping, sending or settling.
Holding(i) ==
    IF pc[i] \in {"map", "post", "poll", "settlePark", "settleOk", "fail", "reject"}
    THEN todo[i] \union mapped[i] ELSE {}
LeaseIsExclusive ==
    \A i, j \in Inst : \A c \in Holding(i), d \in Holding(j) :
        (i # j /\ c.id = d.id) => (c.lease < now \/ d.lease < now)

\* A pause takes hold: every instance drains and forwards nothing more.
Forwarding == {"due", "route", "claim", "map", "post", "poll", "settlePark",
               "settleOk", "fail", "reject", "release", "unwind"}
PauseDrains ==
    \A i \in Inst : <>[](killswitch # "none") => <>[](pc[i] \notin Forwarding)

\* Every claim ends: no event stays claimed for good, even when the instance
\* that claimed it dies and never comes back.
EveryClaimEnds ==
    \A id \in Id : []<>(rows[id].status # "delivering")

\* No event is stuck: once its route is served again for good, an accepted
\* event is delivered or parked (or has been delivered and aged out).
Settled(k) ==
    \A id \in Present(rows) :
        rows[id].key = k => rows[id].status \in TERMINAL \union {"parked"}
EventuallySettled ==
    \A k \in Key :
        (<>[](killswitch = "none" /\ known \ paused = Route))
            => [](k \in acked => <>Settled(k))

-----------------------------------------------------------------------------
(* What the table says of an event, in the terms of Delivery.               *)

StageOf(status) ==
    CASE status \in DUE -> "waiting"
      [] status = "delivering" -> "held"
      [] status = "dropped_by_filter" -> "filtered"
      [] OTHER -> status

EventStage(k) ==
    IF KeyTaken(rows, k)
    THEN StageOf(rows[CHOOSE id \in Present(rows) : rows[id].key = k].status)
    ELSE "unknown"

Promise == INSTANCE Delivery WITH
    stage <- [k \in Key |-> EventStage(k)], promised <- acked, taken <- accepted

\* One relay keeps the promise of Delivery: whatever fails, crashes, is
\* stopped, swept, paused, replayed or pruned between two awaits, each event
\* moves only along the stages Delivery allows, none is delivered that End
\* Close has not taken, and no delivery is taken back.
KeepsPromise == Promise!Spec
=============================================================================
