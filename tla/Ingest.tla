-------------------------------- MODULE Ingest --------------------------------
(***************************************************************************)
(* The webhook handler (packages/core/src/engine/ingest.ts) as many        *)
(* requests at once run it: it awaits the route, then the killswitch, then *)
(* the insert, and operators, other requests and the dispatcher act in     *)
(* between.  The processor that sends an event may lose the answer and     *)
(* send it again, or send it again because somebody asks it to.            *)
(***************************************************************************)
EXTENDS EventStore

CONSTANTS
    Event,              \* event ids, as the route's adapter extracts them
    Source, SourceOf,   \* processors, and the one each route declares
    Req,                \* requests that can be in flight together
    MaxSends,           \* bound on requests
    MaxFaults,          \* bound on failed store calls, lost answers, crashes
    MaxOps              \* bound on operator actions

ASSUME SourceAssumption == SourceOf \in [Route -> Source] /\ Key = Source \X Event
ASSUME IngestBoundAssumption == {MaxSends, MaxFaults, MaxOps} \subseteq Nat

VARIABLES
    rows,               \* the events table
    killswitch,         \* control store
    known,              \* routes the provider has
    passes,             \* per route, the events its filter lets through
    req,                \* the requests in flight
    told,               \* <<event, route, outcome>>: the 200s senders have seen
    delivered,          \* keys End Close has taken
    panicked,           \* history: requests sent in a panic not lifted since
    sends, faults, ops  \* how much of each bound is used

envVars == <<killswitch, known, passes>>
boundVars == <<sends, faults, ops>>
vars == <<rows, envVars, req, told, delivered, panicked, boundVars>>

Rejections == {"rejected_json", "rejected_size", "unknown_source",
               "secret_unavailable", "rejected_auth"}
Failures == {"unavailable", "persist_failed"}
Outcome == Rejections \union Failures \union
           {"unknown_route", "panic", "duplicate", "filtered", "accepted"}
Success == {"duplicate", "filtered", "accepted"}

\* filtered is decided by the route as the handler read it.
Request == [pc : {"route", "killswitch", "insert", "answer"}, event : Event,
            route : Route, filtered : BOOLEAN, outcome : Outcome \union {None}]
NoRequest == [pc |-> "none", event |-> None, route |-> None,
              filtered |-> FALSE, outcome |-> None]

\* The route is not part of it: one event of a source is one event, whichever
\* of its routes it came in on.
eventIdempotencyKey(q) == <<SourceOf[req[q].route], req[q].event>>

Init ==
    /\ rows = EmptyTable
    /\ killswitch = "none" /\ known = Route
    /\ passes \in [Route -> {Event, {}}]
    /\ req = [q \in Req |-> NoRequest]
    /\ told = {} /\ delivered = {} /\ panicked = {}
    /\ sends = 0 /\ faults = 0 /\ ops = 0

-----------------------------------------------------------------------------
(* The handler.                                                             *)

At(q, label) == req[q].pc = label
Answer(q, outcome) ==
    req' = [req EXCEPT ![q].pc = "answer", ![q].outcome = outcome]

\* What the steps of a request leave alone.
Handling == UNCHANGED <<envVars, told, delivered, panicked, sends, ops>>

Send(q, e, r) ==
    /\ At(q, "none")
    /\ sends < MaxSends
    /\ sends' = sends + 1
    /\ req' = [req EXCEPT ![q] = [NoRequest EXCEPT !.pc = "route", !.event = e,
                                                   !.route = r]]
    /\ panicked' = IF killswitch = "panic" THEN panicked \union {q} ELSE panicked
    /\ UNCHANGED <<rows, envVars, told, delivered, faults, ops>>

LookupRoute(q) ==
    /\ At(q, "route")
    /\ IF req[q].route \in known
       THEN req' = [req EXCEPT ![q].pc = "killswitch",
                               ![q].filtered = req[q].event \notin passes[req[q].route]]
       ELSE Answer(q, "unknown_route")
    /\ Handling /\ UNCHANGED <<rows, faults>>

\* Mutation: pause is the state that refuses.
CheckPauseInstead(q, verdict) ==
    /\ At(q, "killswitch")
    /\ IF killswitch = "pause" THEN Answer(q, "panic")
       ELSE IF verdict \in Rejections THEN Answer(q, verdict)
       ELSE req' = [req EXCEPT ![q].pc = "insert"]
    /\ Handling /\ UNCHANGED <<rows, faults>>

\* The killswitch is read; then size, signature and syntax are checked with
\* no await in between.
CheckRequest(q, verdict) ==
    /\ At(q, "killswitch")
    /\ IF killswitch = "panic" THEN Answer(q, "panic")
       ELSE IF verdict \in Rejections THEN Answer(q, verdict)
       ELSE req' = [req EXCEPT ![q].pc = "insert"]
    /\ Handling /\ UNCHANGED <<rows, faults>>

InsertedRow(q) ==
    NewRow(eventIdempotencyKey(q), req[q].route,
           IF req[q].filtered THEN "dropped_by_filter" ELSE "pending", 0)

\* Mutation: a duplicate is answered like a first delivery.
InsertAcksDuplicate(q) ==
    /\ At(q, "insert")
    /\ Answer(q, IF req[q].filtered THEN "filtered" ELSE "accepted")
    /\ IF KeyTaken(rows, eventIdempotencyKey(q)) THEN UNCHANGED rows
       ELSE /\ NextRowid(rows) \in Id
            /\ rows' = Insert(rows, NextRowid(rows), InsertedRow(q))
    /\ Handling /\ UNCHANGED faults

InsertEvent(q) ==
    /\ At(q, "insert")
    /\ IF KeyTaken(rows, eventIdempotencyKey(q))
       THEN Answer(q, "duplicate") /\ UNCHANGED rows
       ELSE /\ NextRowid(rows) \in Id
            /\ rows' = Insert(rows, NextRowid(rows), InsertedRow(q))
            /\ Answer(q, IF req[q].filtered THEN "filtered" ELSE "accepted")
    /\ Handling /\ UNCHANGED faults

-----------------------------------------------------------------------------
(* Failures.                                                                *)

Fail ==
    /\ faults < MaxFaults
    /\ faults' = faults + 1
    /\ UNCHANGED <<envVars, delivered, panicked, sends, ops>>

\* A StoreError from any await is answered 503 or 500.  When the connection
\* to the store is lost the insert may have been committed.
StoreFails(q, outcome) ==
    /\ req[q].pc \in {"route", "killswitch", "insert"}
    /\ Fail
    /\ Answer(q, outcome)
    /\ \/ UNCHANGED rows
       \/ /\ At(q, "insert") /\ ~KeyTaken(rows, eventIdempotencyKey(q))
          /\ NextRowid(rows) \in Id
          /\ rows' = Insert(rows, NextRowid(rows), InsertedRow(q))
    /\ UNCHANGED told

Crash ==
    /\ Fail
    /\ \E q \in Req : ~At(q, "none")
    /\ req' = [q \in Req |-> NoRequest]
    /\ UNCHANGED <<rows, told>>

-----------------------------------------------------------------------------
(* The sender, the operators, and what the dispatcher makes of the rows.    *)

Receive(q) ==
    /\ At(q, "answer")
    /\ told' = IF req[q].outcome \in Success
               THEN told \union {<<req[q].event, req[q].route, req[q].outcome>>}
               ELSE told
    /\ req' = [req EXCEPT ![q] = NoRequest]
    /\ panicked' = panicked \ {q}
    /\ UNCHANGED <<rows, envVars, delivered, boundVars>>

LoseAnswer(q) ==
    /\ At(q, "answer")
    /\ Fail
    /\ req' = [req EXCEPT ![q] = NoRequest]
    /\ UNCHANGED <<rows, told>>

Operate ==
    /\ ops < MaxOps
    /\ ops' = ops + 1
    /\ UNCHANGED <<rows, req, told, delivered, sends, faults>>

SetKillswitch(value) ==
    /\ Operate
    /\ killswitch # value /\ killswitch' = value
    /\ panicked' = IF value = "panic" THEN panicked ELSE {}
    /\ UNCHANGED <<known, passes>>

\* A new configuration: a route goes or returns, or its filter changes.
ReplaceRoutes(r, filter) ==
    /\ Operate
    /\ \/ known' = (known \ {r}) \union ({r} \ known) /\ UNCHANGED passes
       \/ passes' = [passes EXCEPT ![r] = filter] /\ UNCHANGED known
    /\ UNCHANGED <<killswitch, panicked>>

\* The dispatcher delivers or parks a row; retention drops terminal ones.
Forward(id, status) ==
    /\ rows[id].status = "pending"
    /\ rows' = IF status = "delivered" THEN MarkDelivered(rows, {id})
               ELSE MarkParked(rows, {id})
    /\ delivered' = IF status = "delivered" THEN delivered \union {rows[id].key}
                    ELSE delivered
    /\ UNCHANGED <<envVars, req, told, panicked, boundVars>>

Expire(id) ==
    /\ rows[id].status \in TERMINAL
    /\ rows' = Delete(rows, {id})
    /\ UNCHANGED <<envVars, req, told, delivered, panicked, boundVars>>

-----------------------------------------------------------------------------
Handle(q) ==
    \/ LookupRoute(q) \/ InsertEvent(q)
    \/ \E verdict \in Rejections \union {"ok"} : CheckRequest(q, verdict)

Breaks(q) == LoseAnswer(q) \/ \E outcome \in Failures : StoreFails(q, outcome)

Operator ==
    \/ \E value \in {"none", "pause", "panic"} : SetKillswitch(value)
    \/ \E r \in Route, filter \in {Event, {}} : ReplaceRoutes(r, filter)

Next ==
    \/ \E q \in Req : \/ Handle(q) \/ Breaks(q) \/ Receive(q)
                      \/ \E e \in Event, r \in Route : Send(q, e, r)
    \/ Crash \/ Operator
    \/ \E id \in Id : Expire(id) \/ Forward(id, "delivered") \/ Forward(id, "parked")

Spec == Init /\ [][Next]_vars

-----------------------------------------------------------------------------
(* Properties.                                                              *)

\* Every variable has its type.
TypeOK ==
    /\ rows \in Table
    /\ killswitch \in {"none", "pause", "panic"} /\ known \subseteq Route
    /\ passes \in [Route -> SUBSET Event]
    /\ req \in [Req -> Request \union {NoRequest}]
    /\ told \subseteq Event \X Route \X Success
    /\ delivered \subseteq Key /\ panicked \subseteq Req
    /\ sends \in 0..MaxSends /\ faults \in 0..MaxFaults /\ ops \in 0..MaxOps

\* The event is with End Close, or in the store waiting to go there.
Kept(k) ==
    \/ k \in delivered
    \/ \E id \in Present(rows) : rows[id].key = k /\ rows[id].status \notin TERMINAL

\* A sender that was told "accepted" never has to send again, whatever it
\* sent twice, whatever was lost and whatever changed while it was handled.
AckedIsKept ==
    \A e \in Event, r \in Route :
        <<e, r, "accepted">> \in told => Kept(<<SourceOf[r], e>>)

\* Panic takes hold: a request sent under a panic that still lasts is never
\* stored, however old the route it was read with.
PanicTakesHold == \A q \in panicked : ~At(q, "insert")
=============================================================================
