----------------------------- MODULE IngestProofs -----------------------------
(***************************************************************************)
(* The safety theorems of Ingest, for any number of events, routes,        *)
(* requests, faults and operator actions: an acknowledged event is kept,   *)
(* and a panic takes hold.                                                 *)
(***************************************************************************)
EXTENDS Ingest, WellFoundedInduction, TLAPS

-----------------------------------------------------------------------------
(* The id of a new row.                                                     *)

\* A set of row ids that is not empty has a largest element.
LEMMA Largest ==
    ASSUME NEW T, T \subseteq Id, T # {}
    PROVE  \E m \in T : \A n \in T : n <= m
  <1> DEFINE Gap == {MaxId - n : n \in T}
  <1>1. Gap \subseteq Nat /\ Gap # {}
    BY BoundAssumption DEF Id
  <1>2. \E x \in Gap : \A y \in Gap : ~(<<y, x>> \in OpToRel(<, Nat))
    BY <1>1, WFMin, NatLessThanWellFounded
  <1>3. PICK x \in Gap : \A y \in Gap : ~(y < x)
    BY <1>1, <1>2 DEF OpToRel
  <1>4. PICK m \in T : x = MaxId - m
    OBVIOUS
  <1>5. ASSUME NEW n \in T PROVE n <= m
    <2>1. ~(MaxId - n < MaxId - m)
      BY <1>3, <1>4
    <2>2. QED
      BY <2>1, BoundAssumption DEF Id
  <1>6. QED
    BY <1>4, <1>5

\* SQLite's next id is that of no row.
LEMMA NextRowidIsFree ==
    ASSUME NEW rs, NextRowid(rs) \in Id
    PROVE  NextRowid(rs) \notin Present(rs)
  <1>1. CASE Present(rs) = {}
    BY <1>1
  <1>2. CASE Present(rs) # {}
    <2> DEFINE top == CHOOSE m \in Present(rs) : \A n \in Present(rs) : n <= m
    <2>1. Present(rs) \subseteq Id
      BY DEF Present
    <2>2. top \in Present(rs) /\ \A n \in Present(rs) : n <= top
      BY <1>2, <2>1, Largest
    <2>3. NextRowid(rs) = 1 + top
      BY <1>2 DEF NextRowid
    <2>4. QED
      BY <2>1, <2>2, <2>3, BoundAssumption DEF Id
  <1>3. QED
    BY <1>1, <1>2

-----------------------------------------------------------------------------
(* What the steps do to the table and to the requests.                      *)

\* A step that keeps every row that is not terminal, or delivers it.
Preserves ==
    \A id \in Present(rows) : rows[id].status \notin TERMINAL =>
        \/ rows'[id].key = rows[id].key /\ rows'[id].status \notin TERMINAL \union {"absent"}
        \/ rows[id].key \in delivered'

\* An answer that says "accepted" is about an event that is kept.
AnswersKept ==
    \A q \in Req : (At(q, "answer") /\ req[q].outcome = "accepted")
                      => Kept(eventIdempotencyKey(q))

\* The requests of a panic that lasts are not on their way to the store.
PanicHolds == \A q \in panicked : killswitch = "panic" /\ ~At(q, "insert")

IngestInv == TypeOK /\ AckedIsKept /\ AnswersKept /\ PanicHolds

\* The key of a request's event.
LEMMA KeyTyped ==
    ASSUME TypeOK, NEW q \in Req, ~At(q, "none")
    PROVE  /\ req[q] \in Request
           /\ eventIdempotencyKey(q) \in Key
  <1>1. req[q] \in Request
    BY DEF TypeOK, At, NoRequest
  <1>2. QED
    BY <1>1, SourceAssumption DEF eventIdempotencyKey, Request

\* What is kept stays kept.
LEMMA KeptStays ==
    ASSUME Preserves, delivered \subseteq delivered', NEW k, Kept(k)
    PROVE  Kept(k)'
  BY DEF Preserves, Kept, Present

\* A new row takes the place of none.
LEMMA InsertFacts ==
    ASSUME TypeOK, NEW q \in Req, ~At(q, "none"), NextRowid(rows) \in Id,
           rows' = Insert(rows, NextRowid(rows), InsertedRow(q)), UNCHANGED delivered,
           NEW k, k = eventIdempotencyKey(q)
    PROVE  /\ rows' \in Table /\ Preserves
           /\ ~req[q].filtered => Kept(k)'
  <1> DEFINE n == NextRowid(rows)
             row == InsertedRow(q)
  <1>1. row \in Row /\ row.key = eventIdempotencyKey(q)
        /\ (~req[q].filtered => row.status = "pending")
    BY KeyTyped DEF InsertedRow, NewRow, Row, Status, DUE, TERMINAL, Request
  <1>2. n \in Id /\ n \notin Present(rows)
    BY NextRowidIsFree
  <1>3. rows' \in Table /\ rows'[n] = row /\ \A id \in Id \ {n} : rows'[id] = rows[id]
    BY <1>1, <1>2 DEF TypeOK, Table, Insert
  <1>4. Preserves
    BY <1>2, <1>3 DEF Preserves, Present
  <1>5. ASSUME ~req[q].filtered PROVE Kept(k)'
    <2>1. n \in Present(rows)' /\ rows'[n].status = "pending"
      BY <1>1, <1>2, <1>3, <1>5 DEF Present
    <2>2. QED
      BY <1>1, <1>3, <2>1 DEF Kept, TERMINAL
  <1>6. QED
    BY <1>3, <1>4, <1>5

\* An answer changes nothing else of its request.
LEMMA AnswerFacts ==
    ASSUME TypeOK, NEW q \in Req, ~At(q, "none"), NEW o \in Outcome, Answer(q, o)
    PROVE  /\ req' \in [Req -> Request \union {NoRequest}]
           /\ \A p \in Req \ {q} : req'[p] = req[p]
           /\ At(q, "answer")' /\ req'[q].outcome = o
           /\ req'[q].event = req[q].event /\ req'[q].route = req[q].route
  <1>1. req[q] \in Request /\ req \in [Req -> Request \union {NoRequest}]
    BY KeyTyped DEF TypeOK
  <1>2. /\ req'[q] = [req[q] EXCEPT !.pc = "answer", !.outcome = o]
        /\ req' = [req EXCEPT ![q] = [req[q] EXCEPT !.pc = "answer", !.outcome = o]]
    BY <1>1 DEF Answer
  <1>3. [req[q] EXCEPT !.pc = "answer", !.outcome = o] \in Request
    BY <1>1 DEF Request
  <1>4. QED
    BY <1>1, <1>2, <1>3 DEF At, Request

\* The invariant's parts about what is kept, when nobody is told anything.
LEMMA KeptStep ==
    ASSUME IngestInv, Preserves, delivered \subseteq delivered', UNCHANGED told,
           \A p \in Req : (At(p, "answer")' /\ req'[p].outcome = "accepted")
                             => req'[p] = req[p] \/ Kept(eventIdempotencyKey(p))'
    PROVE  AckedIsKept' /\ AnswersKept'
  <1>1. AckedIsKept'
    BY KeptStays DEF IngestInv, AckedIsKept
  <1>2. ASSUME NEW p \in Req, At(p, "answer")', req'[p].outcome = "accepted", req'[p] = req[p]
        PROVE  Kept(eventIdempotencyKey(p))'
    <2> DEFINE k == eventIdempotencyKey(p)
    <2>1. Kept(k)
      BY <1>2 DEF IngestInv, AnswersKept, At
    <2>2. \A x : Kept(x) => Kept(x)'
      BY KeptStays
    <2>3. eventIdempotencyKey(p)' = k
      BY <1>2 DEF eventIdempotencyKey
    <2>4. QED
      BY <2>1, <2>2, <2>3
  <1>3. QED
    BY <1>1, <1>2 DEF AnswersKept

\* The table and what End Close has are left alone.
LEMMA PreservesSame == UNCHANGED <<rows, delivered>> => Preserves /\ delivered \subseteq delivered'
  BY DEF Preserves, Present

-----------------------------------------------------------------------------
(* Every step keeps the invariant.                                          *)

\* A request sent, or sent again, has no answer yet.
LEMMA SendStep ==
    ASSUME IngestInv, NEW q \in Req, NEW e \in Event, NEW r \in Route, Send(q, e, r)
    PROVE  IngestInv'
  <1> DEFINE new == [NoRequest EXCEPT !.pc = "route", !.event = e, !.route = r]
  <1>1. new \in Request /\ new.pc = "route"
    BY DEF NoRequest, Request
  <1>2. req' = [req EXCEPT ![q] = new] /\ UNCHANGED <<rows, envVars, told, delivered, faults, ops>>
        /\ sends' = sends + 1 /\ sends < MaxSends
    BY DEF Send
  <1>3. TypeOK'
    BY <1>1, <1>2, IngestBoundAssumption DEF Send, IngestInv, TypeOK, envVars
  <1>4. \A p \in Req : req'[p] = IF p = q THEN new ELSE req[p]
    BY <1>2 DEF IngestInv, TypeOK
  <1>5. AckedIsKept' /\ AnswersKept'
    BY <1>1, <1>2, <1>4, KeptStep, PreservesSame DEF At
  <1>6. PanicHolds'
    BY <1>1, <1>2, <1>4 DEF Send, IngestInv, TypeOK, PanicHolds, At, envVars
  <1>7. QED
    BY <1>3, <1>5, <1>6 DEF IngestInv

\* A step of the handler keeps what was acknowledged.
LEMMA HandleStep ==
    ASSUME IngestInv, NEW q \in Req, LookupRoute(q) \/ \E v \in Rejections \union {"ok"} : CheckRequest(q, v)
    PROVE  IngestInv'
  <1>1. ~At(q, "none") /\ Handling /\ UNCHANGED <<rows, faults>>
    BY DEF LookupRoute, CheckRequest, At
  <1>2. req[q] \in Request /\ req \in [Req -> Request \union {NoRequest}]
    BY <1>1, KeyTyped DEF IngestInv, TypeOK
  <1>3. CASE \E o \in Outcome \ {"accepted"} : Answer(q, o)
    <2>1. TypeOK'
      BY <1>1, <1>3, AnswerFacts DEF IngestInv, TypeOK, Handling, envVars
    <2>2. AckedIsKept' /\ AnswersKept'
      BY <1>1, <1>3, AnswerFacts, KeptStep, PreservesSame DEF IngestInv, Handling
    <2>3. PanicHolds'
      BY <1>1, <1>3, AnswerFacts DEF IngestInv, TypeOK, PanicHolds, At, Handling, envVars
    <2>4. QED
      BY <2>1, <2>2, <2>3 DEF IngestInv
  <1>4. CASE At(q, "route") /\ \E f \in BOOLEAN :
               req' = [req EXCEPT ![q].pc = "killswitch", ![q].filtered = f]
    <2>1. PICK f \in BOOLEAN : req' = [req EXCEPT ![q] =
                                  [req[q] EXCEPT !.pc = "killswitch", !.filtered = f]]
      BY <1>4
    <2> DEFINE new == [req[q] EXCEPT !.pc = "killswitch", !.filtered = f]
    <2>2. new \in Request /\ new.pc = "killswitch"
      BY <1>2 DEF Request
    <2>3. req' \in [Req -> Request \union {NoRequest}]
          /\ \A p \in Req : req'[p] = IF p = q THEN new ELSE req[p]
      BY <1>2, <2>1, <2>2
    <2>4. TypeOK'
      BY <1>1, <2>3 DEF IngestInv, TypeOK, Handling, envVars
    <2>5. AckedIsKept' /\ AnswersKept'
      BY <1>1, <2>2, <2>3, KeptStep, PreservesSame DEF At, Handling
    <2>6. PanicHolds'
      BY <1>1, <2>2, <2>3 DEF IngestInv, TypeOK, PanicHolds, At, Handling, envVars
    <2>7. QED
      BY <2>4, <2>5, <2>6 DEF IngestInv
  <1>5. CASE killswitch # "panic" /\ req' = [req EXCEPT ![q].pc = "insert"]
    <2> DEFINE new == [req[q] EXCEPT !.pc = "insert"]
    <2>1. req' = [req EXCEPT ![q] = new]
      BY <1>5
    <2>2. new \in Request /\ new.pc = "insert"
      BY <1>2 DEF Request
    <2>3. req' \in [Req -> Request \union {NoRequest}]
          /\ \A p \in Req : req'[p] = IF p = q THEN new ELSE req[p]
      BY <1>2, <2>1, <2>2
    <2>4. TypeOK'
      BY <1>1, <2>3 DEF IngestInv, TypeOK, Handling, envVars
    <2>5. AckedIsKept' /\ AnswersKept'
      BY <1>1, <2>2, <2>3, KeptStep, PreservesSame DEF At, Handling
    <2>6. PanicHolds'
      BY <1>1, <1>5 DEF IngestInv, PanicHolds, Handling, envVars
    <2>7. QED
      BY <2>4, <2>5, <2>6 DEF IngestInv
  <1>6. CASE LookupRoute(q)
    <2>1. CASE req[q].route \in known
      <3>1. (req[q].event \notin passes[req[q].route]) \in BOOLEAN
        BY Zenon
      <3>2. QED
        BY <1>4, <1>6, <2>1, <3>1 DEF LookupRoute
    <2>2. CASE req[q].route \notin known
      BY <1>3, <1>6, <2>2 DEF LookupRoute, Outcome
    <2>3. QED
      BY <2>1, <2>2
  <1>7. CASE \E v \in Rejections \union {"ok"} : CheckRequest(q, v)
    BY <1>3, <1>5, <1>7 DEF CheckRequest, Outcome, Rejections
  <1>8. QED
    BY <1>6, <1>7

\* The insert, whose answer may be lost or replaced by an error.
LEMMA InsertStep ==
    ASSUME IngestInv, NEW q \in Req, InsertEvent(q)
    PROVE  IngestInv'
  <1>1. /\ At(q, "insert") /\ ~At(q, "none")
        /\ UNCHANGED <<envVars, told, delivered, panicked, sends, ops, faults>>
    BY DEF InsertEvent, At, Handling
  <1>2. PICK o \in {"duplicate", "filtered", "accepted"} :
          /\ Answer(q, o)
          /\ \/ UNCHANGED rows /\ o = "duplicate"
             \/ /\ NextRowid(rows) \in Id
                /\ rows' = Insert(rows, NextRowid(rows), InsertedRow(q))
                /\ o = "accepted" => ~req[q].filtered
    BY DEF InsertEvent
  <1>3. o \in Outcome
    BY DEF Outcome
  <1>4. rows' \in Table /\ Preserves
    BY <1>1, <1>2, InsertFacts, PreservesSame DEF IngestInv, TypeOK
  <1>5. TypeOK'
    BY <1>1, <1>2, <1>3, <1>4, AnswerFacts DEF IngestInv, TypeOK, envVars
  <1>6. ASSUME o = "accepted" PROVE Kept(eventIdempotencyKey(q))'
    <2> DEFINE k == eventIdempotencyKey(q)
    <2>1. \A x : x = k => Kept(x)'
      BY <1>1, <1>2, <1>6, InsertFacts DEF IngestInv
    <2>2. eventIdempotencyKey(q)' = k
      BY <1>1, <1>2, <1>3, AnswerFacts DEF IngestInv, eventIdempotencyKey
    <2>3. QED
      BY <2>1, <2>2
  <1>7. \A p \in Req : (At(p, "answer")' /\ req'[p].outcome = "accepted")
                          => req'[p] = req[p] \/ Kept(eventIdempotencyKey(p))'
    BY <1>1, <1>2, <1>3, <1>6, AnswerFacts DEF IngestInv
  <1>8. AckedIsKept' /\ AnswersKept'
    BY <1>1, <1>4, <1>7, KeptStep
  <1>9. PanicHolds'
    BY <1>1, <1>2, <1>3, AnswerFacts DEF IngestInv, TypeOK, PanicHolds, At, envVars
  <1>10. QED
    BY <1>5, <1>8, <1>9 DEF IngestInv

\* A failing insert acknowledges nothing, whether or not it was committed.
LEMMA StoreFailsStep ==
    ASSUME IngestInv, NEW q \in Req, NEW o \in Failures, StoreFails(q, o)
    PROVE  IngestInv'
  <1>1. /\ ~At(q, "none") /\ Answer(q, o) /\ o \in Outcome /\ o # "accepted"
        /\ UNCHANGED <<envVars, told, delivered, panicked, sends, ops>>
        /\ faults < MaxFaults /\ faults' = faults + 1
    BY DEF StoreFails, Fail, At, Outcome, Failures
  <1>2. rows' \in Table /\ Preserves
    BY <1>1, InsertFacts, PreservesSame DEF StoreFails, IngestInv, TypeOK
  <1>3. TypeOK'
    BY <1>1, <1>2, AnswerFacts, IngestBoundAssumption DEF IngestInv, TypeOK, envVars
  <1>4. AckedIsKept' /\ AnswersKept'
    BY <1>1, <1>2, AnswerFacts, KeptStep DEF IngestInv
  <1>5. PanicHolds'
    BY <1>1, AnswerFacts DEF IngestInv, TypeOK, PanicHolds, At, envVars
  <1>6. QED
    BY <1>3, <1>4, <1>5 DEF IngestInv

\* Requests that end without a word: a lost answer, a crash.
LEMMA ForgetStep ==
    ASSUME IngestInv, Fail, UNCHANGED <<rows, told>>,
           \/ \E q \in Req : req' = [req EXCEPT ![q] = NoRequest]
           \/ req' = [q \in Req |-> NoRequest]
    PROVE  IngestInv'
  <1>1. \A p \in Req : req'[p] = req[p] \/ req'[p] = NoRequest
    BY DEF IngestInv, TypeOK
  <1>2. TypeOK'
    BY IngestBoundAssumption DEF Fail, IngestInv, TypeOK, envVars
  <1>3. AckedIsKept' /\ AnswersKept'
    BY <1>1, KeptStep, PreservesSame DEF Fail, At, NoRequest
  <1>4. PanicHolds'
    BY <1>1 DEF Fail, IngestInv, TypeOK, PanicHolds, At, NoRequest, envVars
  <1>5. QED
    BY <1>2, <1>3, <1>4 DEF IngestInv

\* The sender hears the answer.
LEMMA ReceiveStep ==
    ASSUME IngestInv, NEW q \in Req, Receive(q)
    PROVE  IngestInv'
  <1>1. /\ At(q, "answer") /\ ~At(q, "none") /\ req' = [req EXCEPT ![q] = NoRequest]
        /\ UNCHANGED <<rows, envVars, delivered, boundVars>> /\ panicked' = panicked \ {q}
    BY DEF Receive, At
  <1>2. req[q] \in Request /\ \A p \in Req : req'[p] = IF p = q THEN NoRequest ELSE req[p]
    BY <1>1, KeyTyped DEF IngestInv, TypeOK
  <1>3. told' \subseteq Event \X Route \X Success
    BY <1>2 DEF Receive, IngestInv, TypeOK, Request
  <1>4. TypeOK'
    BY <1>1, <1>3 DEF IngestInv, TypeOK, envVars, boundVars
  <1>5. \A k : Kept(k) => Kept(k)'
    BY <1>1, KeptStays, PreservesSame
  <1>6. AckedIsKept'
    <2> SUFFICES ASSUME NEW e \in Event, NEW r \in Route, <<e, r, "accepted">> \in told'
                 PROVE  Kept(<<SourceOf[r], e>>)
      BY <1>5 DEF AckedIsKept
    <2>1. CASE <<e, r, "accepted">> \in told
      BY <2>1 DEF IngestInv, AckedIsKept
    <2>2. CASE <<e, r, "accepted">> \notin told
      <3>1. req[q].event = e /\ req[q].route = r /\ req[q].outcome = "accepted"
        BY <2>2 DEF Receive
      <3>2. QED
        BY <1>1, <3>1 DEF IngestInv, AnswersKept, eventIdempotencyKey
    <2>3. QED
      BY <2>1, <2>2
  <1>7. AnswersKept'
    <2> SUFFICES ASSUME NEW p \in Req, At(p, "answer")', req'[p].outcome = "accepted"
                 PROVE  Kept(eventIdempotencyKey(p))'
      BY DEF AnswersKept
    <2>1. req'[p] = req[p]
      BY <1>2 DEF At, NoRequest
    <2>2. Kept(eventIdempotencyKey(p))
      BY <2>1 DEF IngestInv, AnswersKept, At
    <2>3. eventIdempotencyKey(p)' = eventIdempotencyKey(p)
      BY <2>1 DEF eventIdempotencyKey
    <2>4. QED
      BY <1>5, <2>2, <2>3
  <1>8. PanicHolds'
    BY <1>1, <1>2 DEF IngestInv, TypeOK, PanicHolds, At, envVars
  <1>9. QED
    BY <1>4, <1>6, <1>7, <1>8 DEF IngestInv

\* Operators change neither requests nor rows.
LEMMA OperatorStep ==
    ASSUME IngestInv, Operator
    PROVE  IngestInv'
  <1>1. UNCHANGED <<rows, req, told, delivered, sends, faults>> /\ ops < MaxOps /\ ops' = ops + 1
    BY DEF Operator, SetKillswitch, ReplaceRoutes, Operate
  <1>2. /\ killswitch' \in {"none", "pause", "panic"} /\ known' \subseteq Route
        /\ passes' \in [Route -> SUBSET Event] /\ panicked' \subseteq Req
    BY DEF Operator, SetKillswitch, ReplaceRoutes, IngestInv, TypeOK
  <1>3. TypeOK'
    BY <1>1, <1>2, IngestBoundAssumption DEF IngestInv, TypeOK
  <1>4. AckedIsKept' /\ AnswersKept'
    BY <1>1, KeptStep, PreservesSame
  <1>5. PanicHolds'
    BY <1>1 DEF Operator, SetKillswitch, ReplaceRoutes, IngestInv, PanicHolds, At
  <1>6. QED
    BY <1>3, <1>4, <1>5 DEF IngestInv

\* The dispatcher and retention: a row goes to End Close, or is parked, or
\* was terminal.
LEMMA RowStep ==
    ASSUME IngestInv, NEW id \in Id,
           Expire(id) \/ Forward(id, "delivered") \/ Forward(id, "parked")
    PROVE  IngestInv'
  <1>1. UNCHANGED <<envVars, req, told, panicked, boundVars>> /\ delivered \subseteq delivered'
    BY DEF Expire, Forward
  <1>2. rows[id] \in Row /\ rows \in Table
    BY DEF Expire, Forward, IngestInv, TypeOK, Table, NoRow, TERMINAL
  <1>3. rows' \in Table /\ delivered' \subseteq Key /\ Preserves
    <2>1. CASE Expire(id)
      BY <1>2, <2>1 DEF Expire, Delete, Table, Preserves, Present, IngestInv, TypeOK
    <2>2. CASE Forward(id, "delivered")
      BY <1>2, <2>2 DEF Forward, MarkDelivered, Table, Row, Status, TERMINAL, Preserves, Present,
             IngestInv, TypeOK
    <2>3. CASE Forward(id, "parked")
      BY <1>2, <2>3 DEF Forward, MarkParked, Table, Row, Status, TERMINAL, Preserves, Present,
             IngestInv, TypeOK
    <2>4. QED
      BY <2>1, <2>2, <2>3
  <1>4. TypeOK'
    BY <1>1, <1>3 DEF IngestInv, TypeOK, envVars, boundVars
  <1>5. AckedIsKept' /\ AnswersKept'
    BY <1>1, <1>3, KeptStep
  <1>6. PanicHolds'
    BY <1>1 DEF IngestInv, PanicHolds, At, envVars
  <1>7. QED
    BY <1>4, <1>5, <1>6 DEF IngestInv

\* Nothing is acknowledged and nothing stored at first.
LEMMA IngestInit == Init => IngestInv
  <1> SUFFICES ASSUME Init PROVE IngestInv
    OBVIOUS
  <1>1. TypeOK
    BY IngestBoundAssumption DEF Init, TypeOK, EmptyTable, Table
  <1>2. AckedIsKept /\ AnswersKept /\ PanicHolds
    BY DEF Init, AckedIsKept, AnswersKept, PanicHolds, At, NoRequest
  <1>3. QED
    BY <1>1, <1>2 DEF IngestInv

\* Every step keeps the invariant.
LEMMA IngestStep == IngestInv /\ [Next]_vars => IngestInv'
  <1> SUFFICES ASSUME IngestInv, [Next]_vars PROVE IngestInv'
    OBVIOUS
  <1>1. ASSUME NEW q \in Req, Handle(q) PROVE IngestInv'
    BY <1>1, HandleStep, InsertStep DEF Handle
  <1>2. ASSUME NEW q \in Req, Breaks(q) PROVE IngestInv'
    BY <1>2, StoreFailsStep, ForgetStep DEF Breaks, LoseAnswer
  <1>3. CASE Crash
    BY <1>3, ForgetStep DEF Crash
  <1>4. CASE UNCHANGED vars
    <2>1. TypeOK'
      BY <1>4 DEF vars, envVars, boundVars, IngestInv, TypeOK
    <2>2. AckedIsKept' /\ AnswersKept'
      BY <1>4, KeptStep, PreservesSame DEF vars
    <2>3. PanicHolds'
      BY <1>4 DEF vars, envVars, IngestInv, PanicHolds, At
    <2>4. QED
      BY <2>1, <2>2, <2>3 DEF IngestInv
  <1>5. QED
    BY <1>1, <1>2, <1>3, <1>4, SendStep, ReceiveStep, OperatorStep, RowStep DEF Next

\* Type correctness of the webhook handler and its table.
THEOREM IngestTyped == Spec => []TypeOK
  <1>1. IngestInv => TypeOK
    BY DEF IngestInv
  <1>2. QED
    BY <1>1, IngestInit, IngestStep, PTL DEF Spec

\* An event that ingest.ts answered "accepted" is with End Close or in the
\* store, however many requests, faults and operators there are.
THEOREM AcceptedIsKept == Spec => []AckedIsKept
  <1>1. IngestInv => AckedIsKept
    BY DEF IngestInv
  <1>2. QED
    BY <1>1, IngestInit, IngestStep, PTL DEF Spec

\* No request sent under a panic that still lasts reaches the insert.
THEOREM PanicHasEffect == Spec => []PanicTakesHold
  <1>1. IngestInv => PanicTakesHold
    BY DEF IngestInv, PanicHolds, PanicTakesHold
  <1>2. QED
    BY <1>1, IngestInit, IngestStep, PTL DEF Spec
=============================================================================
