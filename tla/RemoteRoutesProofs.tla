-------------------------- MODULE RemoteRoutesProofs --------------------------
(***************************************************************************)
(* The safety theorems of RemoteRoutes, for any number of lookups, request *)
(* slots and documents: the document held is never taken away or turned    *)
(* back, and no lookup fails that could have been served.                  *)
(***************************************************************************)
EXTENDS RemoteRoutes, TLAPS

\* The calls of fetchNow share one request, which knows the document held.
OneRequest ==
    /\ \A q \in Slot : request[q] # None => inFlight = q /\ request[q].held = cached
    /\ inFlight # None => request[inFlight] # None

\* End Close never publishes backwards: the document held is not newer than
\* its own, and neither is an answer under way.  Only a host that holds a
\* document is told "unchanged".
Forward ==
    /\ cached # None => cached.version <= version
    /\ \A q \in Slot : request[q] # None =>
          /\ request[q].answer \in Document =>
                /\ request[q].answer.version <= version
                /\ cached # None => cached.version <= request[q].answer.version
          /\ request[q].answer = [kind |-> "unchanged"] => cached # None

\* A lookup waits only while nothing is held, for the request under way.
Waiters ==
    \A l \in Lookup, q \in Slot :
        lookup[l] = Waiting(q) => cached = None /\ request[q] # None

RemoteInv == TypeOK /\ OneRequest /\ Forward /\ Waiters

\* Documents, errors and None are told apart.
LEMMA Distinct ==
    /\ None \notin Document
    /\ \A k : [kind |-> k] \notin Document
    /\ \A k : [kind |-> k] # None \/ k \notin ErrorKind \union {"unchanged"}
    /\ \A r \in Request : r # None
    /\ \A q \in Slot : Waiting(q) \notin {Idle, Ended("served"), Ended("unavailable")}
  BY NoneAssumption DEF Document, Answer, Waiting, Idle, Ended

\* Nothing is loaded, asked or awaited at first.
LEMMA RemoteInit == Init => RemoteInv
  <1> SUFFICES ASSUME Init PROVE RemoteInv
    OBVIOUS
  <1>0. FlagsTyped
    BY Zenon DEF Init, FlagsTyped
  <1>1. TypeOK
    BY <1>0, RemoteAssumption DEF Init, TypeOK, ErrorKind
  <1>2. OneRequest /\ Forward /\ Waiters
    BY Distinct DEF Init, OneRequest, Forward, Waiters
  <1>3. QED
    BY <1>1, <1>2 DEF RemoteInv

\* fetchNow joins the request under way or, when there is none, sends one.
LEMMA FetchStep ==
    ASSUME RemoteInv, NEW q \in Slot, fetchNow(q), UNCHANGED <<endCloseVars, cached, byId, lastError>>
    PROVE  /\ inFlight' = q /\ request' \in [Slot -> Request \union {None}]
           /\ FlagsTyped'
           /\ OneRequest' /\ Forward'
           /\ \A r \in Slot : request[r] # None => request'[r] # None
           /\ request'[q] # None
  <1>0. FlagsTyped'
    BY Zenon DEF fetchNow, SendRequest, RemoteInv, TypeOK, FlagsTyped, announceVars
  <1>1. CASE inFlight # None
    BY <1>0, <1>1 DEF fetchNow, RemoteInv, TypeOK, OneRequest, Forward, endCloseVars
  <1>2. CASE inFlight = None
    <2> DEFINE new == [held |-> cached, answer |-> None]
    <2>1. /\ request[q] = None /\ request' = [request EXCEPT ![q] = new]
          /\ inFlight' = q
      BY <1>2 DEF fetchNow, SendRequest
    <2>2. new \in Request /\ new # None
      BY Distinct DEF RemoteInv, TypeOK, Request
    <2>3. \A r \in Slot : request[r] = None
      BY <1>2, RemoteAssumption DEF RemoteInv, OneRequest
    <2>4. request' \in [Slot -> Request \union {None}] /\ request'[q] = new
          /\ \A r \in Slot \ {q} : request'[r] = None
      BY <2>1, <2>2, <2>3 DEF RemoteInv, TypeOK
    <2>5. OneRequest'
      BY <2>1, <2>2, <2>4 DEF OneRequest
    <2>6. Forward'
      BY <2>4, Distinct, NoneAssumption DEF RemoteInv, Forward, endCloseVars, Answer
    <2>7. QED
      BY <1>0, <2>1, <2>2, <2>3, <2>4, <2>5, <2>6
  <1>3. QED
    BY <1>1, <1>2

\* A lookup joins the request under way or sends the only one.
LEMMA ReadyStep ==
    ASSUME RemoteInv, NEW l \in Lookup, NEW q \in Slot, ready(l, q)
    PROVE  RemoteInv'
  <1>0. UNCHANGED <<endCloseVars, cached, byId, lastError>>
    BY DEF ready
  <1> USE DEF RemoteInv
  <1>1. CASE UNCHANGED <<request, inFlight, hold, announceVars>> /\
             \E r \in {"served", "unavailable"} : lookup' = [lookup EXCEPT ![l] = Ended(r)]
    <2>0. FlagsTyped'
      BY <1>0, <1>1, Zenon DEF TypeOK, FlagsTyped, announceVars
    <2>1. TypeOK'
      BY <1>0, <1>1, <2>0 DEF TypeOK, endCloseVars
    <2>2. OneRequest' /\ Forward'
      BY <1>0, <1>1 DEF OneRequest, Forward, endCloseVars
    <2>3. Waiters'
      BY <1>0, <1>1, Distinct DEF Waiters, TypeOK
    <2>4. QED
      BY <2>1, <2>2, <2>3
  <1>2. CASE cached = None /\ fetchNow(q) /\ lookup' = [lookup EXCEPT ![l] = Waiting(q)]
    <2>1. TypeOK'
      BY <1>0, <1>2, FetchStep DEF TypeOK, endCloseVars
    <2>2. OneRequest' /\ Forward'
      BY <1>0, <1>2, FetchStep
    <2>4. Waiters'
      BY <1>0, <1>2, FetchStep, Distinct DEF Waiters, TypeOK, Waiting
    <2>5. QED
      BY <2>1, <2>2, <2>4
  <1>3. CASE cached # None /\ fetchNow(q) /\ lookup' = [lookup EXCEPT ![l] = Ended("served")]
    <2>1. TypeOK'
      BY <1>0, <1>3, FetchStep DEF TypeOK, endCloseVars
    <2>2. OneRequest' /\ Forward'
      BY <1>0, <1>3, FetchStep
    <2>3. Waiters'
      BY <1>0, <1>3, Distinct DEF Waiters, TypeOK
    <2>4. QED
      BY <2>1, <2>2, <2>3
  <1>4. QED
    BY <1>1, <1>2, <1>3 DEF ready, LookupFails, LookupWaits, LookupServes

\* An answer comes from the document that End Close has by then.
LEMMA ReplyStep ==
    ASSUME RemoteInv, NEW q \in Slot, Reply(q)
    PROVE  RemoteInv'
  <1> USE DEF RemoteInv
  <1>1. PICK answer : /\ request' = [request EXCEPT ![q].answer = answer]
                      /\ \/ mood # "serves" /\ answer = [kind |-> mood]
                         \/ request[q].held # None /\ answer = [kind |-> "unchanged"]
                         \/ \E etag \in BOOLEAN : answer = [version |-> version, etag |-> etag]
    BY DEF Reply
  <1>2. UNCHANGED <<endCloseVars, cached, byId, inFlight, lastError, hold, announceVars, lookup>>
        /\ request[q] # None
    BY DEF Reply
  <1>3. answer \in Answer
    BY <1>1 DEF TypeOK, Answer, Document
  <1>4. /\ request[q] \in Request
        /\ request'[q] = [request[q] EXCEPT !.answer = answer]
        /\ \A r \in Slot \ {q} : request'[r] = request[r]
    BY <1>1, <1>2 DEF TypeOK
  <1>5. /\ request'[q] \in Request /\ request'[q] # None
        /\ request'[q].held = request[q].held /\ request'[q].answer = answer
    BY <1>3, <1>4, Distinct DEF Request
  <1>6. FlagsTyped' /\ TypeOK'
    <2>1. FlagsTyped'
      BY <1>2, Zenon DEF TypeOK, FlagsTyped, announceVars
    <2>2. QED
      BY <1>1, <1>2, <1>4, <1>5, <2>1 DEF TypeOK, endCloseVars
  <1>7. OneRequest'
    BY <1>2, <1>4, <1>5 DEF OneRequest, TypeOK
  <1>8. /\ answer \in Document => answer.version = version
        /\ answer = [kind |-> "unchanged"] => request[q].held # None
    BY <1>1, Distinct DEF ErrorKind, TypeOK
  <1>9. Forward'
    <2>1. version \in Nat /\ version' = version /\ cached' = cached
      BY <1>2, RemoteAssumption DEF TypeOK, endCloseVars
    <2>2. request[q].held = cached
      BY <1>2 DEF OneRequest
    <2>3. /\ answer \in Document =>
                /\ answer.version <= version
                /\ cached # None => cached.version <= answer.version
          /\ answer = [kind |-> "unchanged"] => cached # None
      BY <1>8, <2>1, <2>2 DEF Forward
    <2>4. /\ request'[q].answer \in Document =>
                /\ request'[q].answer.version <= version'
                /\ cached' # None => cached'.version <= request'[q].answer.version
          /\ request'[q].answer = [kind |-> "unchanged"] => cached' # None
      BY <1>5, <2>1, <2>3
    <2>5. QED
      BY <1>4, <2>1, <2>4 DEF Forward
  <1>10. Waiters'
    BY <1>2, <1>4, <1>5 DEF Waiters
  <1>11. QED
    BY <1>6, <1>7, <1>9, <1>10

\* What the then and catch of the request under way do.
LEMMA SettleFacts ==
    ASSUME RemoteInv, NEW q \in Slot, Settled(q)
    PROVE  /\ inFlight = q /\ inFlight' = None
           /\ request' = [r \in Slot |-> None]
           /\ UNCHANGED <<endCloseVars, announceVars>>
           /\ cached' \in Document \union {None} /\ byId' \in 1..MaxVersion \union {None}
           /\ FlagsTyped'
           /\ cached' # None => cached'.version <= version
           /\ cached # None => cached' # None /\ cached.version <= cached'.version
           /\ \/ Wake(q, "served")
              \/ Wake(q, "unavailable") /\ UNCHANGED cached
  <1> USE DEF RemoteInv
  <1>0. FlagsTyped'
    BY Zenon DEF Settled, Settle, TypeOK, FlagsTyped, announceVars
  <1>1. request[q] \in Request /\ request[q].answer \in Answer
    BY DEF Settled, TypeOK, Request
  <1>2. inFlight = q /\ request[q].held = cached
    BY DEF Settled, OneRequest
  <1>3. request' = [r \in Slot |-> None]
    BY <1>2 DEF Settled, OneRequest, TypeOK
  <1>4. CASE request[q].answer \in Document
    BY <1>0, <1>1, <1>2, <1>3, <1>4, Distinct DEF Settled, Settle, Forward, TypeOK, Document
  <1>5. CASE request[q].answer \notin Document /\ request[q].answer.kind = "unchanged"
    <2>1. request[q].answer = [kind |-> "unchanged"]
      BY <1>1, <1>5 DEF Answer
    <2>2. cached # None /\ cached \in Document
      BY <2>1 DEF Forward, Settled, TypeOK
    <2>3. cached' = cached /\ byId' = byId /\ Wake(q, "served")
      BY <1>2, <1>5 DEF Settled, Settle
    <2>4. cached.version \in Nat
      BY <2>2, RemoteAssumption DEF Document
    <2>5. cached' \in Document /\ byId' \in 1..MaxVersion \union {None}
      BY <2>2, <2>3 DEF TypeOK
    <2>6. cached'.version <= version /\ cached.version <= cached'.version
      BY <2>2, <2>3, <2>4 DEF Forward
    <2>7. QED
      BY <1>0, <1>2, <1>3, <2>2, <2>3, <2>5, <2>6 DEF Settled
  <1>6. CASE request[q].answer \notin Document /\ request[q].answer.kind # "unchanged"
    <2>1. UNCHANGED <<cached, byId>> /\ Wake(q, "unavailable")
      BY <1>6 DEF Settled, Settle
    <2>2. cached # None => cached.version \in Nat
      BY RemoteAssumption DEF TypeOK, Document
    <2>3. cached' \in Document \union {None} /\ byId' \in 1..MaxVersion \union {None}
      BY <2>1 DEF TypeOK
    <2>4. /\ cached' # None => cached'.version <= version
          /\ cached # None => cached' # None /\ cached.version <= cached'.version
      BY <2>1, <2>2 DEF Forward
    <2>5. QED
      BY <1>0, <1>2, <1>3, <2>1, <2>3, <2>4 DEF Settled
  <1>7. QED
    BY <1>4, <1>5, <1>6

\* An answer settles the one request and everyone who waits for it.
LEMMA SettledStep ==
    ASSUME RemoteInv, NEW q \in Slot, Settled(q)
    PROVE  RemoteInv'
  <1> USE DEF RemoteInv
  <1>1. TypeOK'
    BY SettleFacts DEF TypeOK, Wake, endCloseVars
  <1>2. OneRequest' /\ Forward'
    BY SettleFacts DEF OneRequest, Forward, endCloseVars
  <1>3. \A l \in Lookup, r \in Slot : lookup'[l] # Waiting(r)
    <2> SUFFICES ASSUME NEW l \in Lookup, NEW r \in Slot, lookup'[l] = Waiting(r)
                 PROVE  FALSE
      OBVIOUS
    <2>1. lookup[l] # Waiting(q) /\ lookup[l] = Waiting(r)
      BY SettleFacts, Distinct DEF Wake
    <2>2. request[r] # None
      BY <2>1 DEF Waiters
    <2>3. QED
      BY <2>1, <2>2, SettleFacts DEF OneRequest
  <1>4. QED
    BY <1>1, <1>2, <1>3 DEF Waiters

\* Every step keeps the invariant.
LEMMA RemoteStep == RemoteInv /\ [Next]_vars => RemoteInv'
  <1> SUFFICES ASSUME RemoteInv, [Next]_vars PROVE RemoteInv'
    OBVIOUS
  <1>1. ASSUME UNCHANGED <<cached, request, inFlight, byId>>,
               version \in Nat /\ version <= version', version' \in 1..MaxVersion,
               mood' \in ErrorKind \union {"serves"}, shifts' \in 0..MaxShifts,
               FlagsTyped',
               \/ UNCHANGED lookup
               \/ \E l \in Lookup : lookup' = [lookup EXCEPT ![l] = Idle]
        PROVE  RemoteInv'
    <2>1. TypeOK'
      BY <1>1 DEF RemoteInv, TypeOK
    <2>2. OneRequest'
      BY <1>1 DEF RemoteInv, OneRequest
    <2>3. Forward'
      <3>1. cached # None => cached.version \in Nat
        BY RemoteAssumption DEF RemoteInv, TypeOK, Document
      <3>2. \A q \in Slot : request[q] # None /\ request[q].answer \in Document
                              => request[q].answer.version \in Nat
        BY RemoteAssumption DEF Document
      <3>3. QED
        BY <1>1, <3>1, <3>2 DEF RemoteInv, Forward, TypeOK
    <2>4. Waiters'
      BY <1>1, Distinct DEF RemoteInv, Waiters, TypeOK
    <2>5. QED
      BY <2>1, <2>2, <2>3, <2>4 DEF RemoteInv
  <1>2. version \in Nat
    BY RemoteAssumption DEF RemoteInv, TypeOK
  <1>3. ASSUME NEW l \in Lookup, Return(l) PROVE RemoteInv'
    <2>1. FlagsTyped'
      BY <1>3, Zenon DEF Return, RemoteInv, TypeOK, FlagsTyped, announceVars
    <2>2. UNCHANGED <<cached, request, inFlight, byId, version, mood, shifts>>
          /\ \E k \in Lookup : lookup' = [lookup EXCEPT ![k] = Idle]
      BY <1>3 DEF Return, endCloseVars
    <2>3. /\ version <= version' /\ version' \in 1..MaxVersion
          /\ mood' \in ErrorKind \union {"serves"} /\ shifts' \in 0..MaxShifts
      BY <1>2, <2>2 DEF RemoteInv, TypeOK
    <2>4. QED
      BY <1>1, <1>2, <2>1, <2>2, <2>3
  <1>4. ASSUME NEW q \in Slot, refresh(q) PROVE RemoteInv'
    <2>1. UNCHANGED <<endCloseVars, cached, byId, lastError, lookup>> /\ fetchNow(q)
      BY <1>4 DEF refresh
    <2>2. TypeOK'
      BY <2>1, FetchStep DEF RemoteInv, TypeOK, endCloseVars
    <2>3. Waiters'
      BY <2>1, FetchStep DEF RemoteInv, Waiters
    <2>4. QED
      BY <2>1, <2>2, <2>3, FetchStep DEF RemoteInv
  <1>5. ASSUME announce \/ HoldPasses \/ HeartbeatDue PROVE RemoteInv'
    <2>1. FlagsTyped'
      BY <1>5, Zenon DEF announce, HoldPasses, HeartbeatDue, RemoteInv, TypeOK, FlagsTyped,
             announceVars
    <2>2. QED
      BY <1>1, <1>2, <1>5, <2>1 DEF announce, HoldPasses, HeartbeatDue, RemoteInv, TypeOK,
             endCloseVars
  <1>6. ASSUME Publish \/ \E kind \in ErrorKind \union {"serves"} : ChangeMood(kind)
        PROVE  RemoteInv'
    <2>1. FlagsTyped'
      BY <1>6, Zenon DEF Publish, ChangeMood, Shift, RemoteInv, TypeOK, FlagsTyped, announceVars
    <2>2. QED
      BY <1>1, <1>2, <1>6, <2>1, RemoteAssumption DEF Publish, ChangeMood, Shift, RemoteInv,
             TypeOK
  <1>7. CASE UNCHANGED vars
    <2>1. FlagsTyped'
      BY <1>7, Zenon DEF vars, RemoteInv, TypeOK, FlagsTyped, announceVars
    <2>2. QED
      BY <1>1, <1>2, <1>7, <2>1 DEF vars, RemoteInv, TypeOK, endCloseVars
  <1>8. QED
    BY <1>3, <1>4, <1>5, <1>6, <1>7, ReadyStep, ReplyStep, SettledStep
       DEF Next, Looks, Fetches

\* Type correctness of the route provider.
THEOREM RemoteTyped == Spec => []TypeOK
  <1>1. RemoteInv => TypeOK
    BY DEF RemoteInv
  <1>2. QED
    BY <1>1, RemoteInit, RemoteStep, PTL DEF Spec

\* The document that remote-config.ts holds is never taken away or turned
\* back, whatever End Close answers and however late.
THEOREM NeverBack == Spec => DocumentNeverGoesBack
  <1>1. ASSUME RemoteInv, [Next]_vars
        PROVE  [cached # None => cached' # None /\ cached.version <= cached'.version]_vars
    <2>1. cached # None => cached.version \in Nat
      BY <1>1, RemoteAssumption DEF RemoteInv, TypeOK, Document
    <2>2. CASE UNCHANGED cached
      BY <2>1, <2>2
    <2>3. CASE \E q \in Slot : Settled(q)
      BY <1>1, <2>3, SettleFacts
    <2>4. QED
      BY <1>1, <2>2, <2>3 DEF Next, Looks, Fetches, Return, ready, Reply, refresh, announce,
             HoldPasses, HeartbeatDue, Publish, ChangeMood, Shift, vars
  <1>2. QED
    BY <1>1, RemoteInit, RemoteStep, PTL DEF Spec, DocumentNeverGoesBack

\* A lookup that waits is refused only while nothing has been loaded: those
\* who could be served never share the failure of a request.
THEOREM FailureIsForTheUnloaded == Spec => FailsOnlyUnloaded
  <1>1. ASSUME RemoteInv
        PROVE  [\A l \in Lookup :
                  (lookup[l].at = "waiting" /\ lookup'[l] = Ended("unavailable"))
                      => cached = None]_vars
    <2>1. ASSUME NEW l \in Lookup, lookup[l].at = "waiting" PROVE cached = None
      <3>1. \E q \in Slot : lookup[l] = Waiting(q)
        BY <1>1, <2>1 DEF RemoteInv, TypeOK, Idle, Ended, Waiting
      <3>2. QED
        BY <1>1, <3>1 DEF RemoteInv, Waiters
    <2>2. QED
      BY <2>1
  <1>2. QED
    BY <1>1, RemoteInit, RemoteStep, PTL DEF Spec, FailsOnlyUnloaded
=============================================================================
