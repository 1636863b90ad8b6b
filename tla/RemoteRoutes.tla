------------------------------ MODULE RemoteRoutes ------------------------------
(***************************************************************************)
(* The route provider of an embedded host whose routes End Close holds     *)
(* (packages/core/src/engine/remote-config.ts): a document fetched on the  *)
(* first lookup, kept in memory, and fetched again in the background.      *)
(* Lookups come from webhook requests and dispatch cycles at any time, a   *)
(* request may overtake a change at End Close, and End Close may be down,  *)
(* refuse the key, stop managing the environment or serve a document that  *)
(* this host cannot run.                                                   *)
(*                                                                         *)
(* holdUntil and the heartbeat are compared with the clock only: each is   *)
(* a timer that runs out at some time.                                     *)
(***************************************************************************)
EXTENDS Naturals

CONSTANTS
    None,
    Lookup,         \* lookups that can wait together
    Slot,           \* requests that can be under way together
    MaxVersion,     \* bound on the documents End Close publishes
    MaxShifts       \* bound on how often what End Close answers changes

ASSUME RemoteAssumption ==
    MaxVersion \in Nat \ {0} /\ MaxShifts \in Nat /\ None \notin Slot /\ None \notin Nat

VARIABLES
    version, mood,          \* End Close: its document; what it answers
    shifts,                 \* how much of the bound is used
    cached, byId,           \* the document held; the routes looked up
    inFlight,               \* the request fetchNow hands out
    request,                \* the requests under way
    lastError, hold,        \* lastError set?; now < holdUntil
    announced, beatDue,     \* lastAnnouncedAt set?; heartbeatMs passed since?
    lookup                  \* lookups: idle, waiting for a request, or answered

endCloseVars == <<version, mood, shifts>>
announceVars == <<announced, beatDue>>
vars == <<endCloseVars, cached, byId, inFlight, request, lastError, hold,
          announceVars, lookup>>

\* RemoteConfigErrorKind: 404, 401 and 403, a body that is not a document
\* this host can run or an unexpected status, and no usable answer at all.
ErrorKind == {"not_found", "unauthorized", "invalid", "unavailable"}

\* A document with or without an ETag; End Close may not send one.
Document == [version : 1..MaxVersion, etag : BOOLEAN]
Answer == Document \union [kind : ErrorKind \union {"unchanged"}]

\* held: what the closure of the request captured; answer: what End Close
\* said, once it has.
Request == [held : Document \union {None}, answer : Answer \union {None}]

ASSUME NoneAssumption == None \notin Answer \union Request

Waiting(q) == [at |-> "waiting", slot |-> q]
Idle == [at |-> "idle", slot |-> None]
Ended(result) == [at |-> result, slot |-> None]

Init ==
    /\ version = 1 /\ mood \in {"serves", "not_found", "unavailable"} /\ shifts = 0
    /\ cached = None /\ byId = None
    /\ inFlight = None /\ request = [q \in Slot |-> None]
    /\ lastError = FALSE /\ hold = FALSE
    /\ announced = FALSE /\ beatDue = FALSE
    /\ lookup = [l \in Lookup |-> Idle]

-----------------------------------------------------------------------------
(* fetchNow: join the request under way or send one, after the manifest     *)
(* when that is due.                                                        *)

\* Also the mutation in which every call sends a request of its own.
SendRequest(q) ==
    /\ request[q] = None
    /\ request' = [request EXCEPT ![q] = [held |-> cached, answer |-> None]]
    /\ inFlight' = q
    /\ hold' = TRUE
    /\ announced' = TRUE /\ beatDue' = FALSE

fetchNow(q) ==
    IF inFlight # None
    THEN q = inFlight /\ UNCHANGED <<request, inFlight, hold, announceVars>>
    ELSE SendRequest(q)

\* End Close answers from what it is at that moment.  It says "unchanged"
\* only to a request that carried the ETag of its document.
Reply(q) ==
    /\ request[q] # None /\ request[q].answer = None
    /\ LET held == request[q].held
       IN  \E etag \in BOOLEAN :
             request' = [request EXCEPT ![q].answer =
                IF mood # "serves" THEN [kind |-> mood]
                ELSE IF held # None /\ held.etag /\ held.version = version
                THEN [kind |-> "unchanged"]
                ELSE [version |-> version, etag |-> etag]]
    /\ UNCHANGED <<endCloseVars, cached, byId, inFlight, lastError, hold, announceVars,
                   lookup>>

\* The lookups that await a request go on when it settles.
Wake(q, result) ==
    lookup' = [l \in Lookup |-> IF lookup[l] = Waiting(q) THEN Ended(result)
                                ELSE lookup[l]]

\* The then and catch of the request; a failure leaves holdUntil as the call
\* set it.
Settle(q) ==
    LET answer == request[q].answer
    IN  IF answer \in Document
        THEN /\ cached' = answer /\ byId' = answer.version
             /\ lastError' = FALSE /\ hold' = TRUE /\ Wake(q, "served")
        ELSE IF answer.kind = "unchanged"
        THEN /\ cached' = request[q].held /\ UNCHANGED byId
             /\ lastError' = FALSE /\ hold' = TRUE /\ Wake(q, "served")
        ELSE /\ UNCHANGED <<cached, byId, hold>>
             /\ lastError' = TRUE /\ Wake(q, "unavailable")

\* ... and its finally.
Settled(q) ==
    /\ request[q] # None /\ request[q].answer # None
    /\ Settle(q)
    /\ request' = [request EXCEPT ![q] = None]
    /\ inFlight' = None
    /\ UNCHANGED <<endCloseVars, announceVars>>

-----------------------------------------------------------------------------
(* ready, and the calls behind it: get and all.                             *)

LookupFails(l) ==
    /\ cached = None /\ inFlight = None /\ lastError /\ hold
    /\ lookup' = [lookup EXCEPT ![l] = Ended("unavailable")]
    /\ UNCHANGED <<request, inFlight, hold, announceVars>>

LookupWaits(l, q) ==
    /\ cached = None /\ (inFlight # None \/ ~lastError \/ ~hold)
    /\ fetchNow(q)
    /\ lookup' = [lookup EXCEPT ![l] = Waiting(q)]

\* Mutation: a document that is held is never fetched again.
LookupServesForever(l, q) ==
    /\ cached # None
    /\ lookup' = [lookup EXCEPT ![l] = Ended("served")]
    /\ UNCHANGED <<request, inFlight, hold, announceVars>>

\* Serve what is held; fetch in the background when it is old.
LookupServes(l, q) ==
    /\ cached # None
    /\ lookup' = [lookup EXCEPT ![l] = Ended("served")]
    /\ IF ~hold /\ inFlight = None THEN fetchNow(q)
       ELSE UNCHANGED <<request, inFlight, hold, announceVars>>

ready(l, q) ==
    /\ lookup[l] = Idle
    /\ LookupFails(l) \/ LookupWaits(l, q) \/ LookupServes(l, q)
    /\ UNCHANGED <<endCloseVars, cached, byId, lastError>>

Return(l) ==
    /\ lookup[l] \in {Ended("served"), Ended("unavailable")}
    /\ lookup' = [lookup EXCEPT ![l] = Idle]
    /\ UNCHANGED <<endCloseVars, cached, byId, inFlight, request, lastError, hold,
                   announceVars>>

\* refresh(): fetch whatever the age.  load() does so when nothing is held.
refresh(q) ==
    /\ fetchNow(q)
    /\ UNCHANGED <<endCloseVars, cached, byId, lastError, lookup>>

\* stop() of the relay: the shutdown manifest.
announce ==
    /\ announced' = TRUE /\ beatDue' = FALSE
    /\ UNCHANGED <<endCloseVars, cached, byId, inFlight, request, lastError, hold, lookup>>

-----------------------------------------------------------------------------
(* End Close and time.                                                      *)

Shift ==
    /\ shifts < MaxShifts /\ shifts' = shifts + 1
    /\ UNCHANGED <<cached, byId, inFlight, request, lastError, hold, announceVars, lookup>>

Publish ==
    /\ Shift /\ version < MaxVersion /\ version' = version + 1
    /\ UNCHANGED mood

ChangeMood(kind) == Shift /\ mood # kind /\ mood' = kind /\ UNCHANGED version

HoldPasses ==
    /\ hold /\ hold' = FALSE
    /\ UNCHANGED <<endCloseVars, cached, byId, inFlight, request, lastError,
                   announceVars, lookup>>

HeartbeatDue ==
    /\ announced /\ ~beatDue /\ beatDue' = TRUE
    /\ UNCHANGED <<endCloseVars, cached, byId, inFlight, request, lastError, hold,
                   announced, lookup>>

Looks == \E l \in Lookup : Return(l) \/ \E q \in Slot : ready(l, q)
Fetches == \E q \in Slot : Reply(q) \/ Settled(q)

Next ==
    \/ Looks \/ Fetches \/ announce \/ HoldPasses \/ HeartbeatDue \/ Publish
    \/ \E q \in Slot : refresh(q)
    \/ \E kind \in ErrorKind \union {"serves"} : ChangeMood(kind)

Spec == Init /\ [][Next]_vars

\* Webhooks and cycles keep looking up routes, requests settle (they have a
\* timeout) and holds run out.  End Close owes nothing.
Fairness ==
    /\ \A l \in Lookup : WF_vars(Return(l)) /\ WF_vars(\E q \in Slot : ready(l, q))
    /\ \A q \in Slot : WF_vars(Reply(q)) /\ WF_vars(Settled(q))
    /\ WF_vars(HoldPasses)

FairSpec == Spec /\ Fairness

-----------------------------------------------------------------------------
(* Properties.                                                              *)

\* Every variable has its type.
FlagsTyped ==
    /\ lastError \in BOOLEAN /\ hold \in BOOLEAN
    /\ announced \in BOOLEAN /\ beatDue \in BOOLEAN
TypeOK ==
    /\ version \in 1..MaxVersion /\ mood \in ErrorKind \union {"serves"}
    /\ shifts \in 0..MaxShifts
    /\ cached \in Document \union {None} /\ byId \in 1..MaxVersion \union {None}
    /\ inFlight \in Slot \union {None} /\ request \in [Slot -> Request \union {None}]
    /\ FlagsTyped
    /\ lookup \in [Lookup -> {Idle, Ended("served"), Ended("unavailable")}
                              \union {Waiting(q) : q \in Slot}]

\* Once a document is held nothing End Close answers takes it away, and a
\* late answer never brings an older one back.
DocumentNeverGoesBack ==
    [][cached # None => cached' # None /\ cached.version <= cached'.version]_vars

\* A lookup fails only while nothing has been loaded, however many wait on
\* however many requests.
FailsOnlyUnloaded ==
    [][\A l \in Lookup :
          (lookup[l].at = "waiting" /\ lookup'[l] = Ended("unavailable")) => cached = None]_vars

\* If End Close serves its document for good, the host comes to run it, from
\* any state: nothing loaded, an error held, an old document, a late answer.
ComesToRunIt ==
    <>[](mood = "serves") => <>[](cached # None /\ cached.version = version)
=============================================================================
