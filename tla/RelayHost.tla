------------------------------- MODULE RelayHost -------------------------------
(***************************************************************************)
(* One relay object as its host drives it (packages/core/src/engine/       *)
(* relay.ts): start, stop, dispatchOnce, flush and prune, over the two     *)
(* promise chains of packages/core/src/forward/dispatcher.ts.  A chain is  *)
(* a sequence of entries whose head is running: an entry is appended by    *)
(* this.inFlight = this.inFlight.then(...) and leaves when it settles.     *)
(*                                                                         *)
(* What a cycle does to one event is the business of module Dispatcher.    *)
(* Here a batch is claimed in one step and settled in another, other       *)
(* instances work on the same store, and a backoff elapses at some time.   *)
(***************************************************************************)
EXTENDS Naturals, Sequences, FiniteSets

CONSTANTS
    Event, Route, RouteOf,  \* the events that may arrive, and their routes
    BatchMax,               \* settings.ts: records per bulk POST
    MaxPrunes,              \* bound on queued prunes
    MaxOps,                 \* bound on calls of the host and operator actions
    MaxFaults,              \* bound on cycles and prunes that throw
    MaxRipe                 \* bound on batches of rows that retention may prune

ASSUME RouteOfAssumption == RouteOf \in [Event -> Route]
ASSUME HostBoundAssumption ==
    {BatchMax, MaxPrunes, MaxOps, MaxFaults, MaxRipe} \subseteq Nat

VARIABLES
    ev,                     \* where each event is
    halted, paused, known,  \* killswitch # 'none'; paused routes; known routes
    running, wakeRequested, \* Dispatcher fields
    chain, cyc,             \* inFlight; the cycle of its head
    prunes, ripe,           \* pruneWork; batches retention would still prune
    stopping, awaited,      \* the latest stop(): its position; entries it awaits
    flush, late, verdict,   \* flush(): position and locals; deadline; result
    before,                 \* history: events stored when flush was called
    fresh,                  \* history: events signalled since the last cycle began
    ops, faults             \* how much of each bound is used

controlVars == <<halted, paused, known>>
loopVars == <<running, wakeRequested>>
pruneVars == <<prunes, ripe>>
stopVars == <<stopping, awaited>>
flushVars == <<flush, late, verdict, before>>
boundVars == <<ops, faults>>
vars == <<ev, controlVars, loopVars, chain, cyc, pruneVars, stopVars, flushVars,
          fresh, boundVars>>

\* An event is none: not stored; due: pending or retry, and its time has come;
\* backoff: retry, not yet; claimed: delivering, by this relay's cycle; peer: by
\* another instance's; settled: delivered or parked.
In(S) == {e \in Event : ev[e] \in S}
RoutesIn(S) == {RouteOf[e] : e \in In(S)}

Entry == {"wake", "flush", "dispatch", "dispatchAndPrune"}

\* CycleSummary and the locals of cycle(); touched: its counts are not all 0.
NoCycle == [at |-> "entry", due |-> {}, skipped |-> [r \in {} |-> "paused"],
            touched |-> FALSE]

\* Where flush awaits, and the skipped routes of the summary it looks at.
NoFlush == [at |-> "idle", skipped |-> NoCycle.skipped]

Init ==
    /\ ev = [e \in Event |-> "none"]
    /\ halted = FALSE /\ paused = {} /\ known = Route
    /\ running = FALSE /\ wakeRequested = FALSE
    /\ chain = <<>> /\ cyc = NoCycle
    /\ prunes = <<>> /\ ripe \in 0..MaxRipe
    /\ stopping = "no" /\ awaited = 0
    /\ flush = NoFlush /\ late = FALSE /\ verdict = "none"
    /\ before = {} /\ fresh = {}
    /\ ops = 0 /\ faults = 0

Op == ops < MaxOps /\ ops' = ops + 1 /\ UNCHANGED faults
Fault == faults < MaxFaults /\ faults' = faults + 1 /\ UNCHANGED ops
Room == Len(prunes) < MaxPrunes

-----------------------------------------------------------------------------
(* start, stop, wake and the timers.                                        *)

\* Mutation: a wake only asks for a cycle when the chain is empty.
WakeWhenIdle ==
    /\ wakeRequested' = TRUE
    /\ chain' = IF chain = <<>> THEN <<"wake">> ELSE chain

\* Every wake appends an entry.  Neighbours are kept as one: the second finds
\* no request, or continues the loop of the first.
wake ==
    /\ wakeRequested' = TRUE
    /\ chain' = IF chain # <<>> /\ chain[Len(chain)] = "wake" THEN chain
                ELSE Append(chain, "wake")

start ==
    /\ Op /\ ~running /\ Room
    /\ running' = TRUE
    /\ wake
    /\ prunes' = Append(prunes, "scheduled")
    /\ UNCHANGED <<ev, controlVars, cyc, ripe, stopVars, flushVars, fresh>>

\* A timer fires while a cycle awaits something, never between an entry and
\* the test of its loop.
PollTimer ==
    /\ running /\ (chain # <<>> => cyc.at # "entry")
    /\ wake
    /\ UNCHANGED <<ev, controlVars, running, cyc, pruneVars, stopVars, flushVars,
                   fresh, boundVars>>

schedulePrune ==
    /\ running /\ Room
    /\ prunes' = Append(prunes, "scheduled")
    /\ UNCHANGED <<ev, controlVars, loopVars, chain, cyc, ripe, stopVars, flushVars,
                   fresh, boundVars>>

\* Mutation: stop waits for retention only.
StopAwaitsPrune ==
    /\ Op /\ running
    /\ running' = FALSE
    /\ stopping' = "prunes" /\ awaited' = Len(prunes)
    /\ UNCHANGED <<ev, controlVars, wakeRequested, chain, cyc, pruneVars, flushVars, fresh>>

\* stop awaits inFlight as it is now: the entries the chain has.
stop ==
    /\ Op /\ running
    /\ running' = FALSE
    /\ stopping' = "cycles" /\ awaited' = Len(chain)
    /\ UNCHANGED <<ev, controlVars, wakeRequested, chain, cyc, pruneVars, flushVars, fresh>>

\* ... and then pruneWork as it is by then.
StopGoesOn ==
    /\ stopping \in {"cycles", "prunes"} /\ awaited = 0
    /\ stopping' = IF stopping = "cycles" THEN "prunes" ELSE "stopped"
    /\ awaited' = IF stopping = "cycles" THEN Len(prunes) ELSE 0
    /\ UNCHANGED <<ev, controlVars, loopVars, chain, cyc, pruneVars, flushVars,
                   fresh, boundVars>>

\* An entry leaves its chain.
Settles(work) ==
    awaited' = IF stopping = work /\ awaited > 0 THEN awaited - 1 ELSE awaited

-----------------------------------------------------------------------------
(* The head of the chain: one cycle of a runOnce, or the loop of a wake.    *)

At(label) == chain # <<>> /\ cyc.at = label
Caller == Head(chain)

\* What the steps within a cycle leave alone.
InCycle == UNCHANGED <<controlVars, running, pruneVars, stopVars, flushVars, boundVars>>

BeginCycle ==
    /\ cyc' = [NoCycle EXCEPT !.at = "begin"]
    /\ fresh' = {}
    /\ InCycle /\ UNCHANGED <<ev, chain>>

WakeCycle ==
    /\ At("entry") /\ Caller = "wake" /\ running /\ wakeRequested
    /\ wakeRequested' = FALSE
    /\ BeginCycle

WakeEnds ==
    /\ At("entry") /\ Caller = "wake" /\ ~(running /\ wakeRequested)
    /\ chain' = Tail(chain) /\ Settles("cycles")
    /\ UNCHANGED <<ev, controlVars, loopVars, cyc, pruneVars, stopping, flushVars,
                   fresh, boundVars>>

runOnce ==
    /\ At("entry") /\ Caller # "wake"
    /\ BeginCycle /\ UNCHANGED wakeRequested

ListDue ==
    /\ At("begin") /\ ~halted
    /\ cyc' = [cyc EXCEPT !.at = "routes", !.due = RoutesIn({"due"})]
    /\ InCycle /\ UNCHANGED <<ev, wakeRequested, chain, fresh>>

\* Only the loop's cycles look at running.
aborts == Caller = "wake" /\ ~running

SkipRoute(r) ==
    /\ At("routes") /\ ~aborts /\ r \in cyc.due /\ r \notin known \ paused
    /\ cyc' = [cyc EXCEPT
                 !.due = @ \ {r},
                 !.skipped = [s \in {r} \union DOMAIN @ |->
                                 IF s # r THEN @[s]
                                 ELSE IF r \in known THEN "paused" ELSE "unknown_route"]]
    /\ InCycle /\ UNCHANGED <<ev, wakeRequested, chain, fresh>>

\* The route's due events, at most BatchMax of them.
ClaimBatch(r, batch) ==
    /\ At("routes") /\ ~aborts /\ r \in cyc.due /\ r \in known \ paused
    /\ LET due == {e \in In({"due"}) : RouteOf[e] = r}
       IN  /\ batch \subseteq due
           /\ Cardinality(batch) = IF Cardinality(due) < BatchMax
                                   THEN Cardinality(due) ELSE BatchMax
    /\ ev' = [e \in Event |-> IF e \in batch THEN "claimed" ELSE ev[e]]
    /\ cyc' = [cyc EXCEPT !.due = @ \ {r},
                          !.at = IF batch = {} THEN "routes" ELSE "batch"]
    /\ InCycle /\ UNCHANGED <<wakeRequested, chain, fresh>>

\* deliverBatch: each event of the batch is delivered, parked or retried.
SettleBatch(done) ==
    /\ At("batch") /\ done \subseteq In({"claimed"})
    /\ ev' = [e \in Event |-> IF ev[e] # "claimed" THEN ev[e]
                              ELSE IF e \in done THEN "settled" ELSE "backoff"]
    /\ cyc' = [cyc EXCEPT !.at = "routes", !.touched = TRUE]
    /\ InCycle /\ UNCHANGED <<wakeRequested, chain, fresh>>

-----------------------------------------------------------------------------
(* The end of a cycle: the loop tests its condition again, a caller of      *)
(* runOnce gets the summary or the error.                                   *)

Returns(result) ==
    flush' = NoFlush /\ late' = FALSE /\ verdict' = result /\ before' = {}

Awaits(label, skips) ==
    /\ flush' = [at |-> label, skipped |-> skips]
    /\ UNCHANGED <<late, verdict, before>>

\* Mutation: a cycle that did something is followed by another before the
\* deadline is looked at.
FlushTouchedFirst(outcome) ==
    IF outcome = "threw" THEN Returns("error")
    ELSE IF outcome = "halted" THEN Returns("paused")
    ELSE IF cyc.touched THEN Awaits("cycle", NoFlush.skipped)
    ELSE IF late THEN Returns("timeout")
    ELSE Awaits("backlog", cyc.skipped)

FlushLooks(outcome) ==
    IF outcome = "threw" THEN Returns("error")
    ELSE IF outcome = "halted" THEN Returns("paused")
    ELSE IF late THEN Returns("timeout")
    ELSE IF cyc.touched THEN Awaits("cycle", NoFlush.skipped)
    ELSE Awaits("backlog", cyc.skipped)

EndCycle(outcome) ==
    /\ cyc' = NoCycle
    /\ IF Caller = "flush" THEN FlushLooks(outcome) ELSE UNCHANGED flushVars
    /\ IF Caller = "wake" THEN UNCHANGED <<chain, awaited>>
       ELSE /\ Settles("cycles")
            /\ chain' = IF Caller = "flush" /\ flush'.at = "cycle"
                        THEN Append(Tail(chain), "flush") ELSE Tail(chain)
    /\ prunes' = IF Caller = "dispatchAndPrune" /\ outcome # "threw"
                 THEN Append(prunes, "now") ELSE prunes
    /\ UNCHANGED <<controlVars, loopVars, ripe, stopping, fresh>>

FinishCycle ==
    /\ \/ At("begin") /\ halted /\ EndCycle("halted")
       \/ At("routes") /\ (cyc.due = {} \/ aborts) /\ EndCycle("done")
    /\ UNCHANGED <<ev, boundVars>>

\* An exception; what the batch had claimed is released in the finally.
CycleThrows ==
    /\ At("begin") \/ At("routes") \/ At("batch")
    /\ Fault
    /\ ev' = [e \in Event |-> IF ev[e] = "claimed" THEN "due" ELSE ev[e]]
    /\ EndCycle("threw")

-----------------------------------------------------------------------------
(* What the host calls: dispatchOnce, flush, prune.                         *)

dispatchOnce(entry) ==
    /\ Op /\ Room
    /\ chain' = Append(chain, entry)
    /\ UNCHANGED <<ev, controlVars, loopVars, cyc, pruneVars, stopVars, flushVars, fresh>>

FlushCalled ==
    /\ Op /\ flush.at = "idle"
    /\ chain' = Append(chain, "flush")
    /\ flush' = [NoFlush EXCEPT !.at = "cycle"] /\ verdict' = "none"
    /\ before' = Event \ In({"none"})
    /\ UNCHANGED <<ev, controlVars, loopVars, cyc, pruneVars, stopVars, late, fresh>>

\* routesWithDueEvents(FAR_FUTURE): every pending or retry row.
backlog == RoutesIn({"due", "backoff"})

FlushChecksBacklog ==
    /\ flush.at = "backlog"
    /\ LET skips == flush.skipped
       IN  IF backlog = {} THEN Returns("drained")
           ELSE IF backlog \subseteq DOMAIN skips
           THEN Returns(IF \A r \in backlog : skips[r] = "paused" THEN "paused"
                        ELSE "unroutable")
           ELSE Awaits("sleep", NoFlush.skipped)
    /\ UNCHANGED <<ev, controlVars, loopVars, chain, cyc, pruneVars, stopVars, fresh,
                   boundVars>>

FlushSleeps ==
    /\ flush.at = "sleep"
    /\ chain' = Append(chain, "flush")
    /\ Awaits("cycle", NoFlush.skipped)
    /\ UNCHANGED <<ev, controlVars, loopVars, cyc, pruneVars, stopVars, fresh, boundVars>>

\* prune(): one call runs to the end; a scheduled one stops with the loop.
pruneNow ==
    /\ Op /\ Room
    /\ prunes' = Append(prunes, "now")
    /\ UNCHANGED <<ev, controlVars, loopVars, chain, cyc, ripe, stopVars, flushVars, fresh>>

\* Mutation: the loop ends only when it is aborted.
PruneUntilAborted ==
    /\ prunes # <<>>
    /\ IF Head(prunes) = "scheduled" /\ ~running
       THEN prunes' = Tail(prunes) /\ Settles("prunes") /\ UNCHANGED ripe
       ELSE /\ ripe' = IF ripe > 0 THEN ripe - 1 ELSE 0
            /\ UNCHANGED <<prunes, awaited>>
    /\ UNCHANGED <<ev, controlVars, loopVars, chain, cyc, stopping, flushVars, fresh,
                   boundVars>>

runPrune ==
    /\ prunes # <<>>
    /\ IF ripe > 0 /\ ~(Head(prunes) = "scheduled" /\ ~running)
       THEN ripe' = ripe - 1 /\ UNCHANGED <<prunes, awaited>>
       ELSE prunes' = Tail(prunes) /\ Settles("prunes") /\ UNCHANGED ripe
    /\ UNCHANGED <<ev, controlVars, loopVars, chain, cyc, stopping, flushVars, fresh,
                   boundVars>>

PruneThrows ==
    /\ prunes # <<>> /\ Fault
    /\ prunes' = Tail(prunes) /\ Settles("prunes")
    /\ UNCHANGED <<ev, controlVars, loopVars, chain, cyc, ripe, stopping, flushVars, fresh>>

-----------------------------------------------------------------------------
(* Ingest, operators, other instances, time.                                *)

Outside == UNCHANGED <<cyc, pruneVars, stopVars>>

\* The webhook handler stores an event and signals it; onSignal is attached
\* while the loop runs.
Ingest(e) ==
    /\ ev[e] = "none"
    /\ ev' = [ev EXCEPT ![e] = "due"]
    /\ IF running THEN wake /\ fresh' = fresh \union {e}
       ELSE UNCHANGED <<wakeRequested, chain, fresh>>
    /\ Outside /\ UNCHANGED <<controlVars, running, flushVars, boundVars>>

Operate(r) ==
    /\ Op
    /\ \/ halted' = ~halted /\ UNCHANGED <<paused, known>>
       \/ paused' = (paused \ {r}) \union ({r} \ paused) /\ UNCHANGED <<halted, known>>
       \/ known' = (known \ {r}) \union ({r} \ known) /\ UNCHANGED <<halted, paused>>
    /\ Outside /\ UNCHANGED <<ev, loopVars, chain, flushVars, fresh>>

\* A backoff elapses; another instance claims an event, and settles it,
\* fails it or loses its lease.
Moves == {<<"backoff", "due">>, <<"due", "peer">>, <<"peer", "settled">>,
          <<"peer", "backoff">>, <<"peer", "due">>}
Elsewhere(e, move) ==
    /\ ev[e] = move[1] /\ ev' = [ev EXCEPT ![e] = move[2]]
    /\ Outside
    /\ UNCHANGED <<controlVars, loopVars, chain, flushVars, fresh, boundVars>>

DeadlinePasses ==
    /\ flush.at # "idle" /\ ~late /\ late' = TRUE
    /\ Outside
    /\ UNCHANGED <<ev, controlVars, loopVars, chain, flush, verdict, before, fresh,
                   boundVars>>

-----------------------------------------------------------------------------
CycleStep ==
    \/ WakeCycle \/ WakeEnds \/ runOnce \/ ListDue \/ FinishCycle
    \/ \E r \in Route : SkipRoute(r) \/ \E batch \in SUBSET Event : ClaimBatch(r, batch)
    \/ \E done \in SUBSET Event : SettleBatch(done)

HostCall ==
    \/ start \/ stop \/ FlushCalled \/ pruneNow
    \/ dispatchOnce("dispatch") \/ dispatchOnce("dispatchAndPrune")

Timer == PollTimer \/ schedulePrune

Next ==
    \/ CycleStep \/ CycleThrows \/ FlushChecksBacklog \/ FlushSleeps
    \/ StopGoesOn \/ runPrune \/ PruneThrows
    \/ HostCall \/ Timer \/ DeadlinePasses
    \/ \E r \in Route : Operate(r)
    \/ \E e \in Event : Ingest(e) \/ \E move \in Moves : Elsewhere(e, move)

Spec == Init /\ [][Next]_vars

\* Every await returns, sleeps end and deadlines pass.  Nothing is assumed
\* of the poll timer: a signal alone must bring a cycle about.
Fairness ==
    /\ WF_vars(CycleStep) /\ WF_vars(FlushChecksBacklog) /\ WF_vars(FlushSleeps)
    /\ WF_vars(StopGoesOn) /\ WF_vars(runPrune) /\ WF_vars(DeadlinePasses)

FairSpec == Spec /\ Fairness

-----------------------------------------------------------------------------
(* Properties.                                                              *)

\* No wake is lost: a request that no cycle has taken yet has an entry in
\* the chain, running or queued, that will look at it.
WakeIsScheduled ==
    (running /\ wakeRequested) => \E n \in DOMAIN chain : chain[n] = "wake"

\* stop() has drained: when it has returned and nobody has started the relay
\* again, no wake is left that could begin a cycle, and no scheduled prune.
StoppedIsQuiet ==
    (stopping = "stopped" /\ ~running) =>
        /\ \A n \in DOMAIN chain : chain[n] # "wake"
        /\ \A n \in DOMAIN prunes : prunes[n] # "scheduled"

\* "True when nothing deliverable remained when flush returned" (FlushResult.drained
\* in relay.ts): of what was stored before the call nothing is still under way, with
\* the loop or with another instance, to come back when it fails.
DrainedMeansSettled ==
    [][(verdict' = "drained" /\ verdict # "drained") => before \subseteq In({"settled"})]_vars

\* A signalled event gets a cycle that begins after it was stored, with no
\* help from the poll timer, unless the relay is stopped.
SignalIsSeen ==
    \A e \in Event : (running /\ e \in fresh) ~> (e \notin fresh \/ ~running)

\* flush returns in a host that does not run the loop, however often events
\* fail and come due again.
FlushAloneReturns ==
    <>[](~running) => [](flush.at # "idle" => <>(flush.at = "idle"))

\* "Run dispatch cycles until nothing deliverable remains or timeoutMs passes"
\* (flush in relay.ts): it returns, whether or not the loop runs.
FlushReturns == (flush.at # "idle") ~> (flush.at = "idle")

\* stop returns, whatever is queued behind the work it awaits, unless the
\* relay is started again meanwhile.
StopReturns == (stopping = "cycles") ~> (stopping = "stopped" \/ running)
=============================================================================
