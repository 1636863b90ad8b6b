----------------------------- MODULE RelayHostProofs -----------------------------
(***************************************************************************)
(* The promise chains of a relay, for every set of events and routes, any  *)
(* number of host calls, queued prunes and failures: no wake is lost, and  *)
(* a stop that has returned has drained the loop.                          *)
(***************************************************************************)
EXTENDS RelayHost, TLAPS

Work == {"scheduled", "now"}

\* The chains are chains and a stop awaits a number of entries.
ChainsTyped == chain \in Seq(Entry) /\ prunes \in Seq(Work) /\ awaited \in Nat

\* Every x of s is among its first k entries.
Within(s, x, k) == \A n \in 1..Len(s) : s[n] = x => n <= k

\* What a stop has still to wait for: while it awaits the cycles, every wake
\* is among the entries it awaits, for none joins a loop that has stopped;
\* then none is left, and so for the scheduled prunes.
Draining ==
    ~running =>
        /\ stopping = "cycles" => Within(chain, "wake", awaited)
        /\ stopping \in {"prunes", "stopped"} => Within(chain, "wake", 0)
        /\ stopping = "prunes" => Within(prunes, "scheduled", awaited)
        /\ stopping = "stopped" => Within(prunes, "scheduled", 0)

HostInv == ChainsTyped /\ WakeIsScheduled /\ Draining

--------------------------------------------------------------------------------
(* Sequences.                                                               *)

\* A new entry stands at the end.
LEMMA Appended ==
    ASSUME NEW S, NEW s \in Seq(S), NEW y \in S
    PROVE  /\ Append(s, y) \in Seq(S) /\ Len(Append(s, y)) = Len(s) + 1
           /\ \A n \in 1..Len(s) : Append(s, y)[n] = s[n]
           /\ Append(s, y)[Len(s) + 1] = y /\ Len(s) \in Nat
  OBVIOUS

\* The rest of a chain keeps its order.
LEMMA HeadLeaves ==
    ASSUME NEW S, NEW s \in Seq(S), s # <<>>
    PROVE  /\ Tail(s) \in Seq(S) /\ Len(Tail(s)) = Len(s) - 1 /\ Len(s) \in Nat \ {0}
           /\ \A n \in 1..(Len(s) - 1) : Tail(s)[n] = s[n + 1]
           /\ Head(s) = s[1]
  OBVIOUS

\* Something else joins at the end: the entries meant stay where they are.
LEMMA WithinAppend ==
    ASSUME NEW S, NEW s \in Seq(S), NEW y \in S, NEW x, y # x, NEW k \in Nat, Within(s, x, k)
    PROVE  Within(Append(s, y), x, k)
  <1>1. \A n \in 1..(Len(s) + 1) : n \in 1..Len(s) \/ n = Len(s) + 1
    BY Appended
  <1> QED
    BY <1>1, Appended DEF Within

\* The head leaves: they move up, and not beyond the first.
LEMMA WithinTail ==
    ASSUME NEW S, NEW s \in Seq(S), s # <<>>, NEW x, NEW k \in Nat, Within(s, x, k)
    PROVE  /\ k > 0 => Within(Tail(s), x, k - 1)
           /\ k = 0 => Within(Tail(s), x, 0)
  <1> SUFFICES ASSUME NEW n \in 1..Len(Tail(s)), Tail(s)[n] = x
               PROVE  n + 1 <= k
    BY DEF Within
  <1>1. n + 1 \in 1..Len(s) /\ s[n + 1] = x
    BY HeadLeaves
  <1> QED
    BY <1>1 DEF Within

\* All of a chain is within its length.
LEMMA WithinAll == ASSUME NEW S, NEW s \in Seq(S), NEW x PROVE Within(s, x, Len(s))
  BY DEF Within

--------------------------------------------------------------------------------
(* The steps, as the chains see them.                                       *)

loop == <<running, wakeRequested>>

Unrelated == UNCHANGED <<loop, chain, prunes, stopVars>>
Woken ==
    /\ running' /\ wake /\ UNCHANGED stopVars
    /\ prunes' = prunes \/ prunes' = Append(prunes, "scheduled")
Scheduled ==
    running /\ prunes' = Append(prunes, "scheduled") /\ UNCHANGED <<loop, chain, stopVars>>
Taken == wakeRequested' = FALSE /\ UNCHANGED <<running, chain, prunes, stopVars>>
Joined ==
    /\ \E x \in Entry \ {"wake"} : chain' = Append(chain, x)
    /\ UNCHANGED <<loop, prunes, stopVars>>
PruneJoined == prunes' = Append(prunes, "now") /\ UNCHANGED <<loop, chain, stopVars>>
Left ==
    /\ chain # <<>> /\ (Head(chain) # "wake" \/ ~(running /\ wakeRequested))
    /\ chain' = Tail(chain) \/ chain' = Append(Tail(chain), "flush")
    /\ prunes' = prunes \/ prunes' = Append(prunes, "now")
    /\ Settles("cycles") /\ UNCHANGED <<loop, stopping>>
PruneLeft ==
    /\ prunes # <<>> /\ prunes' = Tail(prunes)
    /\ Settles("prunes") /\ UNCHANGED <<loop, chain, stopping>>

\* A cycle of the loop keeps its entry, one of a caller leaves the chain.
LEMMA EndOfCycle ==
    ASSUME NEW outcome, chain # <<>>, EndCycle(outcome)
    PROVE  Unrelated \/ Left
  <1>1. CASE Caller = "wake"
    BY <1>1 DEF EndCycle, Unrelated, Caller, loop, loopVars, stopVars
  <1>2. CASE Caller # "wake"
    BY <1>2 DEF EndCycle, Left, Caller, loop, loopVars
  <1> QED
    BY <1>1, <1>2

\* What each action is to the chains.
LEMMA ChainSteps ==
    ASSUME [Next]_vars
    PROVE  \/ Unrelated \/ Woken \/ Scheduled \/ Taken \/ Joined \/ PruneJoined
           \/ Left \/ PruneLeft \/ stop \/ StopGoesOn
  <1> USE DEF loop, loopVars, stopVars, pruneVars
  <1>1. CASE UNCHANGED vars
    BY <1>1 DEF vars, Unrelated
  <1>2. CASE CycleStep
    <2>1. CASE WakeCycle
      BY <2>1 DEF WakeCycle, BeginCycle, InCycle, Taken
    <2>2. CASE WakeEnds
      BY <2>2 DEF WakeEnds, At, Caller, Left
    <2>3. CASE FinishCycle
      BY <2>3, EndOfCycle DEF FinishCycle, At
    <2>4. CASE \/ runOnce \/ ListDue
               \/ \E r \in Route : SkipRoute(r) \/ \E batch \in SUBSET Event : ClaimBatch(r, batch)
               \/ \E done \in SUBSET Event : SettleBatch(done)
      BY <2>4 DEF runOnce, BeginCycle, ListDue, SkipRoute, ClaimBatch, SettleBatch, InCycle,
                  Unrelated
    <2> QED
      BY <1>2, <2>1, <2>2, <2>3, <2>4 DEF CycleStep
  <1>3. CASE CycleThrows
    BY <1>3, EndOfCycle DEF CycleThrows, At
  <1>4. CASE FlushChecksBacklog \/ DeadlinePasses
    BY <1>4 DEF FlushChecksBacklog, DeadlinePasses, Outside, Unrelated
  <1>5. CASE FlushSleeps
    BY <1>5 DEF FlushSleeps, Joined, Entry
  <1>6. CASE runPrune \/ PruneThrows
    BY <1>6 DEF runPrune, PruneThrows, PruneLeft, Unrelated
  <1>7. CASE HostCall
    BY <1>7 DEF HostCall, start, FlushCalled, pruneNow, dispatchOnce, Woken, Joined,
                PruneJoined, Entry
  <1>8. CASE Timer
    BY <1>8 DEF Timer, PollTimer, schedulePrune, Woken, Scheduled
  <1>9. CASE \E r \in Route : Operate(r)
    BY <1>9 DEF Operate, Outside, Unrelated
  <1>10. CASE \E e \in Event : Ingest(e) \/ \E move \in Moves : Elsewhere(e, move)
    BY <1>10 DEF Ingest, Elsewhere, Outside, Woken, Unrelated
  <1> QED
    BY <1>1, <1>2, <1>3, <1>4, <1>5, <1>6, <1>7, <1>8, <1>9, <1>10 DEF Next

--------------------------------------------------------------------------------
(* The invariant.                                                           *)

\* A wake puts itself at the end of the chain, or finds one there.
LEMMA WakeJoins ==
    ASSUME chain \in Seq(Entry), wake
    PROVE  chain' \in Seq(Entry) /\ \E n \in DOMAIN chain' : chain'[n] = "wake"
  <1>1. CASE chain # <<>> /\ chain[Len(chain)] = "wake"
    BY <1>1 DEF wake
  <1>2. CASE ~(chain # <<>> /\ chain[Len(chain)] = "wake")
    <2>1. chain' = Append(chain, "wake") /\ "wake" \in Entry
      BY <1>2 DEF wake, Entry
    <2>2. /\ chain' \in Seq(Entry) /\ Len(chain') = Len(chain) + 1 /\ Len(chain) \in Nat
          /\ chain'[Len(chain) + 1] = "wake"
      BY <2>1, Appended
    <2> QED
      BY <2>2
  <1> QED
    BY <1>1, <1>2

\* The chains stay chains.
LEMMA ChainsStep == ChainsTyped /\ [Next]_vars => ChainsTyped'
  <1> SUFFICES ASSUME ChainsTyped, [Next]_vars PROVE ChainsTyped'
    OBVIOUS
  <1> USE DEF ChainsTyped, stopVars
  <1>0. "flush" \in Entry /\ "scheduled" \in Work /\ "now" \in Work
    BY DEF Entry, Work
  <1>8. Append(prunes, "scheduled") \in Seq(Work) /\ Append(prunes, "now") \in Seq(Work)
    BY <1>0, Appended
  <1>1. CASE Unrelated \/ Taken
    BY <1>1 DEF Unrelated, Taken
  <1>2. CASE Woken
    BY <1>2, <1>8, WakeJoins DEF Woken
  <1>3. CASE Scheduled \/ PruneJoined
    BY <1>3, <1>8 DEF Scheduled, PruneJoined, loop
  <1>4. CASE Joined
    BY <1>4 DEF Joined
  <1>5. CASE Left
    <2>1. chain # <<>> /\ Tail(chain) \in Seq(Entry)
      BY <1>5, HeadLeaves DEF Left
    <2>2. Append(Tail(chain), "flush") \in Seq(Entry)
      BY <1>0, <2>1, Appended
    <2>3. /\ chain' = Tail(chain) \/ chain' = Append(Tail(chain), "flush")
          /\ prunes' = prunes \/ prunes' = Append(prunes, "now")
      BY <1>5 DEF Left
    <2>4. awaited' \in Nat
      BY <1>5 DEF Left, Settles
    <2>5. chain' \in Seq(Entry)
      BY <2>1, <2>2, <2>3
    <2>6. prunes' \in Seq(Work)
      BY <1>8, <2>3
    <2> QED
      BY <2>4, <2>5, <2>6
  <1>6. CASE PruneLeft
    BY <1>6, HeadLeaves DEF PruneLeft, Settles
  <1>7. CASE stop
    BY <1>7 DEF stop, pruneVars
  <1>9. CASE StopGoesOn
    BY <1>9 DEF StopGoesOn, pruneVars
  <1> QED
    BY <1>1, <1>2, <1>3, <1>4, <1>5, <1>6, <1>7, <1>9, ChainSteps

\* A request keeps its entry: the entry that leaves is no wake, or the wake
\* that has found no request.
LEMMA WakeStep == ChainsTyped /\ WakeIsScheduled /\ [Next]_vars => WakeIsScheduled'
  <1> SUFFICES ASSUME ChainsTyped, WakeIsScheduled, [Next]_vars,
                      running', wakeRequested'
               PROVE  \E n \in DOMAIN chain' : chain'[n] = "wake"
    BY DEF WakeIsScheduled
  <1>0. chain \in Seq(Entry)
    BY DEF ChainsTyped
  <1>1. CASE Unrelated \/ Scheduled \/ PruneJoined \/ PruneLeft \/ StopGoesOn
    BY <1>1 DEF Unrelated, Scheduled, PruneJoined, PruneLeft, StopGoesOn, loop, loopVars,
                WakeIsScheduled
  <1>2. CASE Woken
    BY <1>0, <1>2, WakeJoins DEF Woken
  <1>3. CASE Joined
    <2>1. PICK n \in DOMAIN chain : chain[n] = "wake"
      BY <1>3 DEF Joined, loop, WakeIsScheduled
    <2>2. PICK x \in Entry : chain' = Append(chain, x)
      BY <1>3 DEF Joined
    <2>3. n \in DOMAIN chain' /\ chain'[n] = "wake"
      BY <1>0, <2>1, <2>2, Appended
    <2> QED
      BY <2>3
  <1>4. CASE Left
    <2>1. PICK n \in DOMAIN chain : chain[n] = "wake"
      BY <1>4 DEF Left, loop, WakeIsScheduled
    <2>2. chain # <<>> /\ Head(chain) # "wake"
      BY <1>4 DEF Left, loop
    <2>3. n \in 2..Len(chain) /\ Len(chain) \in Nat
      BY <1>0, <2>1, <2>2, HeadLeaves
    <2>4. /\ Tail(chain) \in Seq(Entry)
          /\ n - 1 \in DOMAIN Tail(chain) /\ Tail(chain)[n - 1] = "wake"
      BY <1>0, <2>1, <2>2, <2>3, HeadLeaves
    <2>5. CASE chain' = Tail(chain)
      BY <2>4, <2>5
    <2>6. CASE chain' = Append(Tail(chain), "flush")
      <3>1. "flush" \in Entry
        BY DEF Entry
      <3>2. n - 1 \in DOMAIN chain' /\ chain'[n - 1] = "wake"
        BY <2>4, <2>6, <3>1, Appended
      <3> QED
        BY <3>2
    <2> QED
      BY <1>4, <2>5, <2>6 DEF Left
  <1>5. CASE Taken \/ stop
    BY <1>5 DEF Taken, stop
  <1> QED
    BY <1>1, <1>2, <1>3, <1>4, <1>5, ChainSteps

\* A stop drains.
LEMMA DrainStep == ChainsTyped /\ Draining /\ [Next]_vars => Draining'
  <1> SUFFICES ASSUME ChainsTyped, Draining, [Next]_vars, ~running'
               PROVE  Draining'
    BY DEF Draining
  <1> USE DEF stopVars, loop
  <1>0. chain \in Seq(Entry) /\ prunes \in Seq(Work) /\ awaited \in Nat
    BY DEF ChainsTyped
  <1>w. {"scheduled", "now"} \subseteq Work /\ "flush" \in Entry
    BY DEF Work, Entry
  <1>1. CASE Unrelated \/ Taken
    BY <1>1 DEF Unrelated, Taken, Draining
  <1>2. CASE Woken \/ Scheduled
    BY <1>2 DEF Woken, Scheduled
  <1>3. CASE Joined
    <2>1. PICK x \in Entry \ {"wake"} : chain' = Append(chain, x)
      BY <1>3 DEF Joined
    <2>2. \A k \in Nat : Within(chain, "wake", k) => Within(chain', "wake", k)
      BY <1>0, <2>1, WithinAppend
    <2> QED
      BY <1>0, <1>3, <2>2 DEF Joined, Draining
  <1>4. CASE PruneJoined
    <2>1. \A k \in Nat : Within(prunes, "scheduled", k) => Within(prunes', "scheduled", k)
      BY <1>0, <1>w, <1>4, WithinAppend DEF PruneJoined
    <2> QED
      BY <1>0, <1>4, <2>1 DEF PruneJoined, Draining
  <1>5. CASE Left
    <2>0. chain # <<>> /\ Tail(chain) \in Seq(Entry)
      BY <1>0, <1>5, HeadLeaves DEF Left
    <2>1. \A k \in Nat : Within(Tail(chain), "wake", k) => Within(chain', "wake", k)
      BY <1>w, <1>5, <2>0, WithinAppend DEF Left
    <2>2. \A k \in Nat : Within(prunes, "scheduled", k) => Within(prunes', "scheduled", k)
      BY <1>0, <1>w, <1>5, WithinAppend DEF Left
    <2>3. ~running /\ stopping' = stopping
      BY <1>5 DEF Left
    <2>4. stopping = "cycles" => Within(chain', "wake", awaited')
      <3> SUFFICES ASSUME stopping = "cycles" PROVE Within(chain', "wake", awaited')
        OBVIOUS
      <3>1. Within(chain, "wake", awaited)
        BY <2>3 DEF Draining
      <3>2. awaited' = IF awaited > 0 THEN awaited - 1 ELSE awaited
        BY <1>5 DEF Left, Settles
      <3>3. awaited' \in Nat /\ Within(Tail(chain), "wake", awaited')
        BY <1>0, <2>0, <3>1, <3>2, WithinTail
      <3> QED
        BY <2>1, <3>3
    <2>5. stopping # "cycles" => awaited' = awaited
      BY <1>5 DEF Left, Settles
    <2>6. Within(chain, "wake", 0) => Within(chain', "wake", 0)
      BY <1>0, <2>0, <2>1, WithinTail
    <2> QED
      BY <1>0, <2>2, <2>3, <2>4, <2>5, <2>6 DEF Draining
  <1>6. CASE PruneLeft
    <2>1. prunes # <<>> /\ prunes' = Tail(prunes) /\ ~running
          /\ chain' = chain /\ stopping' = stopping
      BY <1>6 DEF PruneLeft
    <2>2. stopping = "prunes" => Within(prunes', "scheduled", awaited')
      <3> SUFFICES ASSUME stopping = "prunes" PROVE Within(prunes', "scheduled", awaited')
        OBVIOUS
      <3>1. Within(prunes, "scheduled", awaited)
        BY <2>1 DEF Draining
      <3>2. awaited' = IF awaited > 0 THEN awaited - 1 ELSE awaited
        BY <1>6 DEF PruneLeft, Settles
      <3> QED
        BY <1>0, <2>1, <3>1, <3>2, WithinTail
    <2>3. stopping # "prunes" => awaited' = awaited
      BY <1>6 DEF PruneLeft, Settles
    <2>4. Within(prunes, "scheduled", 0) => Within(prunes', "scheduled", 0)
      BY <1>0, <2>1, WithinTail
    <2> QED
      BY <2>1, <2>2, <2>3, <2>4 DEF Draining
  <1>7. CASE stop
    <2>1. stopping' = "cycles" /\ awaited' = Len(chain) /\ chain' = chain
      BY <1>7 DEF stop
    <2> QED
      BY <1>0, <2>1, WithinAll DEF Draining
  <1>8. CASE StopGoesOn
    <2>1. chain' = chain /\ prunes' = prunes /\ ~running /\ awaited = 0
      BY <1>8 DEF StopGoesOn, loopVars, pruneVars
    <2>2. CASE stopping = "cycles"
      <3>1. stopping' = "prunes" /\ awaited' = Len(prunes)
        BY <1>8, <2>2 DEF StopGoesOn
      <3>2. Within(chain, "wake", 0)
        BY <2>1, <2>2 DEF Draining
      <3> QED
        BY <1>0, <2>1, <3>1, <3>2, WithinAll DEF Draining
    <2>3. CASE stopping = "prunes"
      <3>1. stopping' = "stopped"
        BY <1>8, <2>3 DEF StopGoesOn
      <3> QED
        BY <2>1, <2>3, <3>1 DEF Draining
    <2> QED
      BY <1>8, <2>2, <2>3 DEF StopGoesOn
  <1> QED
    BY <1>1, <1>2, <1>3, <1>4, <1>5, <1>6, <1>7, <1>8, ChainSteps

\* The invariant of the chains.
LEMMA HostInvariant == Spec => []HostInv
  <1>1. Init => HostInv
    BY DEF Init, HostInv, ChainsTyped, WakeIsScheduled, Draining
  <1>2. HostInv /\ [Next]_vars => HostInv'
    BY ChainsStep, WakeStep, DrainStep DEF HostInv
  <1> QED
    BY <1>1, <1>2, PTL DEF Spec

\* A wake that arrives while a cycle ends, throws or is queued behind others
\* is not lost: as long as nobody has taken it, an entry of the chain will.
THEOREM NoWakeIsLost == Spec => []WakeIsScheduled
  <1>1. HostInv => WakeIsScheduled
    BY DEF HostInv
  <1> QED
    BY <1>1, HostInvariant, PTL

\* stop() returns to a relay whose loop is over: no wake and no scheduled
\* prune is left that could begin work.
THEOREM StopDrains == Spec => []StoppedIsQuiet
  <1>1. HostInv => StoppedIsQuiet
    <2> SUFFICES ASSUME HostInv, stopping = "stopped", ~running
                 PROVE  /\ \A n \in DOMAIN chain : chain[n] # "wake"
                        /\ \A n \in DOMAIN prunes : prunes[n] # "scheduled"
      BY DEF StoppedIsQuiet
    <2>1. /\ chain \in Seq(Entry) /\ prunes \in Seq(Work)
          /\ Within(chain, "wake", 0) /\ Within(prunes, "scheduled", 0)
      BY DEF HostInv, ChainsTyped, Draining
    <2> QED
      BY <2>1 DEF Within
  <1> QED
    BY <1>1, HostInvariant, PTL

================================================================================
