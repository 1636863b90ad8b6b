------------------------------- MODULE Delivery -------------------------------
(***************************************************************************)
(* What a relay promises about an event, without saying how: it keeps an   *)
(* event from the moment its sender is told "accepted", hands it to End    *)
(* Close at least once, calls it delivered only after that and for good,   *)
(* and never holds an event that a filter dropped.  Dispatcher implements  *)
(* this specification when one relay works on the store.                   *)
(*                                                                         *)
(* The stages are the statuses of packages/core/src/engine/store.ts as an  *)
(* operator sees them; pending and retry are both waiting.                 *)
(***************************************************************************)
CONSTANT Key

VARIABLES
    stage,      \* where each event stands
    promised,   \* events whose sender was told "accepted"
    taken       \* events End Close has taken at least once

vars == <<stage, promised, taken>>

Stage == {"unknown", "filtered", "waiting", "held", "delivered", "parked"}

Init ==
    /\ stage = [k \in Key |-> "unknown"]
    /\ promised = {} /\ taken = {}

\* Every event of ks leaves one of the stages from for the stage to.
Move(ks, from, to) ==
    /\ \A k \in ks : stage[k] \in from
    /\ stage' = [k \in Key |-> IF k \in ks THEN to ELSE stage[k]]
    /\ UNCHANGED taken

Accept(k) == Move({k}, {"unknown"}, "waiting") /\ promised' = promised \union {k}
Drop(k) == Move({k}, {"unknown"}, "filtered") /\ UNCHANGED promised

Hold(ks) == Move(ks, {"waiting"}, "held") /\ UNCHANGED promised

\* A failed attempt, a lost claim, an operator's replay.
Requeue(ks) == Move(ks, {"held", "parked", "waiting"}, "waiting") /\ UNCHANGED promised

Park(ks) == Move(ks, {"held", "waiting"}, "parked") /\ UNCHANGED promised

\* End Close takes events the relay holds; it may take them again.
Take(ks) ==
    /\ \A k \in ks : stage[k] = "held"
    /\ taken' = taken \union ks
    /\ UNCHANGED <<stage, promised>>

Deliver(ks) ==
    /\ ks \subseteq taken
    /\ Move(ks, {"held"}, "delivered")
    /\ UNCHANGED promised

\* Retention; the same event may then arrive as new.
Forget(ks) == Move(ks, {"delivered", "filtered"}, "unknown") /\ UNCHANGED promised

Next ==
    \/ \E k \in Key : Accept(k) \/ Drop(k)
    \/ \E ks \in SUBSET Key :
          \/ Hold(ks) \/ Requeue(ks) \/ Park(ks)
          \/ Take(ks) \/ Deliver(ks) \/ Forget(ks)

Spec == Init /\ [][Next]_vars
=============================================================================
