----------------------------- MODULE MCDispatcher -----------------------------
(***************************************************************************)
(* Instances of Dispatcher for TLC.                                        *)
(***************************************************************************)
EXTENDS Dispatcher, TLC

\* Two events of one route; two routes with one event each.
OneRoute == Key \X Route
RouteEach == {<<"k1", "r1">>, <<"k2", "r2">>}

\* Events whose records carry the event id as external_id, and events whose
\* mapping takes external_id from elsewhere.  Indexes are 0 and 1.
SameNames == [k \in Key |-> IF k = "k1" THEN 11 ELSE 12]
OtherNames == [k \in Key |-> IF k = "k1" THEN 21 ELSE 22]

\* Replicas differ only in name.
Replicas == Permutations(Inst)
=============================================================================
