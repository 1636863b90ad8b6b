------------------------------- MODULE MCIngest -------------------------------
(***************************************************************************)
(* Instances of Ingest for TLC.                                            *)
(***************************************************************************)
EXTENDS Ingest, TLC

\* Two routes of one processor.
OneSource == [r \in Route |-> "payabli"]
Keys == Source \X Event

\* Slots for requests differ only in name.
Slots == Permutations(Req)
=============================================================================
