------------------------------ MODULE MCRelayHost ------------------------------
(***************************************************************************)
(* An instance of RelayHost for TLC.                                       *)
(***************************************************************************)
EXTENDS RelayHost

\* Every event is of one route.
SameRoute == [e \in Event |-> "r1"]
=============================================================================
