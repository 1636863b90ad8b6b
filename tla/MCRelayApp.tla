------------------------------ MODULE MCRelayApp ------------------------------
(***************************************************************************)
(* An instance of RelayApp for TLC.                                        *)
(***************************************************************************)
EXTENDS RelayApp, TLC

\* Three documents on two routes, one of them End Close's, and an old one.
Routes == [mine |-> {"r1"}, theirs |-> {"r1", "r2"}, other |-> {"r2"}, old |-> {"r2"}]

\* The environments an operator moves between: asking or not, the secret of
\* a document of End Close's set or not, telemetry or not, nothing set.
Environment == {{"required", "remote", "secret"}, {"required", "secret"},
                {"required", "remote", "telemetry"}, {}}
=============================================================================
