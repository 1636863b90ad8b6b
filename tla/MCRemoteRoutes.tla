----------------------------- MODULE MCRemoteRoutes -----------------------------
(***************************************************************************)
(* An instance of RemoteRoutes for TLC.                                    *)
(***************************************************************************)
EXTENDS RemoteRoutes, TLC
=============================================================================
