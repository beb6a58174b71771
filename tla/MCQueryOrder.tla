---------------------------- MODULE MCQueryOrder ----------------------------
(***************************************************************************)
(* QueryOrder for TLC: liveness.                                           *)
(***************************************************************************)
EXTENDS QueryOrder
=============================================================================
