----------------------------- MODULE MCPvcReclaim -----------------------------
(***************************************************************************)
(* The volumes of a cluster of up to two members, for TLC.                 *)
(***************************************************************************)
EXTENDS PvcReclaim

ASSUME MaxReplicas = 2
=============================================================================
