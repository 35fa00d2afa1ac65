---------------------------- MODULE MCZkMembership ----------------------------
(***************************************************************************)
(* Ensembles of up to three members, for TLC.                              *)
(***************************************************************************)
EXTENDS ZkMembership

ASSUME MaxMembers <= 3
=============================================================================
