----------------------------- MODULE MCController -----------------------------
(***************************************************************************)
(* One cluster of up to two members, for TLC.  The configurations give the *)
(* image tags as model values and every bound a small number; a bound of 0 *)
(* switches that part of the environment off.                              *)
(***************************************************************************)
EXTENDS ZookeeperClusterController

CONSTANTS t1, t2

ASSUME Tag = {t1, t2} /\ Size = 1 .. 2
=============================================================================
