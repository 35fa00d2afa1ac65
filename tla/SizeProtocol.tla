----------------------------- MODULE SizeProtocol -----------------------------
(***************************************************************************)
(* What the operator promises the members of the ensemble about the size   *)
(* of the cluster: ZooKeeper learns of a size before the StatefulSet has   *)
(* it, no size is announced before the one announced last is applied, and  *)
(* only sizes that the user asked for are.  The preStop hook of a member   *)
(* concludes from the announced size whether it leaves the ensemble for    *)
(* good.                                                                   *)
(***************************************************************************)
EXTENDS Integers

CONSTANTS Size, NoSize

VARIABLES
  wanted,     \* the size that the user asks for
  announced,  \* the size that ZooKeeper knows, or NoSize
  size        \* the size of the StatefulSet

vars == <<wanted, announced, size>>

Init ==
  /\ wanted \in Size
  /\ announced = NoSize
  /\ size = wanted

Edit ==
  /\ announced = wanted
  /\ size = wanted
  /\ wanted' \in Size \ {wanted}
  /\ UNCHANGED <<announced, size>>

(* The first announcement, of the size that the cluster began with.        *)
Introduce ==
  /\ announced = NoSize
  /\ size = wanted
  /\ announced' = wanted
  /\ UNCHANGED <<wanted, size>>

Announce ==
  /\ announced = size
  /\ wanted # size
  /\ announced' = wanted
  /\ UNCHANGED <<wanted, size>>

Apply ==
  /\ announced = wanted
  /\ size # wanted
  /\ size' = wanted
  /\ UNCHANGED <<wanted, announced>>

Next == Edit \/ Introduce \/ Announce \/ Apply

Spec == Init /\ [][Next]_vars
=============================================================================
