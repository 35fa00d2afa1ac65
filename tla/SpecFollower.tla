----------------------------- MODULE SpecFollower -----------------------------
(***************************************************************************)
(* What the operator promises about the StatefulSet, whatever its caches   *)
(* and its crashes: a follower of a versioned specification.               *)
(*                                                                         *)
(* The user and the operator publish new versions of the ZookeeperCluster; *)
(* some of them carry a new spec.  The follower holds one version and what *)
(* that version asked for.  It only ever moves forward, never past what    *)
(* was published, and when it moves to a version at or after the one that  *)
(* introduced the latest spec, it holds the latest spec.                   *)
(***************************************************************************)
EXTENDS Integers

CONSTANT Wanted  \* what a spec asks of a StatefulSet

VARIABLES
  version,      \* the latest published version
  specVersion,  \* the version that introduced the latest spec
  wanted,       \* what the latest spec asks for
  applied,      \* the version the follower holds, 0 before it exists
  holding       \* what the follower holds

vars == <<version, specVersion, wanted, applied, holding>>

Init ==
  /\ version = 1
  /\ specVersion = 1
  /\ wanted \in Wanted
  /\ applied = 0
  /\ holding = wanted

(* A version without a new spec: a status update.                          *)
Touch ==
  /\ version' > version
  /\ UNCHANGED <<specVersion, wanted, applied, holding>>

Publish ==
  /\ version' > version
  /\ specVersion' = version'
  /\ wanted' \in Wanted
  /\ UNCHANGED <<applied, holding>>

Follow ==
  /\ applied < applied'
  /\ applied' <= version
  /\ holding' \in Wanted
  /\ applied' >= specVersion => holding' = wanted
  /\ UNCHANGED <<version, specVersion, wanted>>

Next == Touch \/ Publish \/ Follow

Spec == Init /\ [][Next]_vars
=============================================================================
