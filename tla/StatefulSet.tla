----------------------------- MODULE StatefulSet -----------------------------
(***************************************************************************)
(* What the StatefulSet controller of Kubernetes does with the pods of a   *)
(* StatefulSet whose podManagementPolicy is OrderedReady and whose update  *)
(* strategy is RollingUpdate, the settings of MakeStatefulSet              *)
(* (pkg/zk/generators.go:86-89).  It is not code of this repository: the   *)
(* model is what the operator relies on when it reads                      *)
(* StatefulSet.Status.                                                     *)
(*                                                                         *)
(* A revision is the pod template it was made from: equal templates get    *)
(* equal revisions.  The template keeps the two fields of it that the      *)
(* operator's users change: the image tag and the restartTime annotation.  *)
(***************************************************************************)
EXTENDS Integers, Sequences, FiniteSets

CONSTANTS
  Tag,    \* image tags
  NoTag,  \* no image tag
  BadTag  \* tags of images with which a pod never becomes ready

Template == [tag : Tag, restartTime : Nat]

(* The empty revision name of a StatefulSet that was never synced.         *)
NoRevision == [tag |-> NoTag, restartTime |-> 0]

Revision == Template \cup {NoRevision}

Pod == [revision : Revision, ready : BOOLEAN]

StsStatus == [replicas        : Nat,
              readyReplicas   : Nat,
              updatedReplicas : Nat,
              currentRevision : Revision,
              updateRevision  : Revision]

(* The status the controller writes when it finds these pods.              *)
StatusOf(pods, current, update) ==
  [replicas        |-> Len(pods),
   readyReplicas   |-> Cardinality({i \in DOMAIN pods : pods[i].ready}),
   updatedReplicas |->
      Cardinality({i \in DOMAIN pods : pods[i].revision = update}),
   currentRevision |-> current,
   updateRevision  |-> update]

AllReady(pods) == \A i \in DOMAIN pods : pods[i].ready

Outdated(pods, update) == {i \in DOMAIN pods : pods[i].revision # update}

(* The next pod in order is created only when those before it are ready.   *)
CanCreatePod(pods, replicas, update) ==
  /\ update # NoRevision
  /\ Len(pods) < replicas
  /\ AllReady(pods)

CreatePod(pods, update) ==
  Append(pods, [revision |-> update, ready |-> FALSE])

(* The last pod is deleted only when the pods that stay are ready.         *)
CanDeletePod(pods, replicas) ==
  /\ Len(pods) > replicas
  /\ \A i \in 1 .. replicas : pods[i].ready

DeletePod(pods) == SubSeq(pods, 1, Len(pods) - 1)

(* A rolling update replaces one pod at a time, the highest ordinal first. *)
CanRollPod(pods, replicas, update) ==
  /\ Len(pods) = replicas
  /\ AllReady(pods)
  /\ Outdated(pods, update) # {}

RollPod(pods, update) ==
  LET highest == CHOOSE i \in Outdated(pods, update) :
                   \A j \in Outdated(pods, update) : j <= i
  IN  [pods EXCEPT ![highest] = [revision |-> update, ready |-> FALSE]]

(* completeRollingUpdate: currentRevision becomes updateRevision only when *)
(* every pod is updated and ready.                                         *)
RolloutComplete(pods, replicas, update) ==
  /\ Len(pods) = replicas
  /\ AllReady(pods)
  /\ Outdated(pods, update) = {}
=============================================================================
