---------------------------- MODULE ClusterStatus ----------------------------
(***************************************************************************)
(* The status subresource of a ZookeeperCluster and the operations the     *)
(* controller performs on it (api/v1beta1/status.go).                      *)
(*                                                                         *)
(* The slice of conditions, which the code searches by type and which      *)
(* never holds two conditions of one type, is a function from condition    *)
(* types; a condition the slice does not hold yet has status "Absent".     *)
(* Left out: Members and the endpoint strings, which nothing reads back,   *)
(* LastTransitionTime, which nothing reads, and the text of the error      *)
(* message, which is the same in every error.                              *)
(***************************************************************************)
EXTENDS Integers

CONSTANTS
  Tag,      \* image tags
  NoTag,    \* the empty string as a version
  Deadline  \* the ten minutes of upgradeStatefulSet, in ticks of the clock

ASSUME TagAssumption == NoTag \notin Tag
ASSUME DeadlineAssumption == Deadline \in Nat

Version == Tag \cup {NoTag}

(* The zero LastUpdateTime of a condition that was appended, never changed. *)
Never == 0

(* The empty message; a progress message is the number it prints.          *)
NoMessage == -1

ConditionType == {"PodsReady", "Upgrading", "Error"}

Condition == [status     : {"Absent", "True", "False"},
              reason     : {"", "Updating Zookeeper", "UpgradeFailed"},
              message    : Nat \cup {NoMessage},
              lastUpdate : Nat]

ClusterStatusType == [replicas        : Nat,
                      readyReplicas   : Nat,
                      metaRootCreated : BOOLEAN,
                      currentVersion  : Version,
                      targetVersion   : Version,
                      conditions      : [ConditionType -> Condition]]

Absent == [status |-> "Absent", reason |-> "", message |-> NoMessage,
           lastUpdate |-> Never]

EmptyStatus == [replicas        |-> 0,
                readyReplicas   |-> 0,
                metaRootCreated |-> FALSE,
                currentVersion  |-> NoTag,
                targetVersion   |-> NoTag,
                conditions      |-> [t \in ConditionType |-> Absent]]

-----------------------------------------------------------------------------
(* Mutant: the update time moves with the status alone, as the transition  *)
(* time does.                                                              *)
SetConditionTransition(zs, type, status, reason, message, now) ==
  LET old == zs.conditions[type]
  IN  [zs EXCEPT !.conditions[type] =
         [status |-> status, reason |-> reason, message |-> message,
          lastUpdate |-> IF old.status = "Absent" THEN Never
                         ELSE IF old.status = status THEN old.lastUpdate
                         ELSE now]]

(* An appended condition has no update time; an existing one is stamped    *)
(* only when its status, reason or message changes.                        *)
SetCondition(zs, type, status, reason, message, now) ==
  LET old  == zs.conditions[type]
      same == /\ old.status = status
              /\ old.reason = reason
              /\ old.message = message
      time == IF old.status = "Absent" THEN Never
              ELSE IF same THEN old.lastUpdate ELSE now
  IN  [zs EXCEPT !.conditions[type] = [status |-> status, reason |-> reason,
                                       message |-> message,
                                       lastUpdate |-> time]]

InitConditions(zs) ==
  [zs EXCEPT !.conditions =
     [t \in ConditionType |->
        IF zs.conditions[t].status = "Absent"
        THEN [Absent EXCEPT !.status = "False"]
        ELSE zs.conditions[t]]]

SetPodsReady(zs, status, now) ==
  SetCondition(zs, "PodsReady", status, "", NoMessage, now)

SetUpgradingTrue(zs, reason, message, now) ==
  SetCondition(zs, "Upgrading", "True", reason, message, now)

SetUpgradingFalse(zs, now) ==
  SetCondition(zs, "Upgrading", "False", "", NoMessage, now)

SetErrorTrue(zs, now) ==
  SetCondition(zs, "Error", "True", "UpgradeFailed", NoMessage, now)

SetErrorFalse(zs, now) ==
  SetCondition(zs, "Error", "False", "", NoMessage, now)

IsUpgrading(zs) == zs.conditions["Upgrading"].status = "True"

IsReady(zs) == zs.conditions["PodsReady"].status = "True"

IsUpgradeFailed(zs) ==
  /\ zs.conditions["Error"].status = "True"
  /\ zs.conditions["Error"].reason = "UpgradeFailed"

UpdateProgress(zs, updated, now) ==
  IF IsUpgrading(zs)
  THEN SetUpgradingTrue(zs, "Updating Zookeeper", updated, now)
  ELSE zs

(* checkSyncTimeout returns its error: the Upgrading condition, the last    *)
(* condition of an upgrading cluster, has reported the same progress for    *)
(* longer than the deadline.                                                *)
SyncTimedOut(zs, updated, now) ==
  LET last == zs.conditions["Upgrading"]
  IN  /\ IsUpgrading(zs)
      /\ last.reason = "Updating Zookeeper"
      /\ last.message = updated
      /\ \/ last.lastUpdate = Never
         \/ now > last.lastUpdate + Deadline
=============================================================================
