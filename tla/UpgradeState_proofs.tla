------------------------- MODULE UpgradeState_proofs -------------------------
(***************************************************************************)
(* Proofs about the status the controller reports, for any tags, sizes,    *)
(* deadline and bounds: the metadata it records is there, the conditions   *)
(* and versions of an upgrade agree, and the version changes only at the   *)
(* end of an upgrade.  The inductive invariant StatusInv says it of every  *)
(* copy of the status, the local one of a pass included.  The last section *)
(* is about the size of the cluster, which ZooKeeper learns of first.      *)
(***************************************************************************)
EXTENDS ZookeeperClusterController_proofs

StatusCopies == {cr.status, crCache.status, behind.cr.status, instance.status}

Honest(zs) ==
  /\ zs.metaRootCreated => znode.parent /\ znode.size # NoSize
  /\ IsReady(zs) => zs.metaRootCreated

Coherent(zs) ==
  /\ IsUpgrading(zs) <=> zs.targetVersion # NoTag
  /\ IsUpgrading(zs) => ~ IsReady(zs)
  /\ IsUpgradeFailed(zs) => IsUpgrading(zs)

(* What the calls before have established about the local copy.            *)
PassKnows ==
  /\ pc \in {"updateSts", "upgrade"} => ~ IsUpgradeFailed(instance.status)
  /\ pc \in {"createNode", "writeStatus"}
       => ~ IsUpgrading(instance.status) /\ ~ IsUpgradeFailed(instance.status)
  /\ pc = "createNode" => znode.parent
  /\ pc = "writeStatus" => instance.status.metaRootCreated

SameUpgrade(a, b) ==
  /\ a.currentVersion = b.currentVersion
  /\ a.targetVersion = b.targetVersion
  /\ IsUpgrading(a) <=> IsUpgrading(b)

(* The status b is a, with the upgrade of a completed.                     *)
UpgradeCompleted(a, b) ==
  /\ IsUpgrading(a) /\ ~ IsUpgrading(b)
  /\ b.currentVersion = a.targetVersion

(* A current copy of the CR has its versions; in the local one the upgrade *)
(* may be complete already.                                                *)
VersionsAgree ==
  /\ crCache.rv = cr.rv => SameUpgrade(cr.status, crCache.status)
  /\ behind.cr.rv = cr.rv => SameUpgrade(cr.status, behind.cr.status)
  /\ pc # "idle" /\ instance.rv = cr.rv =>
       \/ SameUpgrade(cr.status, instance.status)
       \/ /\ pc \in {"status", "createNode", "writeStatus"}
          /\ UpgradeCompleted(cr.status, instance.status)

StatusInv ==
  /\ \A zs \in StatusCopies : Honest(zs) /\ Coherent(zs)
  /\ PassKnows
  /\ VersionsAgree
-----------------------------------------------------------------------------
(* What the operations on a status mean for its conditions and versions.   *)

Kept(a, b) ==
  /\ a.metaRootCreated = b.metaRootCreated
  /\ a.currentVersion = b.currentVersion
  /\ a.targetVersion = b.targetVersion

(* setClusterCondition changes one condition and nothing else.             *)
LEMMA SetConditionMeans ==
  ASSUME NEW zs \in ClusterStatusType,
         NEW type \in ConditionType,
         NEW status, NEW reason, NEW message, NEW time
  PROVE  LET new == SetCondition(zs, type, status, reason, message, time)
         IN  /\ Kept(zs, new)
             /\ new.conditions[type].status = status
             /\ new.conditions[type].reason = reason
             /\ \A t \in ConditionType \ {type} :
                  new.conditions[t] = zs.conditions[t]
  BY DEF SetCondition, ClusterStatusType, Kept

(* What the setters mean for the predicates on a status.                   *)
LEMMA SettersMean ==
  ASSUME NEW zs \in ClusterStatusType, NEW time
  PROVE  /\ \A new \in {SetPodsReady(zs, "True", time),
                        SetPodsReady(zs, "False", time), InitConditions(zs)} :
              /\ Kept(zs, new)
              /\ IsUpgrading(new) <=> IsUpgrading(zs)
              /\ IsUpgradeFailed(new) <=> IsUpgradeFailed(zs)
         /\ ~ IsReady(SetPodsReady(zs, "False", time))
         /\ LET new == SetUpgradingFalse(zs, time)
            IN  /\ Kept(zs, new)
                /\ ~ IsUpgrading(new)
                /\ IsReady(new) <=> IsReady(zs)
                /\ IsUpgradeFailed(new) <=> IsUpgradeFailed(zs)
         /\ \A reason, message :
              LET new == SetUpgradingTrue(zs, reason, message, time)
              IN  /\ Kept(zs, new)
                  /\ IsUpgrading(new)
                  /\ IsReady(new) <=> IsReady(zs)
                  /\ IsUpgradeFailed(new) <=> IsUpgradeFailed(zs)
         /\ LET new == SetErrorTrue(zs, time)
            IN  /\ Kept(zs, new)
                /\ IsUpgrading(new) <=> IsUpgrading(zs)
                /\ IsReady(new) <=> IsReady(zs)
         /\ LET new == SetErrorFalse(zs, time)
            IN  /\ Kept(zs, new)
                /\ ~ IsUpgradeFailed(new)
                /\ IsUpgrading(new) <=> IsUpgrading(zs)
                /\ IsReady(new) <=> IsReady(zs)
<1>1. /\ "PodsReady" \in ConditionType /\ "Upgrading" \in ConditionType
      /\ "Error" \in ConditionType
  BY DEF ConditionType
<1>2. LET new == InitConditions(zs)
      IN  /\ Kept(zs, new)
          /\ IsUpgrading(new) <=> IsUpgrading(zs)
          /\ IsUpgradeFailed(new) <=> IsUpgradeFailed(zs)
  <2>. DEFINE new == InitConditions(zs)
  <2>1. /\ Kept(zs, new)
        /\ new.conditions =
             [t \in ConditionType |->
                IF zs.conditions[t].status = "Absent"
                THEN [Absent EXCEPT !.status = "False"]
                ELSE zs.conditions[t]]
    BY DEF InitConditions, ClusterStatusType, Kept
  <2>2. \A t \in ConditionType :
          \/ /\ zs.conditions[t].status = "Absent"
             /\ new.conditions[t].status = "False"
          \/ new.conditions[t] = zs.conditions[t]
    BY <2>1 DEF Absent
  <2>3. QED
    BY <1>1, <2>1, <2>2 DEF IsUpgrading, IsUpgradeFailed
<1>3. ASSUME NEW status \in {"True", "False"}
      PROVE  LET new == SetPodsReady(zs, status, time)
             IN  /\ Kept(zs, new)
                 /\ IsUpgrading(new) <=> IsUpgrading(zs)
                 /\ IsUpgradeFailed(new) <=> IsUpgradeFailed(zs)
                 /\ IsReady(new) <=> status = "True"
  <2>1. PICK r, m : SetPodsReady(zs, status, time)
                      = SetCondition(zs, "PodsReady", status, r, m, time)
    BY Zenon DEF SetPodsReady
  <2>. QED
    BY <1>1, <2>1, SetConditionMeans
    DEF IsUpgrading, IsReady, IsUpgradeFailed
<1>4. LET new == SetUpgradingFalse(zs, time)
      IN  /\ Kept(zs, new)
          /\ ~ IsUpgrading(new)
          /\ IsReady(new) <=> IsReady(zs)
          /\ IsUpgradeFailed(new) <=> IsUpgradeFailed(zs)
  <2>1. PICK r, m : SetUpgradingFalse(zs, time)
                      = SetCondition(zs, "Upgrading", "False", r, m, time)
    BY Zenon DEF SetUpgradingFalse
  <2>. QED
    BY <1>1, <2>1, SetConditionMeans
    DEF IsUpgrading, IsReady, IsUpgradeFailed
<1>5. \A reason, message :
        LET new == SetUpgradingTrue(zs, reason, message, time)
        IN  /\ Kept(zs, new)
            /\ IsUpgrading(new)
            /\ IsReady(new) <=> IsReady(zs)
            /\ IsUpgradeFailed(new) <=> IsUpgradeFailed(zs)
  BY <1>1, SetConditionMeans
  DEF SetUpgradingTrue, IsUpgrading, IsReady, IsUpgradeFailed
<1>6. LET new == SetErrorTrue(zs, time)
      IN  /\ Kept(zs, new)
          /\ IsUpgrading(new) <=> IsUpgrading(zs)
          /\ IsReady(new) <=> IsReady(zs)
  BY <1>1, SetConditionMeans DEF SetErrorTrue, IsUpgrading, IsReady
<1>7. LET new == SetErrorFalse(zs, time)
      IN  /\ Kept(zs, new)
          /\ ~ IsUpgradeFailed(new)
          /\ IsUpgrading(new) <=> IsUpgrading(zs)
          /\ IsReady(new) <=> IsReady(zs)
  <2>1. PICK r, m : SetErrorFalse(zs, time)
                      = SetCondition(zs, "Error", "False", r, m, time)
    BY Zenon DEF SetErrorFalse
  <2>. QED
    BY <1>1, <2>1, SetConditionMeans
    DEF IsUpgrading, IsReady, IsUpgradeFailed
<1>. QED
  BY <1>2, <1>3, <1>4, <1>5, <1>6, <1>7

-----------------------------------------------------------------------------
LEMMA InitStatusInv == Init => StatusInv
<1>1. ASSUME NEW zs, zs = EmptyStatus
      PROVE  /\ ~ zs.metaRootCreated /\ zs.targetVersion = NoTag
             /\ ~ IsUpgrading(zs) /\ ~ IsUpgradeFailed(zs) /\ ~ IsReady(zs)
  BY <1>1, Zenon
  DEF EmptyStatus, Absent, ConditionType, IsUpgrading, IsUpgradeFailed, IsReady
<1>. QED
  BY <1>1
  DEF Init, InitialCr, StatusInv, StatusCopies, Honest, Coherent, PassKnows,
      VersionsAgree, SameUpgrade

(* Every copy of the CR has the type of one and is not ahead of it.        *)
LEMMA StatusTypes ==
  ASSUME TypeOK, FollowerInv
  PROVE  /\ \A zs \in StatusCopies : zs \in ClusterStatusType
         /\ \A c \in {cr, crCache, behind.cr, instance} :
              c \in ClusterResource /\ c.rv \in Nat /\ c.rv <= cr.rv
         /\ cr.spec.tag # NoTag /\ instance.spec.tag # NoTag
         /\ InitialCr.status = EmptyStatus
         /\ now \in Nat
<1>1. \A c \in {cr, crCache, behind.cr, instance} : c \in ClusterResource
  BY DEF TypeOK
<1>2. \A c \in {cr, crCache, behind.cr, instance} : c.rv <= cr.rv
  BY DEF FollowerInv, CopiesAgree, CrCopies
<1>. QED
  BY <1>1, <1>2, TagAssumption
  DEF TypeOK, ClusterResource, ClusterSpec, StatusCopies, InitialCr

LEMMA EmptyStatusMeans ==
  /\ ~ EmptyStatus.metaRootCreated /\ EmptyStatus.targetVersion = NoTag
  /\ ~ IsUpgrading(EmptyStatus) /\ ~ IsUpgradeFailed(EmptyStatus)
  /\ ~ IsReady(EmptyStatus)
  BY Zenon
  DEF EmptyStatus, Absent, ConditionType, IsUpgrading, IsUpgradeFailed, IsReady

(* The metadata of the cluster stays where it is.                          *)
MetadataStays ==
  /\ znode.parent => znode'.parent
  /\ znode.size # NoSize => znode'.size # NoSize

(* A step that leaves the status in the API server alone, and where the    *)
(* pass ends, begins, goes on with the same copy, or waits.                *)
LEMMA QuietStep ==
  ASSUME TypeOK, FollowerInv, StatusInv, MetadataStays,
         \/ /\ cr' = cr
            /\ crCache' \in {crCache, cr, behind.cr}
            /\ behind'.cr \in {behind.cr, cr}
         \/ /\ cr'.rv = cr.rv + 1 /\ cr'.status = cr.status
            /\ UNCHANGED <<crCache, behind>>,
         \/ EndPass
         \/ pc' = pc /\ instance' = instance
         \/ /\ pc' = "statefulSet" /\ instance' = crCache
            /\ cr' = cr
         \/ /\ pc \in {"statefulSet", "updateSts", "upgrade"}
            /\ pc' \in {"updateSts", "upgrade", "status"}
            /\ ~ IsUpgradeFailed(instance.status)
            /\ instance'.rv = instance.rv
            /\ Kept(instance.status, instance'.status)
            /\ instance'.status.conditions = instance.status.conditions
            /\ cr' = cr
  PROVE  StatusInv'
<1>1. \A zs \in StatusCopies' : Honest(zs)' /\ Coherent(zs)
  <2>1. \A zs \in StatusCopies : Honest(zs)' /\ Coherent(zs)
    BY DEF StatusInv, Honest, MetadataStays
  <2>2. Honest(EmptyStatus)' /\ Coherent(EmptyStatus)
    BY EmptyStatusMeans DEF Honest, Coherent
  <2>3. {cr'.status, crCache'.status, behind'.cr.status} \subseteq StatusCopies
    BY DEF StatusCopies
  <2>4. \/ instance'.status \in StatusCopies \cup {EmptyStatus}
        \/ /\ Kept(instance.status, instance'.status)
           /\ instance'.status.conditions = instance.status.conditions
    BY StatusTypes DEF StatusCopies, EndPass
  <2>5. ASSUME NEW zs, Kept(instance.status, zs),
               zs.conditions = instance.status.conditions
        PROVE  Honest(zs)' /\ Coherent(zs)
    <3>1. PICK old \in StatusCopies : old = instance.status
      BY DEF StatusCopies
    <3>2. Honest(old)' /\ Coherent(old)
      BY <2>1, <3>1
    <3>3. QED
      BY <2>5, <3>1, <3>2
      DEF Honest, Coherent, Kept, IsUpgrading, IsReady, IsUpgradeFailed
  <2>6. QED
    BY <2>1, <2>2, <2>3, <2>4, <2>5 DEF StatusCopies, Honest
<1>2. PassKnows'
  BY DEF StatusInv, PassKnows, EndPass, MetadataStays, IsUpgradeFailed
<1>3. VersionsAgree'
  BY StatusTypes
  DEF StatusInv, VersionsAgree, SameUpgrade, EndPass, Kept, IsUpgrading,
      UpgradeCompleted
<1>. QED
  BY <1>1, <1>2, <1>3 DEF StatusInv, Coherent

(* The status of the CR is written, from a current copy, and the pass goes *)
(* on with the response of the server or ends.                             *)
LEMMA WriteStep ==
  ASSUME TypeOK, FollowerInv, StatusInv, UNCHANGED <<znode, crCache, behind>>,
         NEW zs \in ClusterStatusType, Honest(zs), Coherent(zs),
         cr' = IF zs = cr.status THEN cr
               ELSE [cr EXCEPT !.rv = @ + 1, !.status = zs],
         \/ EndPass
         \/ pc' = "status" /\ instance' = cr'
  PROVE  StatusInv'
<1>1. cr'.status = zs /\ (cr' = cr \/ cr'.rv = cr.rv + 1)
  BY DEF TypeOK, ClusterResource
<1>2. \A z \in StatusCopies' : Honest(z)' /\ Coherent(z)
  BY <1>1, StatusTypes, EmptyStatusMeans
  DEF StatusInv, StatusCopies, Honest, EndPass, Coherent
<1>3. PassKnows'
  BY DEF PassKnows, EndPass
<1>4. VersionsAgree'
  <2>1. (pc # "idle" => SameUpgrade(cr.status, instance.status))'
    BY DEF EndPass, SameUpgrade, IsUpgrading
  <2>2. CASE cr' = cr
    BY <2>1, <2>2 DEF StatusInv, VersionsAgree, SameUpgrade, IsUpgrading
  <2>3. CASE cr'.rv = cr.rv + 1
    BY <2>1, <2>3, StatusTypes DEF VersionsAgree, EndPass
  <2>. QED
    BY <1>1, <2>2, <2>3
<1>. QED
  BY <1>2, <1>3, <1>4 DEF StatusInv, Coherent

(* StatusUpdate, of an honest and coherent status.                         *)
LEMMA StatusUpdateStep ==
  ASSUME TypeOK, FollowerInv, StatusInv, Unaffected,
         NEW zs \in ClusterStatusType, Honest(zs), Coherent(zs),
         StatusUpdate(zs, "status")
  PROVE  StatusInv'
<1>1. CASE instance.rv = cr.rv
  BY <1>1, WriteStep DEF StatusUpdate, Continue, Unaffected, cacheVars
<1>2. CASE instance.rv # cr.rv
  BY <1>2, QuietStep DEF StatusUpdate, Unaffected, cacheVars, MetadataStays
<1>. QED
  BY <1>1, <1>2

(* The local copy of the status changes, in a way that the next calls of   *)
(* the pass may rely on, and the CR does not.                              *)
LEMMA LocalStep ==
  ASSUME TypeOK, FollowerInv, StatusInv, MetadataStays,
         UNCHANGED <<cr, crCache, behind>>,
         pc # "idle",
         pc' \in {"status", "createNode", "writeStatus"},
         instance'.rv = cr.rv => instance.rv = cr.rv,
         Honest(instance.status)', Coherent(instance'.status),
         pc' \in {"createNode", "writeStatus"}
           => /\ ~ IsUpgrading(instance'.status)
              /\ ~ IsUpgradeFailed(instance'.status),
         pc' = "createNode" => znode'.parent,
         pc' = "writeStatus" => instance'.status.metaRootCreated,
         \/ SameUpgrade(cr.status, instance'.status)
         \/ UpgradeCompleted(cr.status, instance'.status)
         \/ instance.rv # cr.rv
  PROVE  StatusInv'
<1>1. \A zs \in StatusCopies' : Honest(zs)' /\ Coherent(zs)
  BY DEF StatusInv, StatusCopies, Honest, Coherent, MetadataStays
<1>2. PassKnows'
  BY DEF PassKnows, IsUpgrading, IsUpgradeFailed
<1>3. VersionsAgree'
  BY DEF StatusInv, VersionsAgree, SameUpgrade, UpgradeCompleted, IsUpgrading
<1>. QED
  BY <1>1, <1>2, <1>3 DEF StatusInv, Coherent

(* clearUpgradeStatus, for a status in which only the version and the      *)
(* failure differ from the one at hand.                                    *)
LEMMA ClearStep ==
  ASSUME TypeOK, FollowerInv, StatusInv,
         UNCHANGED <<cr, crCache, behind, znode>>,
         pc \in {"statefulSet", "upgrade"},
         NEW zs \in ClusterStatusType,
         zs.metaRootCreated = instance.status.metaRootCreated,
         zs.currentVersion = instance.status.targetVersion,
         IsUpgrading(instance.status), ~ IsUpgradeFailed(zs),
         IsReady(zs) => IsReady(instance.status),
         ClearUpgradeStatus(zs)
  PROVE  StatusInv'
<1>. DEFINE down == SetUpgradingFalse(zs, now)
            cleared == [down EXCEPT !.targetVersion = NoTag]
<1>1. /\ down \in ClusterStatusType
      /\ Kept(zs, down) /\ ~ IsUpgrading(down) /\ ~ IsUpgradeFailed(down)
      /\ ~ IsReady(down)
  BY SettersMean, SettersType, StatusTypes
     DEF StatusInv, StatusCopies, Coherent
<1>. HIDE DEF down
<1>2. /\ cleared.metaRootCreated = instance.status.metaRootCreated
      /\ cleared.currentVersion = instance.status.targetVersion
      /\ cleared.targetVersion = NoTag
      /\ ~ IsUpgrading(cleared) /\ ~ IsUpgradeFailed(cleared)
      /\ ~ IsReady(cleared)
  BY <1>1 DEF ClusterStatusType, Kept, IsUpgrading, IsUpgradeFailed, IsReady
<1>. HIDE DEF cleared
<1>3. CASE instance.rv = cr.rv
  <2>1. /\ pc' = "status" /\ instance'.rv = cr.rv
        /\ instance'.status = cleared
    <3>1. pc' = "status" /\ instance' = [cr EXCEPT !.status = cleared]
      BY <1>3 DEF ClearUpgradeStatus, Continue, cleared, down
    <3>. QED
      BY <3>1, StatusTypes DEF ClusterResource
  <2>2. Honest(instance.status)' /\ Coherent(cleared)
    BY <1>2, <2>1 DEF StatusInv, StatusCopies, Honest, Coherent
  <2>3. UpgradeCompleted(cr.status, cleared)
    BY <1>2, <1>3 DEF StatusInv, VersionsAgree, SameUpgrade, UpgradeCompleted
  <2>. QED
    BY <1>3, <2>1, <2>2, <2>3, LocalStep DEF MetadataStays
<1>4. CASE instance.rv # cr.rv
  BY <1>4, QuietStep DEF ClearUpgradeStatus, MetadataStays
<1>. QED
  BY <1>3, <1>4

(* The steps of reconcileStatefulSet.                                      *)
LEMMA ReconcileStatefulSetStatus ==
  ASSUME TypeOK, FollowerInv, StatusInv,
         \/ RecoverFailedUpgrade \/ StayFailed \/ CreateStatefulSet
         \/ RefuseStaleness \/ MetadataMissing \/ UpdateClusterSize
         \/ UpdateSameSize \/ UpdateNewSize
  PROVE  StatusInv'
<1>. USE DEF apiVars, cacheVars, MetadataStays
<1>1. CASE RecoverFailedUpgrade
  <2>. DEFINE ok == SetErrorFalse(instance.status, now)
              zs == [ok EXCEPT !.currentVersion = instance.status.targetVersion]
  <2>1. /\ ok \in ClusterStatusType
        /\ Kept(instance.status, ok) /\ ~ IsUpgradeFailed(ok)
        /\ IsReady(ok) <=> IsReady(instance.status)
        /\ instance.status.targetVersion \in Version
    BY SettersMean, SettersType, StatusTypes
    DEF StatusCopies, ClusterStatusType
  <2>2. ClearUpgradeStatus(zs) /\ pc = "statefulSet"
    BY <1>1 DEF RecoverFailedUpgrade
  <2>. HIDE DEF ok
  <2>3. /\ zs \in ClusterStatusType
        /\ zs.metaRootCreated = instance.status.metaRootCreated
        /\ zs.currentVersion = instance.status.targetVersion
        /\ ~ IsUpgradeFailed(zs)
        /\ IsReady(zs) <=> IsReady(instance.status)
    BY <2>1 DEF ClusterStatusType, Kept, IsUpgradeFailed, IsReady
  <2>4. IsUpgrading(instance.status)
    BY <1>1 DEF RecoverFailedUpgrade, StatusInv, StatusCopies, Coherent
  <2>. HIDE DEF zs
  <2>. QED
    BY <1>1, <2>2, <2>3, <2>4, ClearStep DEF RecoverFailedUpgrade
<1>2. CASE StayFailed
  BY <1>2, QuietStep DEF StayFailed
<1>3. CASE CreateStatefulSet
  BY <1>3, QuietStep DEF CreateStatefulSet, Continue, Kept
<1>4. CASE RefuseStaleness
  BY <1>4, QuietStep DEF RefuseStaleness
<1>5. CASE MetadataMissing
  BY <1>5, QuietStep DEF MetadataMissing
<1>6. CASE UpdateClusterSize
  <2>1. MetadataStays
    <3>1. instance.spec.replicas # NoSize
      BY SizeAssumption DEF TypeOK, ClusterResource, ClusterSpec, NoSize
    <3>. QED
      BY <1>6, <3>1 DEF UpdateClusterSize, TypeOK
  <2>. QED
    BY <1>6, <2>1, QuietStep
    DEF UpdateClusterSize, FoundStatefulSet, Continue, Kept
<1>7. ASSUME NEW found, WriteStatefulSet(found),
             UNCHANGED <<cr, znode, crCache, stsCache, behind>>,
             pc \in {"statefulSet", "updateSts"},
             ~ IsUpgradeFailed(instance.status)
      PROVE  StatusInv'
  <2>1. CASE found.rv = sts.rv
    <3>. DEFINE new == [instance EXCEPT
                          !.status.replicas = sts.status.replicas,
                          !.status.readyReplicas = sts.status.readyReplicas]
    <3>1. /\ new.rv = instance.rv
          /\ Kept(instance.status, new.status)
          /\ new.status.conditions = instance.status.conditions
      BY DEF TypeOK, ClusterResource, ClusterStatusType, Kept
    <3>2. pc' = "upgrade" /\ instance' = new
      BY <1>7, <2>1 DEF WriteStatefulSet, Continue
    <3>. HIDE DEF new
    <3>. QED
      BY <1>7, <3>1, <3>2, QuietStep DEF Kept
  <2>2. CASE found.rv # sts.rv
    BY <1>7, <2>2, QuietStep DEF WriteStatefulSet
  <2>. QED
    BY <2>1, <2>2
<1>8. CASE UpdateSameSize
  BY <1>7, <1>8 DEF UpdateSameSize, FoundStatefulSet
<1>9. CASE UpdateNewSize
  BY <1>7, <1>9 DEF UpdateNewSize, StatusInv, PassKnows
<1>. QED
  BY <1>1, <1>2, <1>3, <1>4, <1>5, <1>6, <1>8, <1>9

(* The steps of upgradeStatefulSet.                                        *)
LEMMA UpgradeStatefulSetStatus ==
  ASSUME TypeOK, FollowerInv, StatusInv,
         \/ InitUpgrading \/ StartUpgrade \/ NoUpgrade \/ CompleteUpgrade
         \/ ReportProgress \/ FailUpgrade \/ AwaitProgress
  PROVE  StatusInv'
<1>. USE DEF Unaffected, cacheVars, MetadataStays
<1>. DEFINE zs == instance.status
<1>0. /\ zs \in ClusterStatusType /\ Honest(zs) /\ Coherent(zs)
      /\ now \in Nat /\ pc = "upgrade" /\ ~ IsUpgradeFailed(zs)
      /\ instance.rv = cr.rv => SameUpgrade(cr.status, zs)
  BY StatusTypes
  DEF StatusInv, StatusCopies, PassKnows, VersionsAgree, InitUpgrading,
      StartUpgrade, NoUpgrade, CompleteUpgrade, ReportProgress, FailUpgrade,
      AwaitProgress, InUpgrade, UpgradeInProgress
<1>1. CASE InitUpgrading
  <2>. DEFINE new == SetUpgradingFalse(zs, now)
  <2>1. ~ IsUpgrading(zs)
    BY <1>1 DEF InitUpgrading, InUpgrade, IsUpgrading
  <2>2. /\ Kept(zs, new) /\ ~ IsUpgrading(new) /\ ~ IsUpgradeFailed(new)
        /\ IsReady(new) <=> IsReady(zs)
    BY <1>0, SettersMean
  <2>3. pc' = "status" /\ instance'.rv = instance.rv /\ instance'.status = new
    BY <1>1 DEF InitUpgrading, Continue, TypeOK, ClusterResource
  <2>. HIDE DEF new
  <2>4. Honest(instance.status)' /\ Coherent(new)
    BY <1>0, <1>1, <2>1, <2>2, <2>3
    DEF InitUpgrading, Honest, Coherent, Kept
  <2>5. instance.rv = cr.rv => SameUpgrade(cr.status, new)
    BY <1>0, <2>1, <2>2 DEF SameUpgrade, Kept
  <2>. QED
    BY <1>0, <1>1, <2>3, <2>4, <2>5, LocalStep DEF InitUpgrading
<1>2. CASE StartUpgrade
  <2>. DEFINE target  == [zs EXCEPT !.targetVersion = instance.spec.tag]
              unready == SetPodsReady(target, "False", now)
  <2>1. PICK reason : StatusUpdate(SetUpgradingTrue(unready, reason, NoMessage,
                                                    now), "status")
                      /\ reason \in {"", "Updating Zookeeper", "UpgradeFailed"}
    BY <1>2, Zenon DEF StartUpgrade
  <2>2. /\ target \in ClusterStatusType
        /\ target.metaRootCreated = zs.metaRootCreated
        /\ target.targetVersion # NoTag
    BY <1>0, StatusTypes
    DEF TypeOK, ClusterResource, ClusterSpec, ClusterStatusType, Version
  <2>. HIDE DEF target
  <2>3. /\ unready \in ClusterStatusType
        /\ Kept(target, unready) /\ ~ IsReady(unready)
    BY <1>0, <2>2, SettersMean, SettersType
  <2>. HIDE DEF unready
  <2>. DEFINE new == SetUpgradingTrue(unready, reason, NoMessage, now)
  <2>4. new \in ClusterStatusType
    <3>1. NoMessage \in Nat \cup {NoMessage} /\ "Upgrading" \in ConditionType
      BY DEF ConditionType
    <3>. QED
      BY <1>0, <2>1, <2>3, <3>1, SetConditionType, Zenon DEF SetUpgradingTrue
  <2>5. /\ Kept(unready, new) /\ IsUpgrading(new) /\ ~ IsReady(new)
    BY <2>3, SettersMean
  <2>. HIDE DEF new
  <2>6. Honest(new) /\ Coherent(new)
    BY <1>0, <2>2, <2>3, <2>5 DEF Honest, Coherent, Kept
  <2>7. StatusUpdate(new, "status")
    BY <2>1 DEF new
  <2>. QED
    BY <1>2, <2>4, <2>6, <2>7, StatusUpdateStep DEF StartUpgrade
<1>3. CASE NoUpgrade
  BY <1>0, <1>3, StatusUpdateStep DEF NoUpgrade
<1>4. CASE CompleteUpgrade
  <2>1. IsUpgrading(zs) /\ zs.targetVersion # NoTag
    BY <1>0, <1>4 DEF CompleteUpgrade, InUpgrade, IsUpgrading, Coherent
  <2>. DEFINE new == [zs EXCEPT !.currentVersion = zs.targetVersion]
  <2>2. ClearUpgradeStatus(new)
    BY <1>4, <2>1 DEF CompleteUpgrade, UnknownTarget
  <2>3. /\ new \in ClusterStatusType
        /\ new.metaRootCreated = zs.metaRootCreated
        /\ new.currentVersion = zs.targetVersion
        /\ ~ IsUpgradeFailed(new)
        /\ IsReady(new) <=> IsReady(zs)
    BY <1>0 DEF ClusterStatusType, IsUpgradeFailed, IsReady
  <2>. HIDE DEF new
  <2>. QED
    BY <1>0, <1>4, <2>1, <2>2, <2>3, ClearStep DEF CompleteUpgrade
<1>5. CASE ReportProgress
  <2>1. IsUpgrading(zs)
    BY <1>5 DEF ReportProgress, UpgradeInProgress, InUpgrade, IsUpgrading
  <2>. DEFINE updated == foundSts.status.updatedReplicas
              new == UpdateProgress(zs, updated, now)
  <2>2. /\ new \in ClusterStatusType
        /\ Kept(zs, new) /\ IsUpgrading(new)
        /\ IsReady(new) <=> IsReady(zs)
    <3>1. updated \in Nat
      BY DEF TypeOK, StsResource, StsStatus
    <3>. QED
      BY <1>0, <2>1, <3>1, UpdateProgressType, SettersMean DEF UpdateProgress
  <2>3. StatusUpdate(new, "status")
    BY <1>5 DEF ReportProgress
  <2>. HIDE DEF new
  <2>4. Honest(new) /\ Coherent(new)
    BY <1>0, <2>1, <2>2 DEF Honest, Coherent, Kept
  <2>. QED
    BY <1>5, <2>2, <2>3, <2>4, StatusUpdateStep DEF ReportProgress
<1>6. CASE FailUpgrade
  <2>1. IsUpgrading(zs)
    BY <1>6 DEF FailUpgrade, UpgradeInProgress, InUpgrade, IsUpgrading
  <2>. DEFINE new == SetErrorTrue(zs, now)
  <2>2. /\ new \in ClusterStatusType
        /\ Kept(zs, new) /\ IsUpgrading(new)
        /\ IsReady(new) <=> IsReady(zs)
    BY <1>0, <2>1, SettersType, SettersMean
  <2>3. StatusUpdate(new, "status")
    BY <1>6 DEF FailUpgrade
  <2>. HIDE DEF new
  <2>4. Honest(new) /\ Coherent(new)
    BY <1>0, <2>1, <2>2 DEF Honest, Coherent, Kept
  <2>. QED
    BY <1>6, <2>2, <2>3, <2>4, StatusUpdateStep DEF FailUpgrade
<1>7. CASE AwaitProgress
  BY <1>0, <1>7, QuietStep DEF AwaitProgress, Continue, Kept
<1>. QED
  BY <1>1, <1>2, <1>3, <1>4, <1>5, <1>6, <1>7

(* The status that reconcileClusterStatus reports, of a cluster that is    *)
(* not upgrading.                                                          *)
LEMMA ReportedStatusMeans ==
  ASSUME TypeOK, FollowerInv, StatusInv, ~ IsUpgrading(instance.status),
         ~ IsUpgradeFailed(instance.status)
  PROVE  /\ ReportedStatus \in ClusterStatusType
         /\ ~ MetaRootDue => Honest(ReportedStatus)
         /\ Coherent(ReportedStatus)
         /\ ~ IsUpgrading(ReportedStatus)
         /\ \/ ReportedStatus.currentVersion = instance.status.currentVersion
            \/ instance.status.currentVersion = NoTag
<1>. DEFINE zs == instance.status
            init == InitConditions(zs)
            allReady == zs.readyReplicas = instance.spec.replicas
            ready == SetPodsReady(init, IF allReady THEN "True" ELSE "False",
                                  now)
<1>1. /\ zs \in ClusterStatusType /\ now \in Nat
      /\ Honest(zs) /\ Coherent(zs)
  BY StatusTypes DEF StatusInv, StatusCopies
<1>2. /\ init \in ClusterStatusType
      /\ Kept(zs, init) /\ ~ IsUpgrading(init) /\ ~ IsUpgradeFailed(init)
  BY <1>1, SettersType, SettersMean
<1>. HIDE DEF init
<1>3. /\ ready \in ClusterStatusType
      /\ Kept(init, ready) /\ ~ IsUpgrading(ready) /\ ~ IsUpgradeFailed(ready)
      /\ IsReady(ready) => allReady
  <2>1. CASE allReady
    BY <1>1, <1>2, <2>1, SettersType, SettersMean
  <2>2. CASE ~ allReady
    BY <1>1, <1>2, <2>2, SettersType, SettersMean
  <2>. QED
    BY <2>1, <2>2
<1>4. ReportedStatus = IF ready.currentVersion = NoTag /\ IsReady(ready)
                       THEN [ready EXCEPT !.currentVersion = instance.spec.tag]
                       ELSE ready
  BY DEF ReportedStatus, init
<1>. HIDE DEF ready
<1>5. /\ ReportedStatus.metaRootCreated = zs.metaRootCreated
      /\ ReportedStatus.targetVersion = zs.targetVersion
      /\ ~ IsUpgrading(ReportedStatus) /\ ~ IsUpgradeFailed(ReportedStatus)
      /\ \/ ReportedStatus.currentVersion = zs.currentVersion
         \/ zs.currentVersion = NoTag
      /\ IsReady(ReportedStatus) => allReady
  BY <1>2, <1>3, <1>4
  DEF ClusterStatusType, Kept, IsUpgrading, IsReady, IsUpgradeFailed
<1>6. /\ ~ MetaRootDue => Honest(ReportedStatus)
      /\ Coherent(ReportedStatus)
  BY <1>1, <1>5 DEF Honest, Coherent, MetaRootDue
<1>. QED
  BY <1>5, <1>6, ReportedStatusType

(* The steps of reconcileClusterStatus.                                    *)
LEMMA ReconcileClusterStatusStatus ==
  ASSUME TypeOK, FollowerInv, StatusInv,
         \/ SkipClusterStatus \/ CreateParentNode \/ CreateNode
         \/ WriteClusterStatus \/ ClusterStatusConflict
  PROVE  StatusInv'
<1>. USE DEF Unaffected, apiVars, cacheVars
<1>0. /\ Honest(instance.status) /\ Coherent(instance.status)
      /\ pc # "idle" /\ instance.rv = cr.rv =>
           \/ SameUpgrade(cr.status, instance.status)
           \/ UpgradeCompleted(cr.status, instance.status)
  BY DEF StatusInv, StatusCopies, VersionsAgree
<1>1. CASE SkipClusterStatus
  BY <1>1, QuietStep DEF SkipClusterStatus, MetadataStays
<1>2. CASE CreateParentNode
  <2>1. CASE znode.parent
    BY <1>2, <2>1, QuietStep DEF CreateParentNode, MetadataStays
  <2>2. CASE ~ znode.parent
    <3>1. /\ pc = "status" /\ pc' = "createNode" /\ instance' = instance
          /\ MetadataStays /\ znode'.parent
          /\ UNCHANGED <<cr, crCache, behind>>
      BY <1>2, <2>2
      DEF CreateParentNode, InClusterStatus, Continue, MetadataStays, TypeOK
    <3>2. ~ IsUpgrading(instance.status) /\ ~ IsUpgradeFailed(instance.status)
      BY <1>2 DEF CreateParentNode, InClusterStatus
    <3>3. Honest(instance.status)'
      BY <1>0, <3>1 DEF Honest, MetadataStays
    <3>. QED
      BY <1>0, <3>1, <3>2, <3>3, LocalStep
  <2>. QED
    BY <2>1, <2>2
<1>3. CASE CreateNode
  <2>. DEFINE new == [instance EXCEPT !.status.metaRootCreated = TRUE]
  <2>1. /\ pc = "createNode" /\ pc' = "writeStatus" /\ instance' = new
        /\ UNCHANGED <<cr, crCache, behind>>
    BY <1>3 DEF CreateNode, Continue
  <2>2. /\ new.rv = instance.rv
        /\ new.status.currentVersion = instance.status.currentVersion
        /\ new.status.targetVersion = instance.status.targetVersion
        /\ new.status.conditions = instance.status.conditions
        /\ new.status.metaRootCreated
    BY DEF TypeOK, ClusterResource, ClusterStatusType
  <2>3. znode.parent /\ ~ IsUpgrading(instance.status)
        /\ ~ IsUpgradeFailed(instance.status)
    BY <2>1 DEF StatusInv, PassKnows
  <2>4. znode'.parent /\ znode'.size # NoSize
    <3>1. instance.spec.replicas # NoSize
      BY SizeAssumption DEF TypeOK, ClusterResource, ClusterSpec, NoSize
    <3>. QED
      BY <1>3, <2>3, <3>1 DEF CreateNode, TypeOK
  <2>. HIDE DEF new
  <2>5. ~ IsUpgrading(new.status) /\ ~ IsUpgradeFailed(new.status)
        /\ (IsReady(new.status) <=> IsReady(instance.status))
    BY <2>2, <2>3 DEF IsUpgrading, IsUpgradeFailed, IsReady
  <2>6. Coherent(instance'.status) /\ Honest(instance.status)'
    BY <1>0, <2>1, <2>2, <2>3, <2>4, <2>5 DEF Coherent, Honest
  <2>7. pc # "idle" /\ instance.rv = cr.rv =>
          \/ SameUpgrade(cr.status, new.status)
          \/ UpgradeCompleted(cr.status, new.status)
    BY <1>0, <2>2, <2>3, <2>5 DEF SameUpgrade, UpgradeCompleted
  <2>. QED
    BY <2>1, <2>2, <2>4, <2>5, <2>6, <2>7, LocalStep DEF MetadataStays
<1>4. CASE WriteClusterStatus
  <2>1. ~ IsUpgrading(instance.status) /\ ~ IsUpgradeFailed(instance.status)
    BY <1>4 DEF WriteClusterStatus, InClusterStatus, StatusInv, PassKnows
  <2>2. ~ MetaRootDue
    BY <1>4 DEF WriteClusterStatus, StatusInv, PassKnows, MetaRootDue
  <2>. QED
    BY <1>4, <2>1, <2>2, ReportedStatusMeans, WriteStep DEF WriteClusterStatus
<1>5. CASE ClusterStatusConflict
  BY <1>5, QuietStep DEF ClusterStatusConflict, MetadataStays
<1>. QED
  BY <1>1, <1>2, <1>3, <1>4, <1>5

(* Every other step: nobody else writes the status.                        *)
LEMMA EnvironmentStatus ==
  ASSUME TypeOK, FollowerInv, StatusInv,
         \/ BeginPass \/ RollingRestart \/ CallFails \/ Crash
         \/ SyncCrCache \/ SyncStsCache \/ CatchUp \/ Tick \/ User
         \/ StatefulSetController \/ PodBecomesReady \/ PodFails
         \/ UNCHANGED vars
  PROVE  StatusInv'
<1>. USE DEF MetadataStays, apiVars, cacheVars, operatorVars
<1>1. CASE BeginPass
  BY <1>1, QuietStep DEF BeginPass, Continue
<1>2. CASE RollingRestart
  <2>1. cr'.rv = cr.rv + 1 /\ cr'.status = cr.status
    BY <1>2 DEF RollingRestart, TypeOK, ClusterResource
  <2>. QED
    BY <1>2, <2>1, QuietStep DEF RollingRestart
<1>3. CASE CallFails
  BY <1>3, QuietStep DEF CallFails
<1>4. CASE Crash
  BY <1>4, QuietStep DEF Crash
<1>5. CASE SyncCrCache
  BY <1>5, QuietStep DEF SyncCrCache
<1>6. CASE SyncStsCache
  BY <1>6, QuietStep DEF SyncStsCache
<1>7. CASE CatchUp
  BY <1>7, QuietStep DEF CatchUp
<1>8. CASE Tick
  BY <1>8, QuietStep DEF Tick
<1>9. CASE User
  <2>1. PICK spec : EditSpec(spec)
    BY <1>9 DEF User, EditReplicas, EditTag, RequestRestart
  <2>2. cr'.rv = cr.rv + 1 /\ cr'.status = cr.status
    BY <2>1 DEF EditSpec, TypeOK, ClusterResource
  <2>. QED
    BY <2>1, <2>2, QuietStep DEF EditSpec
<1>10. CASE StatefulSetController \/ PodBecomesReady \/ PodFails
  <2>1. PICK ps, current, update : SetPods(ps, current, update)
    BY <1>10
    DEF StatefulSetController, ObserveTemplate, PodCreated, PodDeleted,
        PodReplaced, RolloutCompletes, PodBecomesReady, PodFails
  <2>. QED
    BY <2>1, QuietStep DEF SetPods
<1>11. CASE UNCHANGED vars
  BY <1>11, QuietStep DEF vars
<1>. QED
  BY <1>1, <1>2, <1>3, <1>4, <1>5, <1>6, <1>7, <1>8, <1>9, <1>10, <1>11

LEMMA StepStatusInv ==
  TypeOK /\ FollowerInv /\ StatusInv /\ [Next]_vars => StatusInv'
<1>. QED
  BY ReconcileStatefulSetStatus, UpgradeStatefulSetStatus,
     ReconcileClusterStatusStatus, EnvironmentStatus
  DEF Next, Pass

(* What is recorded about the metadata and the upgrade is true of every    *)
(* copy of the status, always.                                             *)
THEOREM StatusInvariant == Spec => []StatusInv
<1>. QED
  BY InitStatusInv, StepStatusInv, TypeCorrect, FollowerInvariant, PTL DEF Spec

(* MetaRootCreated is reported only when the znode is there, wherever a    *)
(* pass was cut off or refused before (reconcileClusterStatus).            *)
THEOREM MetaRootIsThere == Spec => []MetaRootExists
<1>1. StatusInv => MetaRootExists
  BY DEF StatusInv, StatusCopies, Honest, MetaRootExists
<1>. QED
  BY <1>1, StatusInvariant, PTL

(* Conditions and versions agree after any sequence of starts, failures,   *)
(* recoveries, conflicts and crashes (upgradeStatefulSet).                 *)
THEOREM UpgradesCoherent == Spec => []UpgradeStateCoherent
<1>1. StatusInv => UpgradeStateCoherent
  BY DEF StatusInv, StatusCopies, Coherent, UpgradeStateCoherent
<1>. QED
  BY <1>1, StatusInvariant, PTL

VersionStep ==
  cr'.status.currentVersion # cr.status.currentVersion
    => \/ cr.status.currentVersion = NoTag
       \/ /\ IsUpgrading(cr.status) /\ ~ IsUpgrading(cr'.status)
          /\ cr'.status.currentVersion = cr.status.targetVersion

(* The updates of the status in upgradeStatefulSet keep the version.       *)
LEMMA UpgradeKeepsVersion ==
  ASSUME TypeOK, FollowerInv, StatusInv,
         \/ StartUpgrade \/ NoUpgrade \/ ReportProgress \/ FailUpgrade
  PROVE  cr'.status.currentVersion = cr.status.currentVersion
<1>. DEFINE zs == instance.status
<1>1. /\ zs \in ClusterStatusType /\ pc = "upgrade" /\ now \in Nat
  BY StatusTypes
  DEF StatusCopies, StartUpgrade, NoUpgrade, ReportProgress, FailUpgrade,
      InUpgrade, UpgradeInProgress
<1>2. ASSUME NEW new, StatusUpdate(new, "status"),
             new.currentVersion = zs.currentVersion
      PROVE  cr'.status.currentVersion = cr.status.currentVersion
  <2>1. CASE instance.rv = cr.rv
    <3>1. cr'.status = new
      BY <1>2, <2>1 DEF StatusUpdate, TypeOK, ClusterResource
    <3>2. SameUpgrade(cr.status, zs)
      BY <1>1, <2>1 DEF StatusInv, VersionsAgree
    <3>. QED
      BY <1>2, <3>1, <3>2 DEF SameUpgrade
  <2>2. CASE instance.rv # cr.rv
    BY <1>2, <2>2 DEF StatusUpdate
  <2>. QED
    BY <2>1, <2>2
<1>3. CASE StartUpgrade
  <2>. DEFINE target  == [zs EXCEPT !.targetVersion = instance.spec.tag]
              unready == SetPodsReady(target, "False", now)
  <2>1. PICK reason : StatusUpdate(SetUpgradingTrue(unready, reason, NoMessage,
                                                    now), "status")
    BY <1>3, Zenon DEF StartUpgrade
  <2>2. /\ target \in ClusterStatusType
        /\ target.currentVersion = zs.currentVersion
    BY <1>1 DEF TypeOK, ClusterResource, ClusterSpec, ClusterStatusType, Version
  <2>. HIDE DEF target
  <2>3. unready \in ClusterStatusType /\ Kept(target, unready)
    BY <1>1, <2>2, SettersType, SettersMean
  <2>. HIDE DEF unready
  <2>4. Kept(unready, SetUpgradingTrue(unready, reason, NoMessage, now))
    BY <2>3, SettersMean
  <2>. QED
    BY <1>2, <2>1, <2>2, <2>3, <2>4 DEF Kept
<1>4. CASE NoUpgrade
  BY <1>2, <1>4 DEF NoUpgrade
<1>5. CASE ReportProgress
  <2>. DEFINE new == UpdateProgress(zs, foundSts.status.updatedReplicas, now)
  <2>1. Kept(zs, new)
    <3>1. CASE IsUpgrading(zs)
      BY <1>1, <3>1, SettersMean DEF UpdateProgress
    <3>2. CASE ~ IsUpgrading(zs)
      BY <3>2 DEF UpdateProgress, Kept
    <3>. QED
      BY <3>1, <3>2
  <2>2. StatusUpdate(new, "status")
    BY <1>5 DEF ReportProgress
  <2>. HIDE DEF new
  <2>. QED
    BY <1>2, <2>1, <2>2 DEF Kept
<1>6. CASE FailUpgrade
  <2>. DEFINE new == SetErrorTrue(zs, now)
  <2>1. Kept(zs, new)
    BY <1>1, SettersMean
  <2>2. StatusUpdate(new, "status")
    BY <1>6 DEF FailUpgrade
  <2>. HIDE DEF new
  <2>. QED
    BY <1>2, <2>1, <2>2 DEF Kept
<1>. QED
  BY <1>3, <1>4, <1>5, <1>6

LEMMA StepVersion ==
  TypeOK /\ FollowerInv /\ StatusInv /\ [Next]_vars => [VersionStep]_vars
<1>. SUFFICES ASSUME TypeOK, FollowerInv, StatusInv, [Next]_vars
              PROVE  VersionStep
  OBVIOUS
<1>1. CASE WriteClusterStatus
  <2>1. /\ ~ IsUpgrading(instance.status) /\ ~ IsUpgradeFailed(instance.status)
        /\ pc # "idle" /\ instance.rv = cr.rv
    BY <1>1 DEF WriteClusterStatus, InClusterStatus, StatusInv, PassKnows
  <2>2. cr'.status = ReportedStatus
    BY <1>1 DEF WriteClusterStatus, TypeOK, ClusterResource
  <2>3. \/ SameUpgrade(cr.status, instance.status)
        \/ UpgradeCompleted(cr.status, instance.status)
    BY <2>1 DEF StatusInv, VersionsAgree
  <2>4. Coherent(cr.status)
    BY DEF StatusInv, StatusCopies
  <2>5. /\ ~ IsUpgrading(cr'.status)
        /\ \/ cr'.status.currentVersion = instance.status.currentVersion
           \/ instance.status.currentVersion = NoTag
    BY <2>1, <2>2, ReportedStatusMeans
  <2>. QED
    BY <2>3, <2>4, <2>5 DEF SameUpgrade, UpgradeCompleted, Coherent, VersionStep
<1>2. CASE StartUpgrade \/ NoUpgrade \/ ReportProgress \/ FailUpgrade
  BY <1>2, UpgradeKeepsVersion DEF VersionStep
<1>3. CASE RollingRestart \/ User
  <2>1. cr'.status = cr.status
    BY <1>3
    DEF RollingRestart, User, EditReplicas, EditTag, RequestRestart, EditSpec,
        TypeOK, ClusterResource
  <2>. QED
    BY <2>1 DEF VersionStep
<1>4. CASE UNCHANGED cr
  BY <1>4 DEF VersionStep
<1>5. \/ WriteClusterStatus
      \/ StartUpgrade \/ NoUpgrade \/ ReportProgress \/ FailUpgrade
      \/ RollingRestart \/ User
      \/ UNCHANGED cr
  BY DEF Next, Pass, StatefulSetController, vars, apiVars, Unaffected,
         BeginPass, RecoverFailedUpgrade, StayFailed, CreateStatefulSet,
         RefuseStaleness, MetadataMissing, UpdateClusterSize, UpdateSameSize,
         UpdateNewSize, InitUpgrading, CompleteUpgrade, AwaitProgress,
         SkipClusterStatus, CreateParentNode, CreateNode,
         ClusterStatusConflict, CallFails, Crash, SyncCrCache, SyncStsCache,
         CatchUp, Tick, ObserveTemplate, PodCreated, PodDeleted, PodReplaced,
         RolloutCompletes, PodBecomesReady, PodFails, SetPods
<1>. QED
  BY <1>1, <1>2, <1>3, <1>4, <1>5

(* The reported version changes only by the end of an upgrade, to the      *)
(* version the upgrade was for, although the end is concluded in a local   *)
(* copy and written by a later call (clearUpgradeStatus).                  *)
THEOREM VersionsChangeByUpgrade == Spec => VersionChangesByUpgrade
<1>1. TypeOK /\ FollowerInv /\ StatusInv /\ [Next]_vars
        => [cr'.status.currentVersion # cr.status.currentVersion
              => \/ cr.status.currentVersion = NoTag
                 \/ /\ IsUpgrading(cr.status) /\ ~ IsUpgrading(cr'.status)
                    /\ cr'.status.currentVersion = cr.status.targetVersion]_vars
  BY StepVersion DEF VersionStep
<1>. QED
  BY <1>1, TypeCorrect, FollowerInvariant, StatusInvariant, PTL
  DEF Spec, VersionChangesByUpgrade

-----------------------------------------------------------------------------
(* The size in ZooKeeper.                                                  *)

SizesAgree ==
  \A s \in {stsCache, behind.sts, foundSts} :
    s.rv = sts.rv => s.replicas = sts.replicas

Announced == pc = "updateSts" => znode.size = instance.spec.replicas

SizeInv == SizesAgree /\ Announced

(* The size is written from the copy of the StatefulSet at hand.           *)
LEMMA WriteStatefulSetSize ==
  ASSUME TypeOK, FollowerInv, SizeInv,
         NEW found \in {stsCache, foundSts}, WriteStatefulSet(found),
         UNCHANGED <<stsCache, behind>>,
         \/ znode.size = instance.spec.replicas
         \/ found.replicas = instance.spec.replicas
  PROVE  /\ SizeInv'
         /\ sts'.replicas # sts.replicas => znode.size = sts'.replicas
<1>1. \A s \in {stsCache, behind.sts} : s.rv \in Nat /\ s.rv <= sts.rv
  BY CopiesType DEF FollowerInv, CopiesAgree, StsCopies
<1>2. sts \in StsResource /\ sts.rv \in Nat
  BY DEF TypeOK, StsResource
<1>3. CASE found.rv # sts.rv
  <2>1. pc' = "idle" /\ foundSts' = NoSts /\ sts' = sts
    BY <1>3 DEF WriteStatefulSet, EndPass
  <2>2. NoSts.rv = sts.rv => NoSts.replicas = sts.replicas
    BY <1>2 DEF FollowerInv, LabelVouches, Exists, NoSts
  <2>. QED
    BY <2>1, <2>2 DEF SizeInv, SizesAgree, Announced
<1>4. CASE found.rv = sts.rv
  <2>. DEFINE label == IF instance.rv > found.ownerRv
                       THEN instance.rv ELSE found.ownerRv
              written == [sts EXCEPT !.ownerRv = label,
                                     !.replicas = instance.spec.replicas,
                                     !.template = TemplateOf(instance.spec)]
  <2>1. /\ pc' = "upgrade" /\ foundSts' = sts'
        /\ sts' = IF written = sts THEN sts ELSE [written EXCEPT !.rv = @ + 1]
    BY <1>4 DEF WriteStatefulSet, Continue
  <2>2. /\ written.rv = sts.rv /\ written.replicas = instance.spec.replicas
        /\ written \in StsResource
    <3>1. /\ instance \in ClusterResource /\ instance.rv \in Nat
          /\ found.ownerRv \in Nat
      BY DEF TypeOK, StsResource, ClusterResource
    <3>2. /\ instance.spec.replicas \in Size
          /\ TemplateOf(instance.spec) \in Template
      BY <3>1, WriteTypes DEF ClusterResource, ClusterSpec
    <3>. QED
      BY <1>2, <3>1, <3>2 DEF StsResource
  <2>. HIDE DEF written
  <2>3. /\ sts' = sts \/ sts'.rv = sts.rv + 1
        /\ sts'.replicas = instance.spec.replicas
    <3>1. CASE written = sts
      BY <2>1, <2>2, <3>1
    <3>2. CASE written # sts
      BY <2>1, <2>2, <3>2 DEF StsResource
    <3>. QED
      BY <3>1, <3>2
  <2>4. found.replicas = sts.replicas
    BY <1>4 DEF SizeInv, SizesAgree
  <2>5. SizesAgree'
    <3>1. CASE sts' = sts
      <4>1. foundSts' = sts /\ UNCHANGED <<sts, stsCache, behind>>
        BY <2>1, <3>1
      <4>. QED
        BY <4>1 DEF SizeInv, SizesAgree
    <3>2. CASE sts'.rv = sts.rv + 1
      <4>1. stsCache.rv # sts'.rv /\ behind.sts.rv # sts'.rv
        BY <1>1, <1>2, <3>2
      <4>2. foundSts' = sts' /\ UNCHANGED <<stsCache, behind>>
        BY <2>1
      <4>. QED
        BY <4>1, <4>2 DEF SizesAgree
    <3>. QED
      BY <2>3, <3>1, <3>2
  <2>. QED
    BY <2>1, <2>3, <2>4, <2>5 DEF SizeInv, Announced
<1>. QED
  BY <1>3, <1>4

(* The StatefulSet keeps its size, and the pass forgets, goes on or waits. *)
LEMMA SizeStays ==
  ASSUME TypeOK, FollowerInv, SizeInv,
         \/ sts' = sts
         \/ sts'.rv = sts.rv + 1 /\ sts'.replicas = sts.replicas,
         stsCache' \in {stsCache, sts, behind.sts},
         behind'.sts \in {behind.sts, sts},
         \/ foundSts' = NoSts /\ pc' # "updateSts"
         \/ UNCHANGED <<foundSts, pc, instance, znode>>
  PROVE  SizeInv'
<1>1. /\ \A s \in {stsCache, behind.sts, foundSts} :
           s.rv \in Nat /\ s.rv <= sts.rv
      /\ sts.rv \in Nat
      /\ NoSts.rv = 0 /\ (sts.rv = 0 => sts = NoSts)
  BY CopiesType DEF FollowerInv, LabelVouches, CopiesAgree, StsCopies, Exists, NoSts
<1>. QED
  BY <1>1 DEF SizeInv, SizesAgree, Announced

(* Every step keeps the sizes in step, and changes the size of the         *)
(* StatefulSet only to the one in ZooKeeper.                               *)
SizeStep == Exists(sts) /\ sts'.replicas # sts.replicas
              => znode.size = sts'.replicas

LEMMA StepSizeInv ==
  ASSUME ~ LostWrites, TypeOK, FollowerInv, SizeInv, [Next]_vars
  PROVE  SizeInv' /\ SizeStep
<1>. USE DEF apiVars, cacheVars, operatorVars, Unaffected
<1>1. CASE CreateStatefulSet
  <2>1. CASE Exists(sts)
    BY <1>1, <2>1, SizeStays DEF CreateStatefulSet, EndPass, SizeStep
  <2>2. CASE ~ Exists(sts)
    <3>1. \A s \in {stsCache, behind.sts} : s.rv \in Nat /\ s.rv <= sts.rv
      BY CopiesType DEF FollowerInv, CopiesAgree, StsCopies
    <3>2. sts.rv = 0 /\ NoSts.rv = 0
      BY <2>2 DEF TypeOK, StsResource, Exists, NoSts
    <3>3. sts'.rv = 1 /\ foundSts' = NoSts /\ pc' = "status"
      BY <1>1, <2>2 DEF CreateStatefulSet, Continue
    <3>4. UNCHANGED <<stsCache, behind>>
      BY <1>1 DEF CreateStatefulSet
    <3>. QED
      BY <2>2, <3>1, <3>2, <3>3, <3>4
      DEF SizeInv, SizesAgree, Announced, SizeStep
  <2>. QED
    BY <2>1, <2>2
<1>2. CASE UpdateClusterSize
  <2>1. /\ znode'.size = instance.spec.replicas
        /\ pc' = "updateSts" /\ instance' = instance /\ foundSts' = stsCache
        /\ UNCHANGED <<sts, stsCache, behind>>
    BY <1>2 DEF UpdateClusterSize, Continue, TypeOK
  <2>. QED
    BY <2>1 DEF SizeInv, SizesAgree, Announced, SizeStep
<1>3. CASE UpdateSameSize
  BY <1>3, WriteStatefulSetSize DEF UpdateSameSize, SizeStep
<1>4. CASE UpdateNewSize
  BY <1>4, WriteStatefulSetSize DEF UpdateNewSize, SizeInv, Announced, SizeStep
<1>5. ASSUME sts' = sts,
             \/ foundSts' = NoSts /\ pc' # "updateSts"
             \/ UNCHANGED <<foundSts, pc, instance, znode>>,
             \/ UNCHANGED <<stsCache, behind>>
             \/ stsCache' \in {sts, behind.sts} /\ behind' = behind
             \/ stsCache' = stsCache /\ behind'.sts = sts
      PROVE  SizeInv' /\ SizeStep
  BY <1>5, SizeStays DEF SizeStep
<1>6. CASE \/ RecoverFailedUpgrade \/ StayFailed \/ RefuseStaleness
           \/ MetadataMissing
  BY <1>5, <1>6
  DEF RecoverFailedUpgrade, StayFailed, RefuseStaleness, MetadataMissing,
      ClearUpgradeStatus, Continue, EndPass
<1>7. CASE \/ InitUpgrading \/ StartUpgrade \/ NoUpgrade \/ CompleteUpgrade
           \/ ReportProgress \/ FailUpgrade \/ AwaitProgress
  <2>1. foundSts' = NoSts /\ pc' # "updateSts"
    BY <1>7, Zenon
    DEF InitUpgrading, StartUpgrade, NoUpgrade, CompleteUpgrade,
        ReportProgress, FailUpgrade, AwaitProgress, ClearUpgradeStatus,
        StatusUpdate, Continue, EndPass
  <2>2. UNCHANGED <<sts, stsCache, behind>>
    BY <1>7, Zenon
    DEF InitUpgrading, StartUpgrade, NoUpgrade, CompleteUpgrade,
        ReportProgress, FailUpgrade, AwaitProgress
  <2>. QED
    BY <1>5, <2>1, <2>2
<1>8. CASE \/ SkipClusterStatus \/ CreateParentNode \/ CreateNode
           \/ WriteClusterStatus \/ ClusterStatusConflict
  BY <1>5, <1>8
  DEF SkipClusterStatus, CreateParentNode, CreateNode, WriteClusterStatus,
      ClusterStatusConflict, Continue, EndPass
<1>9. CASE BeginPass \/ RollingRestart \/ CallFails
  BY <1>5, <1>9 DEF BeginPass, RollingRestart, CallFails, Continue, EndPass
<1>10. CASE SyncCrCache \/ SyncStsCache \/ CatchUp \/ Tick \/ User
  <2>1. /\ sts' = sts
        /\ UNCHANGED <<foundSts, pc, instance, znode>>
        /\ stsCache' \in {stsCache, sts}
        /\ behind'.sts \in {behind.sts, sts}
    <3>1. CASE User
      BY <3>1 DEF User, EditReplicas, EditTag, RequestRestart, EditSpec
    <3>2. CASE CatchUp
      BY <3>2 DEF CatchUp
    <3>. QED
      BY <1>10, <3>1, <3>2 DEF SyncCrCache, SyncStsCache, Tick
  <2>. QED
    BY <2>1, SizeStays DEF SizeStep
<1>11. CASE StatefulSetController \/ PodBecomesReady \/ PodFails
  <2>1. PICK ps, current, update : SetPods(ps, current, update)
    BY <1>11
    DEF StatefulSetController, ObserveTemplate, PodCreated, PodDeleted,
        PodReplaced, RolloutCompletes, PodBecomesReady, PodFails
  <2>2. \/ sts' = sts
        \/ sts'.rv = sts.rv + 1 /\ sts'.replicas = sts.replicas
    BY <2>1 DEF SetPods, TypeOK, StsResource
  <2>. QED
    BY <2>1, <2>2, SizeStays DEF SetPods, SizeStep
<1>12. CASE UNCHANGED vars
  BY <1>5, <1>12 DEF vars
<1>13. CASE Crash
  <2>1. /\ sts' = sts /\ behind' = behind /\ stsCache' \in {sts, behind.sts}
        /\ foundSts' = NoSts /\ pc' # "updateSts"
    BY <1>13 DEF Crash, EndPass
  <2>. QED
    BY <1>5, <2>1
<1>. QED
  BY <1>1, <1>2, <1>3, <1>4, <1>6, <1>7, <1>8, <1>9, <1>10, <1>11, <1>12,
     <1>13
  DEF Next, Pass

(* ZooKeeper knows a size before the StatefulSet has it, whatever the      *)
(* caches serve, wherever the operator crashes and whichever calls fail,   *)
(* the one write whose error is dropped excepted (updateStatefulSet runs   *)
(* after UpdateNode, controller:268).                                      *)
THEOREM SizesAreAnnounced ==
  ASSUME ~ LostWrites
  PROVE  Spec => SizeAnnouncedFirst
<1>1. Init => SizeInv
  BY DEF Init, SizeInv, SizesAgree, Announced
<1>2. TypeOK /\ FollowerInv /\ SizeInv /\ [Next]_vars => SizeInv'
  BY StepSizeInv
<1>3. TypeOK /\ FollowerInv /\ SizeInv /\ [Next]_vars
        => [Exists(sts) /\ sts'.replicas # sts.replicas
              => znode.size = sts'.replicas]_vars
  BY StepSizeInv DEF SizeStep
<1>. QED
  BY <1>1, <1>2, <1>3, TypeCorrect, FollowerInvariant, PTL
  DEF Spec, SizeAnnouncedFirst
=============================================================================
