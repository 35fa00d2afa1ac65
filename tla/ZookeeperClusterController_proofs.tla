----------------- MODULE ZookeeperClusterController_proofs -----------------
(***************************************************************************)
(* Proofs about the controller, for any tags, sizes, deadline and bounds:  *)
(* type correctness; the invariant that relates the cached and local       *)
(* copies of the ZookeeperCluster and of its StatefulSet to the originals; *)
(* and, from it, that the label owner-rv never vouches for a spec the      *)
(* StatefulSet does not have, that no stale pass rolls the StatefulSet     *)
(* back, and that the operator implements SpecFollower.                    *)
(***************************************************************************)
EXTENDS ZookeeperClusterController, TLAPS, FiniteSetTheorems, SequenceTheorems

-----------------------------------------------------------------------------
(* The operations of api/v1beta1/status.go on a status return a status.    *)

(* The status a ZookeeperCluster is created with is a status.              *)
LEMMA EmptyStatusType == EmptyStatus \in ClusterStatusType
  BY DEF EmptyStatus, ClusterStatusType, Version, Absent, Condition, Never,
         NoMessage

(* setClusterCondition returns a status, whether it appends the condition, *)
(* changes it or leaves it.                                                *)
LEMMA SetConditionType ==
  ASSUME NEW zs \in ClusterStatusType,
         NEW type \in ConditionType,
         NEW status \in {"True", "False"},
         NEW reason \in {"", "Updating Zookeeper", "UpgradeFailed"},
         NEW message \in Nat \cup {NoMessage},
         NEW time \in Nat
  PROVE  SetCondition(zs, type, status, reason, message, time)
           \in ClusterStatusType
<1> DEFINE old  == zs.conditions[type]
           same == /\ old.status = status
                   /\ old.reason = reason
                   /\ old.message = message
           stamp == IF old.status = "Absent" THEN Never
                    ELSE IF same THEN old.lastUpdate ELSE time
           new == [status |-> status, reason |-> reason, message |-> message,
                   lastUpdate |-> stamp]
<1>1. old \in Condition
  BY DEF ClusterStatusType
<1>2. stamp \in Nat
  BY <1>1 DEF Condition, Never
<1>3. new \in Condition
  BY <1>2 DEF Condition
<1>4. [zs EXCEPT !.conditions[type] = new] \in ClusterStatusType
  BY <1>3 DEF ClusterStatusType
<1>5. QED
  BY <1>4 DEF SetCondition

(* Each of the setters of status.go returns a status.                      *)
LEMMA SettersType ==
  ASSUME NEW zs \in ClusterStatusType, NEW time \in Nat
  PROVE  /\ SetPodsReady(zs, "True", time) \in ClusterStatusType
         /\ SetPodsReady(zs, "False", time) \in ClusterStatusType
         /\ SetUpgradingTrue(zs, "", NoMessage, time) \in ClusterStatusType
         /\ SetUpgradingFalse(zs, time) \in ClusterStatusType
         /\ SetErrorTrue(zs, time) \in ClusterStatusType
         /\ SetErrorFalse(zs, time) \in ClusterStatusType
         /\ InitConditions(zs) \in ClusterStatusType
<1>1. InitConditions(zs) \in ClusterStatusType
  BY DEF InitConditions, ClusterStatusType, Condition, Absent, NoMessage, Never
<1>2. QED
  BY <1>1, SetConditionType
  DEF ConditionType, SetPodsReady, SetUpgradingTrue, SetUpgradingFalse,
      SetErrorTrue, SetErrorFalse

(* UpdateProgress returns a status.                                        *)
LEMMA UpdateProgressType ==
  ASSUME NEW zs \in ClusterStatusType, NEW updated \in Nat, NEW time \in Nat
  PROVE  UpdateProgress(zs, updated, time) \in ClusterStatusType
  BY SetConditionType DEF UpdateProgress, SetUpgradingTrue, ConditionType

-----------------------------------------------------------------------------
(* What the StatefulSet controller writes is well typed.                   *)

(* The status the StatefulSet controller counts from the pods has its type.*)
LEMMA StatusOfType ==
  ASSUME NEW ps \in Seq(Pod), NEW current \in Revision, NEW update \in Revision
  PROVE  StatusOf(ps, current, update) \in StsStatus
<1>1. /\ Len(ps) \in Nat
      /\ DOMAIN ps = 1 .. Len(ps)
  OBVIOUS
<1>2. IsFiniteSet(DOMAIN ps)
  BY <1>1, FS_Interval
<1>3. ASSUME NEW S \in SUBSET DOMAIN ps
      PROVE  Cardinality(S) \in Nat
  BY <1>2, <1>3, FS_Subset, FS_CardinalityType
<1>4. /\ Cardinality({i \in DOMAIN ps : ps[i].ready}) \in Nat
      /\ Cardinality({i \in DOMAIN ps : ps[i].revision = update}) \in Nat
  BY <1>3
<1>5. QED
  BY <1>1, <1>4 DEF StatusOf, StsStatus

(* Creating, deleting, replacing or changing a pod leaves pods.            *)
LEMMA PodsType ==
  ASSUME NEW ps \in Seq(Pod), NEW update \in Revision
  PROVE  /\ CreatePod(ps, update) \in Seq(Pod)
         /\ ps # <<>> => DeletePod(ps) \in Seq(Pod)
         /\ \A i \in DOMAIN ps, p \in Pod : [ps EXCEPT ![i] = p] \in Seq(Pod)
         /\ RollPod(ps, update) \in Seq(Pod)
<1>1. [revision |-> update, ready |-> FALSE] \in Pod
  BY DEF Pod
<1>2. CreatePod(ps, update) \in Seq(Pod)
  BY <1>1 DEF CreatePod
<1>3. ps # <<>> => DeletePod(ps) \in Seq(Pod)
  BY DEF DeletePod
<1>4. ASSUME NEW i, NEW p \in Pod
      PROVE  [ps EXCEPT ![i] = p] \in Seq(Pod)
  <2>1. ps \in [1 .. Len(ps) -> Pod] /\ Len(ps) \in Nat
    OBVIOUS
  <2>2. [ps EXCEPT ![i] = p] \in [1 .. Len(ps) -> Pod]
    BY <1>4, <2>1, Zenon
  <2>3. QED
    BY <2>1, <2>2, SeqDef
<1>5. RollPod(ps, update) \in Seq(Pod)
  BY <1>1, <1>4 DEF RollPod
<1>6. QED
  BY <1>2, <1>3, <1>4, <1>5

-----------------------------------------------------------------------------
(* Type correctness.                                                       *)

(* The objects of the initial state.                                       *)
LEMMA InitialObjects ==
  /\ InitialSpec \in ClusterSpec
  /\ InitialCr \in ClusterResource
  /\ NoSts \in StsResource
<1>1. InitialSpec \in ClusterSpec
  BY SizeAssumption, TagsAssumption DEF InitialSpec, ClusterSpec
<1>2. InitialCr \in ClusterResource
  BY <1>1, EmptyStatusType DEF InitialCr, ClusterResource
<1>3. TemplateOf(InitialSpec) \in Template
  BY TagsAssumption DEF TemplateOf, InitialSpec, Template
<1>4. <<>> \in Seq(Pod) /\ NoRevision \in Revision
  BY DEF Revision
<1>5. StatusOf(<<>>, NoRevision, NoRevision) \in StsStatus
  BY <1>4, StatusOfType
<1>6. NoSts \in StsResource
  BY <1>3, <1>5, SizeAssumption DEF NoSts, StsResource
<1>7. QED
  BY <1>1, <1>2, <1>6

(* The initial state is well typed.                                       *)
LEMMA InitTypeOK == Init => TypeOK
<1>1. SUFFICES ASSUME Init PROVE TypeOK
  OBVIOUS
<1>2. DOMAIN Bounds = DOMAIN used /\ used \in [DOMAIN Bounds -> Nat]
  BY <1>1 DEF Init, Bounds
<1>3. pods \in Seq(Pod)
  BY <1>1 DEF Init
<1>4. QED
  BY <1>1, <1>2, <1>3, InitialObjects DEF Init, TypeOK, NoSize

(* The end of a pass leaves the local variables well typed.                *)
LEMMA EndPassType ==
  EndPass => /\ pc' = "idle"
             /\ instance' = InitialCr /\ instance' \in ClusterResource
             /\ foundSts' = NoSts /\ foundSts' \in StsResource
  BY InitialObjects DEF EndPass

(* A spec asks for a template; a status update leaves a ZookeeperCluster.  *)
LEMMA WriteTypes ==
  ASSUME NEW c \in ClusterResource
  PROVE  /\ TemplateOf(c.spec) \in Template
         /\ \A zs \in ClusterStatusType :
              /\ [c EXCEPT !.status = zs] \in ClusterResource
              /\ [c EXCEPT !.rv = @ + 1, !.status = zs] \in ClusterResource
<1>1. TemplateOf(c.spec) \in Template
  BY DEF ClusterResource, ClusterSpec, TemplateOf, Template
<1>2. c.rv + 1 \in Nat \ {0}
  BY DEF ClusterResource
<1>3. ASSUME NEW zs \in ClusterStatusType
      PROVE  /\ [c EXCEPT !.status = zs] \in ClusterResource
             /\ [c EXCEPT !.rv = @ + 1, !.status = zs] \in ClusterResource
  BY <1>2 DEF ClusterResource
<1>4. QED
  BY <1>1, <1>3

(* A status update leaves the CR and the local copies well typed, whether *)
(* it is accepted or refused.                                             *)
LEMMA StatusUpdateType ==
  ASSUME TypeOK, NEW zs \in ClusterStatusType,
         NEW next \in {"status"}, StatusUpdate(zs, next)
  PROVE  /\ cr' \in ClusterResource
         /\ instance' \in ClusterResource
         /\ foundSts' \in StsResource
         /\ pc' \in {"idle", "status"}
<1>1. cr \in ClusterResource
  BY DEF TypeOK
<1>2. CASE instance.rv = cr.rv
  <2>1. cr' \in ClusterResource
    BY <1>1, <1>2, WriteTypes DEF StatusUpdate
  <2>2. QED
    BY <1>2, <2>1, InitialObjects DEF StatusUpdate, Continue
<1>3. CASE instance.rv # cr.rv
  BY <1>1, <1>3, EndPassType DEF StatusUpdate
<1>4. QED
  BY <1>2, <1>3

(* clearUpgradeStatus leaves the local copies well typed.                 *)
LEMMA ClearUpgradeStatusType ==
  ASSUME TypeOK, NEW zs \in ClusterStatusType, ClearUpgradeStatus(zs)
  PROVE  /\ instance' \in ClusterResource
         /\ foundSts' \in StsResource
         /\ pc' \in {"idle", "status"}
<1> DEFINE cleared == [SetUpgradingFalse(zs, now) EXCEPT !.targetVersion = NoTag]
<1>1. SetUpgradingFalse(zs, now) \in ClusterStatusType
  BY SettersType DEF TypeOK
<1>2. cleared \in ClusterStatusType
  BY <1>1 DEF ClusterStatusType, Version
<1>3. QED
  BY <1>2, EndPassType, WriteTypes, InitialObjects
  DEF ClearUpgradeStatus, Continue, TypeOK

(* updateStatefulSet leaves the StatefulSet and the local copies well     *)
(* typed, whether it is accepted or refused.                              *)
LEMMA WriteStatefulSetType ==
  ASSUME TypeOK, NEW found \in StsResource, WriteStatefulSet(found)
  PROVE  /\ sts' \in StsResource
         /\ instance' \in ClusterResource
         /\ foundSts' \in StsResource
         /\ pc' \in {"idle", "upgrade"}
<1>1. /\ instance \in ClusterResource
      /\ sts \in StsResource
      /\ TemplateOf(instance.spec) \in Template
  BY WriteTypes DEF TypeOK
<1>2. sts.status.replicas \in Nat /\ sts.status.readyReplicas \in Nat
  BY <1>1 DEF StsResource, StsStatus
<1>3. [instance EXCEPT !.status.replicas = sts.status.replicas,
                       !.status.readyReplicas = sts.status.readyReplicas]
        \in ClusterResource
  BY <1>1, <1>2 DEF ClusterResource, ClusterStatusType
<1>4. CASE found.rv = sts.rv
  <2> DEFINE written ==
        [sts EXCEPT !.ownerRv = IF instance.rv > found.ownerRv
                                THEN instance.rv ELSE found.ownerRv,
                    !.replicas = instance.spec.replicas,
                    !.template = TemplateOf(instance.spec)]
  <2>1. written \in StsResource /\ [written EXCEPT !.rv = @ + 1] \in StsResource
    <3>1. /\ instance.rv \in Nat
          /\ instance.spec.replicas \in Size
          /\ found.ownerRv \in Nat
      BY <1>1 DEF StsResource, ClusterResource, ClusterSpec
    <3>2. written \in StsResource
      BY <1>1, <3>1 DEF StsResource
    <3> HIDE DEF written
    <3>3. written.rv + 1 \in Nat
      BY <3>2 DEF StsResource
    <3>4. [written EXCEPT !.rv = written.rv + 1] \in StsResource
      BY <3>2, <3>3 DEF StsResource
    <3>5. QED
      BY <3>2, <3>4
  <2>2. QED
    BY <1>1, <1>3, <1>4, <2>1 DEF WriteStatefulSet, Continue
<1>5. CASE found.rv # sts.rv
  BY <1>1, <1>5, EndPassType DEF WriteStatefulSet
<1>6. QED
  BY <1>4, <1>5

(* What the StatefulSet controller does to the pods leaves them and the   *)
(* StatefulSet well typed.                                                *)
LEMMA SetPodsType ==
  ASSUME TypeOK, NEW ps \in Seq(Pod),
         NEW current \in Revision, NEW update \in Revision,
         SetPods(ps, current, update)
  PROVE  /\ pods' \in Seq(Pod)
         /\ sts' \in StsResource
         /\ progressAt' \in Nat
<1>1. StatusOf(ps, current, update) \in StsStatus
  BY StatusOfType
<1>0. sts \in StsResource /\ sts.rv + 1 \in Nat
  BY DEF TypeOK, StsResource
<1>2. [sts EXCEPT !.rv = @ + 1, !.status = StatusOf(ps, current, update)]
        \in StsResource
  BY <1>0, <1>1 DEF StsResource
<1>3. QED
  BY <1>2 DEF SetPods, TypeOK

(* Using up a bound leaves the counters well typed.                       *)
LEMMA UseType == TypeOK => \A b : Use(b) => used' \in [DOMAIN Bounds -> Nat]
<1>1. SUFFICES ASSUME TypeOK, NEW b, Use(b)
               PROVE  used' \in [DOMAIN Bounds -> Nat]
  OBVIOUS
<1>2. used \in [DOMAIN Bounds -> Nat]
  BY <1>1 DEF TypeOK
<1>3. CASE b \in DOMAIN Bounds
  BY <1>1, <1>2, <1>3 DEF Use
<1>4. CASE b \notin DOMAIN Bounds
  <2>1. [used EXCEPT ![b] = @ + 1] = used
    BY <1>2, <1>4
  <2>2. QED
    BY <1>1, <1>2, <2>1 DEF Use
<1>5. QED
  BY <1>3, <1>4

(* The steps of reconcileStatefulSet preserve the types.                   *)
LEMMA ReconcileStatefulSetType ==
  TypeOK /\ (\/ RecoverFailedUpgrade \/ StayFailed \/ CreateStatefulSet
             \/ RefuseStaleness \/ MetadataMissing \/ UpdateClusterSize
             \/ UpdateSameSize \/ UpdateNewSize)
    => TypeOK'
<1> SUFFICES ASSUME TypeOK,
                    \/ RecoverFailedUpgrade \/ StayFailed \/ CreateStatefulSet
                    \/ RefuseStaleness \/ MetadataMissing \/ UpdateClusterSize
                    \/ UpdateSameSize \/ UpdateNewSize
             PROVE  TypeOK'
  OBVIOUS
<1> USE DEF apiVars, cacheVars
<1>0. /\ instance \in ClusterResource /\ instance.status \in ClusterStatusType
      /\ instance.spec.replicas \in Size /\ instance.rv \in Nat
      /\ now \in Nat
  BY DEF TypeOK, ClusterResource, ClusterSpec
<1>1. CASE RecoverFailedUpgrade
  <2> DEFINE zs == [SetErrorFalse(instance.status, now)
                      EXCEPT !.currentVersion = instance.status.targetVersion]
  <2>1. SetErrorFalse(instance.status, now) \in ClusterStatusType
    BY <1>0, SettersType
  <2>2. zs \in ClusterStatusType
    BY <1>0, <2>1 DEF ClusterStatusType
  <2>3. ClearUpgradeStatus(zs)
    BY <1>1 DEF RecoverFailedUpgrade
  <2>4. /\ instance' \in ClusterResource /\ foundSts' \in StsResource
        /\ pc' \in {"idle", "status"}
    BY <2>2, <2>3, ClearUpgradeStatusType
  <2>5. QED
    BY <1>1, <2>4 DEF RecoverFailedUpgrade, TypeOK
<1>2. CASE StayFailed
  BY <1>2, EndPassType DEF StayFailed, TypeOK
<1>3. CASE CreateStatefulSet
  <2>1. [rv |-> 1, ownerRv |-> instance.rv, replicas |-> instance.spec.replicas,
         template |-> TemplateOf(instance.spec), status |-> NoSts.status]
          \in StsResource
    BY <1>0, WriteTypes, InitialObjects DEF StsResource
  <2>2. QED
    BY <1>3, <2>1, EndPassType, InitialObjects
    DEF CreateStatefulSet, Continue, TypeOK
<1>4. CASE RefuseStaleness
  BY <1>4, EndPassType DEF RefuseStaleness, TypeOK
<1>5. CASE MetadataMissing
  BY <1>5, EndPassType DEF MetadataMissing, TypeOK
<1>6. CASE UpdateClusterSize
  <2>1. znode' \in [parent : BOOLEAN, size : Size \cup {NoSize}]
    BY <1>0, <1>6 DEF UpdateClusterSize, TypeOK
  <2>2. used' \in [DOMAIN Bounds -> Nat]
    BY <1>6, UseType DEF UpdateClusterSize, TypeOK
  <2>3. QED
    BY <1>6, <2>1, <2>2 DEF UpdateClusterSize, Continue, TypeOK
<1>7. CASE UpdateSameSize
  <2>1. WriteStatefulSet(stsCache) /\ stsCache \in StsResource
    BY <1>7 DEF UpdateSameSize, TypeOK
  <2>2. QED
    BY <1>7, <2>1, WriteStatefulSetType DEF UpdateSameSize, TypeOK
<1>8. CASE UpdateNewSize
  <2>1. WriteStatefulSet(foundSts) /\ foundSts \in StsResource
    BY <1>8 DEF UpdateNewSize, TypeOK
  <2>2. QED
    BY <1>8, <2>1, WriteStatefulSetType DEF UpdateNewSize, TypeOK
<1>9. QED
  BY <1>1, <1>2, <1>3, <1>4, <1>5, <1>6, <1>7, <1>8

(* The steps of upgradeStatefulSet preserve the types.                     *)
LEMMA UpgradeStatefulSetType ==
  TypeOK /\ (\/ InitUpgrading \/ StartUpgrade \/ NoUpgrade \/ CompleteUpgrade
             \/ ReportProgress \/ FailUpgrade \/ AwaitProgress)
    => TypeOK'
<1> SUFFICES ASSUME TypeOK,
                    \/ InitUpgrading \/ StartUpgrade \/ NoUpgrade
                    \/ CompleteUpgrade \/ ReportProgress \/ FailUpgrade
                    \/ AwaitProgress
             PROVE  TypeOK'
  OBVIOUS
<1> USE DEF Unaffected, apiVars, cacheVars
<1>0. /\ instance \in ClusterResource /\ instance.status \in ClusterStatusType
      /\ instance.spec.tag \in Version
      /\ now \in Nat
      /\ foundSts.status.updatedReplicas \in Nat
  BY DEF TypeOK, ClusterResource, ClusterSpec, Version, StsResource, StsStatus
<1>1. ASSUME NEW zs \in ClusterStatusType, StatusUpdate(zs, "status"), Unaffected
      PROVE  TypeOK'
  BY <1>1, StatusUpdateType DEF TypeOK
<1>2. ASSUME NEW zs \in ClusterStatusType, ClearUpgradeStatus(zs), UNCHANGED cr,
             Unaffected
      PROVE  TypeOK'
  BY <1>2, ClearUpgradeStatusType DEF TypeOK
<1>3. CASE InitUpgrading
  <2>1. SetUpgradingFalse(instance.status, now) \in ClusterStatusType
    BY <1>0, SettersType
  <2>2. [instance EXCEPT !.status = SetUpgradingFalse(@, now)] \in ClusterResource
    BY <1>0, <2>1, WriteTypes
  <2>3. QED
    BY <1>3, <2>2, InitialObjects DEF InitUpgrading, Continue, TypeOK
<1>4. CASE StartUpgrade
  <2> DEFINE target == [instance.status EXCEPT !.targetVersion = instance.spec.tag]
             unready == SetPodsReady(target, "False", now)
             upgrading == SetUpgradingTrue(unready, "", NoMessage, now)
  <2>1. target \in ClusterStatusType
    BY <1>0 DEF ClusterStatusType
  <2> HIDE DEF target
  <2>2. unready \in ClusterStatusType
    BY <1>0, <2>1, SettersType
  <2> HIDE DEF unready
  <2>3. upgrading \in ClusterStatusType
    BY <1>0, <2>2, SettersType
  <2>4. StatusUpdate(upgrading, "status") /\ Unaffected
    BY <1>4 DEF StartUpgrade, target, unready
  <2>5. QED
    BY <1>1, <2>3, <2>4
<1>5. CASE NoUpgrade
  BY <1>0, <1>1, <1>5 DEF NoUpgrade
<1>6. CASE CompleteUpgrade
  <2> DEFINE zs == [instance.status EXCEPT
                      !.currentVersion = IF UnknownTarget THEN @
                                         ELSE instance.status.targetVersion]
  <2>1. zs \in ClusterStatusType
    BY <1>0 DEF ClusterStatusType
  <2>2. ClearUpgradeStatus(zs) /\ UNCHANGED cr /\ Unaffected
    BY <1>6 DEF CompleteUpgrade
  <2>3. QED
    BY <1>2, <2>1, <2>2
<1>7. CASE ReportProgress
  <2>1. UpdateProgress(instance.status, foundSts.status.updatedReplicas, now)
          \in ClusterStatusType
    BY <1>0, UpdateProgressType
  <2>2. QED
    BY <1>1, <1>7, <2>1 DEF ReportProgress
<1>8. CASE FailUpgrade
  <2>1. SetErrorTrue(instance.status, now) \in ClusterStatusType
    BY <1>0, SettersType
  <2>2. QED
    BY <1>1, <1>8, <2>1 DEF FailUpgrade
<1>9. CASE AwaitProgress
  BY <1>0, <1>9, InitialObjects DEF AwaitProgress, Continue, TypeOK
<1>10. QED
  BY <1>3, <1>4, <1>5, <1>6, <1>7, <1>8, <1>9

(* The status reported at the end of a pass is a status.                   *)
LEMMA ReportedStatusType ==
  ASSUME TypeOK
  PROVE  ReportedStatus \in ClusterStatusType
<1> DEFINE allReady == instance.status.readyReplicas = instance.spec.replicas
           zs == SetPodsReady(InitConditions(instance.status),
                              IF allReady THEN "True" ELSE "False", now)
<1>1. /\ instance.status \in ClusterStatusType
      /\ instance.spec.tag \in Version
      /\ now \in Nat
  BY DEF TypeOK, ClusterResource, ClusterSpec, Version
<1>2. InitConditions(instance.status) \in ClusterStatusType
  BY <1>1, SettersType
<1>3. zs \in ClusterStatusType
  BY <1>1, <1>2, SettersType
<1> HIDE DEF zs
<1>4. [zs EXCEPT !.currentVersion = instance.spec.tag] \in ClusterStatusType
  BY <1>1, <1>3 DEF ClusterStatusType
<1>5. QED
  BY <1>3, <1>4 DEF ReportedStatus, zs

(* The steps of reconcileClusterStatus preserve the types.                 *)
LEMMA ReconcileClusterStatusType ==
  TypeOK /\ (\/ SkipClusterStatus \/ CreateParentNode \/ CreateNode
             \/ WriteClusterStatus \/ ClusterStatusConflict)
    => TypeOK'
<1> SUFFICES ASSUME TypeOK,
                    \/ SkipClusterStatus \/ CreateParentNode \/ CreateNode
                    \/ WriteClusterStatus \/ ClusterStatusConflict
             PROVE  TypeOK'
  OBVIOUS
<1> USE DEF Unaffected, apiVars, cacheVars
<1>0. /\ instance \in ClusterResource /\ instance.status \in ClusterStatusType
      /\ instance.spec.replicas \in Size /\ instance.spec.tag \in Version
      /\ now \in Nat /\ cr \in ClusterResource
  BY DEF TypeOK, ClusterResource, ClusterSpec, Version
<1>1. CASE SkipClusterStatus
  BY <1>1, EndPassType DEF SkipClusterStatus, TypeOK
<1>2. CASE CreateParentNode
  <2>1. znode' \in [parent : BOOLEAN, size : Size \cup {NoSize}]
    BY <1>2 DEF CreateParentNode, TypeOK
  <2>2. QED
    BY <1>0, <1>2, <2>1, EndPassType, InitialObjects
    DEF CreateParentNode, Continue, TypeOK
<1>3. CASE CreateNode
  <2>1. znode' \in [parent : BOOLEAN, size : Size \cup {NoSize}]
    BY <1>0, <1>3 DEF CreateNode, TypeOK
  <2>2. [instance EXCEPT !.status.metaRootCreated = TRUE] \in ClusterResource
    BY <1>0 DEF ClusterResource, ClusterStatusType
  <2>3. QED
    BY <1>0, <1>3, <2>1, <2>2, InitialObjects DEF CreateNode, Continue, TypeOK
<1>4. CASE WriteClusterStatus
  <2>1. cr' \in ClusterResource
    BY <1>0, <1>4, ReportedStatusType, WriteTypes DEF WriteClusterStatus
  <2>2. QED
    BY <1>4, <2>1, EndPassType DEF WriteClusterStatus, TypeOK
<1>5. CASE ClusterStatusConflict
  BY <1>5, EndPassType DEF ClusterStatusConflict, TypeOK
<1>6. QED
  BY <1>1, <1>2, <1>3, <1>4, <1>5

(* The beginning and the failure of a pass, the caches, the clock and the  *)
(* user preserve the types.                                                *)
LEMMA SurroundingsType ==
  TypeOK /\ (\/ BeginPass \/ RollingRestart \/ CallFails \/ Crash
             \/ SyncCrCache \/ SyncStsCache \/ CatchUp \/ Tick \/ User)
    => TypeOK'
<1> SUFFICES ASSUME TypeOK,
                    \/ BeginPass \/ RollingRestart \/ CallFails \/ Crash
                    \/ SyncCrCache \/ SyncStsCache \/ CatchUp \/ Tick \/ User
             PROVE  TypeOK'
  OBVIOUS
<1> USE DEF apiVars, cacheVars, operatorVars
<1>0. /\ cr \in ClusterResource /\ cr.spec \in ClusterSpec
      /\ cr.rv + 1 \in Nat \ {0} /\ now \in Nat
  BY DEF TypeOK, ClusterResource
<1>1. CASE BeginPass
  BY <1>1, InitialObjects DEF BeginPass, Continue, TypeOK
<1>2. CASE RollingRestart
  <2>1. crCache.spec \in ClusterSpec
    BY DEF TypeOK, ClusterResource
  <2>2. [crCache.spec EXCEPT !.triggerRollingRestart = FALSE,
                             !.restartTime = now] \in ClusterSpec
    BY <1>0, <2>1 DEF ClusterSpec
  <2>3. cr' \in ClusterResource
    BY <1>0, <1>2, <2>2 DEF RollingRestart, ClusterResource
  <2>4. QED
    BY <1>2, <2>3 DEF RollingRestart, TypeOK
<1>3. CASE CallFails
  <2>1. used' \in [DOMAIN Bounds -> Nat]
    BY <1>3, UseType DEF CallFails
  <2>2. QED
    BY <1>3, <2>1, EndPassType DEF CallFails, TypeOK
<1>4. CASE Crash
  <2>1. used' \in [DOMAIN Bounds -> Nat]
    BY <1>4, UseType DEF Crash
  <2>2. crCache' \in ClusterResource /\ stsCache' \in StsResource
    BY <1>4 DEF Crash, TypeOK
  <2>3. QED
    BY <1>4, <2>1, <2>2, EndPassType DEF Crash, TypeOK
<1>5. CASE SyncCrCache
  BY <1>5 DEF SyncCrCache, TypeOK
<1>6. CASE SyncStsCache
  BY <1>6 DEF SyncStsCache, TypeOK
<1>7. CASE CatchUp
  BY <1>7 DEF CatchUp, TypeOK
<1>8. CASE Tick
  BY <1>8 DEF Tick, TypeOK
<1>9. ASSUME NEW spec \in ClusterSpec, NEW b, Use(b), EditSpec(spec)
      PROVE  TypeOK'
  <2>1. used' \in [DOMAIN Bounds -> Nat]
    BY <1>9, UseType
  <2>2. cr' \in ClusterResource
    BY <1>0, <1>9 DEF EditSpec, ClusterResource
  <2>3. QED
    BY <1>9, <2>1, <2>2 DEF EditSpec, TypeOK
<1>10. CASE EditReplicas
  <2>1. PICK n \in Size : /\ Use("sizeEdits")
                          /\ EditSpec([cr.spec EXCEPT !.replicas = n])
    BY <1>10 DEF EditReplicas
  <2>2. [cr.spec EXCEPT !.replicas = n] \in ClusterSpec
    BY <1>0 DEF ClusterSpec
  <2>3. QED
    BY <1>9, <2>1, <2>2
<1>11. CASE EditTag
  <2>1. PICK t \in Tag : /\ Use("tagEdits")
                         /\ EditSpec([cr.spec EXCEPT !.tag = t])
    BY <1>11 DEF EditTag
  <2>2. [cr.spec EXCEPT !.tag = t] \in ClusterSpec
    BY <1>0 DEF ClusterSpec
  <2>3. QED
    BY <1>9, <2>1, <2>2
<1>12. CASE RequestRestart
  <2>1. [cr.spec EXCEPT !.triggerRollingRestart = TRUE] \in ClusterSpec
    BY <1>0 DEF ClusterSpec
  <2>2. QED
    BY <1>9, <1>12, <2>1 DEF RequestRestart
<1>13. QED
  BY <1>1, <1>2, <1>3, <1>4, <1>5, <1>6, <1>7, <1>8, <1>10, <1>11, <1>12 DEF User

(* Kubernetes preserves the types.                                         *)
LEMMA KubernetesType ==
  TypeOK /\ (StatefulSetController \/ PodBecomesReady \/ PodFails) => TypeOK'
<1> SUFFICES ASSUME TypeOK,
                    StatefulSetController \/ PodBecomesReady \/ PodFails
             PROVE  TypeOK'
  OBVIOUS
<1> USE DEF cacheVars, operatorVars
<1>0. /\ pods \in Seq(Pod)
      /\ UpdateRevision \in Revision /\ CurrentRevision \in Revision
      /\ sts.template \in Revision
      /\ sts.replicas \in Nat
  BY SizeAssumption
  DEF TypeOK, StsResource, StsStatus, Revision, UpdateRevision, CurrentRevision
<1>1. ASSUME NEW ps \in Seq(Pod), NEW current \in Revision,
             NEW update \in Revision, SetPods(ps, current, update),
             used' \in [DOMAIN Bounds -> Nat]
      PROVE  TypeOK'
  BY <1>1, SetPodsType DEF SetPods, TypeOK
<1>2. UNCHANGED used => used' \in [DOMAIN Bounds -> Nat]
  BY DEF TypeOK
<1>3. CASE ObserveTemplate
  BY <1>0, <1>1, <1>2, <1>3 DEF ObserveTemplate
<1>4. CASE PodCreated
  BY <1>0, <1>1, <1>2, <1>4, PodsType DEF PodCreated
<1>5. CASE PodDeleted
  <2>1. pods # <<>>
    BY <1>0, <1>5 DEF PodDeleted, CanDeletePod
  <2>2. QED
    BY <1>0, <1>1, <1>2, <1>5, <2>1, PodsType DEF PodDeleted
<1>6. CASE PodReplaced
  BY <1>0, <1>1, <1>2, <1>6, PodsType DEF PodReplaced
<1>7. CASE RolloutCompletes
  BY <1>0, <1>1, <1>2, <1>7 DEF RolloutCompletes
<1>8. CASE PodBecomesReady
  <2>1. PICK i \in DOMAIN pods :
          /\ SetPods([pods EXCEPT ![i].ready = TRUE], CurrentRevision,
                     UpdateRevision)
          /\ UNCHANGED used
    BY <1>8 DEF PodBecomesReady
  <2>2. [pods[i] EXCEPT !.ready = TRUE] \in Pod
    <3>1. pods[i] \in Pod
      BY <1>0
    <3>2. QED
      BY <3>1 DEF Pod
  <2>3. [pods EXCEPT ![i].ready = TRUE] \in Seq(Pod)
    BY <1>0, <2>2, PodsType
  <2>4. QED
    BY <1>0, <1>1, <1>2, <2>1, <2>3
<1>9. CASE PodFails
  <2>1. PICK i \in DOMAIN pods, r \in {UpdateRevision, NoRevision} :
          /\ Use("podFailures")
          /\ SetPods([pods EXCEPT
                        ![i] = [revision |-> IF r = NoRevision
                                             THEN pods[i].revision ELSE r,
                                ready |-> FALSE]],
                     CurrentRevision, UpdateRevision)
    BY <1>9 DEF PodFails
  <2>2. pods[i].revision \in Revision
    <3>1. pods[i] \in Pod
      BY <1>0
    <3>2. QED
      BY <3>1 DEF Pod
  <2>3. [revision |-> IF r = NoRevision THEN pods[i].revision ELSE r,
         ready |-> FALSE] \in Pod
    BY <1>0, <2>2 DEF Pod
  <2>4. [pods EXCEPT ![i] = [revision |-> IF r = NoRevision
                                          THEN pods[i].revision ELSE r,
                             ready |-> FALSE]] \in Seq(Pod)
    BY <1>0, <2>3, PodsType
  <2>5. used' \in [DOMAIN Bounds -> Nat]
    BY <2>1, UseType
  <2>6. QED
    BY <1>0, <1>1, <2>1, <2>4, <2>5
<1>10. QED
  BY <1>3, <1>4, <1>5, <1>6, <1>7, <1>8, <1>9 DEF StatefulSetController

(* Every step preserves the types.                                         *)
LEMMA NextTypeOK == TypeOK /\ [Next]_vars => TypeOK'
<1>1. CASE UNCHANGED vars
  BY <1>1 DEF vars, TypeOK
<1>2. QED
  BY <1>1, ReconcileStatefulSetType, UpgradeStatefulSetType,
     ReconcileClusterStatusType, SurroundingsType, KubernetesType
  DEF Next, Pass

(* The variables always have their types, whatever the tags, the sizes,    *)
(* the deadline and the bounds.                                            *)
THEOREM TypeCorrect == Spec => []TypeOK
  BY InitTypeOK, NextTypeOK, PTL DEF Spec

-----------------------------------------------------------------------------
(* The copies of the objects.  Each lemma below takes one way in which a   *)
(* step of the system moves versions and shows that FollowerInv survives   *)
(* it and that the step is one of the follower of SpecFollower, or none.   *)

FollowerStep == [Follower!Next]_(Follower!vars)

InScope == pc = "updateSts" => Exists(foundSts) /\ ~ IsStale(instance, foundSts)

(* Every copy of an object has the type of the object.                    *)
LEMMA CopiesType ==
  ASSUME TypeOK
  PROVE  /\ \A c \in CrCopies : c.rv \in Nat /\ c.rv > 0
         /\ \A s \in StsCopies : s.rv \in Nat /\ s.ownerRv \in Nat
         /\ cr.specRv \in Nat
<1>1. \A c \in CrCopies : c \in ClusterResource
  BY InitialObjects DEF TypeOK, CrCopies
<1>2. \A s \in StsCopies : s \in StsResource
  BY InitialObjects DEF TypeOK, StsCopies
<1>3. cr \in ClusterResource
  BY DEF TypeOK
<1>4. QED
  BY <1>1, <1>2, <1>3 DEF ClusterResource, StsResource

(* In the initial state all copies are the originals.                     *)
LEMMA InitFollowerInv == Init => FollowerInv
<1>1. SUFFICES ASSUME Init PROVE FollowerInv
  OBVIOUS
<1>2. /\ \A c \in CrCopies : c = InitialCr
      /\ \A s \in StsCopies : s = NoSts
      /\ cr = InitialCr /\ sts = NoSts /\ pods = <<>> /\ pc = "idle"
  BY <1>1 DEF Init, CrCopies, StsCopies
<1>3. /\ InitialCr.rv = 1 /\ InitialCr.specRv = 1
      /\ NoSts.rv = 0 /\ NoSts.ownerRv = 0
  BY DEF InitialCr, NoSts
<1>4. QED
  BY <1>2, <1>3
  DEF FollowerInv, CopiesAgree, LabelVouches, LatestSpecApplied, Exists

(* The objects stay; copies are made of copies.                            *)
LEMMA CopyingStep ==
  ASSUME TypeOK, FollowerInv,
         UNCHANGED <<cr, sts, pods>>,
         crCache' \in CrCopies,
         behind'.cr \in CrCopies,
         \E c \in CrCopies : instance'.rv = c.rv /\ instance'.spec = c.spec,
         stsCache' \in StsCopies,
         behind'.sts \in StsCopies,
         foundSts' \in StsCopies,
         InScope'
  PROVE  FollowerInv' /\ FollowerStep
<1>1. \A c \in CrCopies' : \E d \in CrCopies : c.rv = d.rv /\ c.spec = d.spec
  BY DEF CrCopies
<1>2. \A s \in StsCopies' : \E t \in StsCopies : s.rv = t.rv /\ s.ownerRv = t.ownerRv
  BY DEF StsCopies
<1>3. CopiesAgree'
  BY <1>1, <1>2 DEF FollowerInv, CopiesAgree
<1>4. LabelVouches'
  BY <1>1 DEF FollowerInv, LabelVouches, InScope, Exists, AppliedTo, IsStale
<1>5. LatestSpecApplied'
  BY DEF FollowerInv, LatestSpecApplied, Exists, AppliedTo
<1>6. FollowerStep
  BY DEF FollowerStep, Follower!vars
<1>7. QED
  BY <1>3, <1>4, <1>5, <1>6 DEF FollowerInv

(* A new version of the CR with the same spec: a status update.            *)
LEMMA StatusStep ==
  ASSUME TypeOK, FollowerInv,
         cr'.rv = cr.rv + 1, cr'.specRv = cr.specRv, cr'.spec = cr.spec,
         UNCHANGED <<sts, pods, crCache, stsCache, behind>>,
         instance' \in {cr', InitialCr},
         foundSts' = NoSts,
         pc' # "updateSts"
  PROVE  FollowerInv' /\ FollowerStep
<1>1. \A c \in CrCopies' : \/ c.rv = cr'.rv /\ c.spec = cr'.spec
                           \/ c \in CrCopies
  BY DEF CrCopies
<1>2. \A s \in StsCopies' : s \in StsCopies
  BY DEF StsCopies
<1>3. /\ \A c \in CrCopies : c.rv \in Nat
      /\ sts.ownerRv \in Nat /\ cr.specRv \in Nat
      /\ cr \in CrCopies /\ cr.rv \in Nat /\ cr'.rv = cr.rv + 1
  BY CopiesType DEF CrCopies, StsCopies
<1>4. \A c \in CrCopies : c.rv < cr'.rv
  BY <1>3 DEF FollowerInv, CopiesAgree
<1>5. CopiesAgree'
  <2>1. cr'.specRv <= cr'.rv
    BY <1>3 DEF FollowerInv, CopiesAgree
  <2>2. \A c \in CrCopies' : /\ c.rv <= cr'.rv
                             /\ c.rv >= cr'.specRv => c.spec = cr'.spec
    BY <1>1, <1>3, <1>4 DEF FollowerInv, CopiesAgree
  <2>3. \A c, d \in CrCopies' : c.rv = d.rv => c.spec = d.spec
    BY <1>1, <1>3, <1>4 DEF FollowerInv, CopiesAgree
  <2>4. QED
    BY <1>2, <2>1, <2>2, <2>3 DEF FollowerInv, CopiesAgree
<1>6. LabelVouches' /\ LatestSpecApplied'
  <2>1. sts.ownerRv < cr'.rv
    BY <1>3 DEF FollowerInv, LabelVouches
  <2>2. \A c \in CrCopies' : c.rv = sts'.ownerRv
          => \E d \in CrCopies : d.rv = sts.ownerRv /\ c.spec = d.spec
    BY <1>1, <1>3, <2>1
  <2>3. LabelVouches'
    BY <1>3, <2>1, <2>2 DEF FollowerInv, LabelVouches, Exists, AppliedTo
  <2>4. LatestSpecApplied'
    BY DEF FollowerInv, LatestSpecApplied, Exists, AppliedTo
  <2>5. QED
    BY <2>3, <2>4
<1>7. FollowerStep
  <2>1. Follower!Touch
    BY <1>3 DEF Follower!Touch
  <2>2. QED
    BY <2>1 DEF FollowerStep, Follower!Next
<1>8. QED
  BY <1>5, <1>6, <1>7 DEF FollowerInv

(* A new version of the CR with a new spec: an edit, or the reset of       *)
(* triggerRollingRestart.                                                  *)
LEMMA EditStep ==
  ASSUME TypeOK, TypeOK', FollowerInv,
         cr'.rv = cr.rv + 1, cr'.specRv = cr.rv + 1,
         UNCHANGED <<sts, pods, crCache, stsCache, behind, instance, foundSts,
                     pc>>
  PROVE  FollowerInv' /\ FollowerStep
<1>1. \A c \in CrCopies' : c = cr' \/ c \in CrCopies
  BY DEF CrCopies
<1>2. \A s \in StsCopies' : s \in StsCopies
  BY DEF StsCopies
<1>3. /\ \A c \in CrCopies : c.rv \in Nat
      /\ sts.rv \in Nat /\ sts.ownerRv \in Nat /\ foundSts.ownerRv \in Nat
      /\ cr.rv \in Nat /\ cr'.rv = cr.rv + 1
  BY CopiesType DEF CrCopies, StsCopies
<1>4. \A c \in CrCopies : c.rv < cr'.rv
  BY <1>3 DEF FollowerInv, CopiesAgree
<1>5. CopiesAgree'
  <2>1. \A c \in CrCopies' : /\ c.rv <= cr'.rv
                             /\ c.rv >= cr'.specRv => c.spec = cr'.spec
    BY <1>1, <1>3, <1>4
  <2>2. \A c, d \in CrCopies' : c.rv = d.rv => c.spec = d.spec
    BY <1>1, <1>3, <1>4 DEF FollowerInv, CopiesAgree
  <2>3. QED
    BY <1>2, <1>3, <2>1, <2>2 DEF FollowerInv, CopiesAgree
<1>6. sts.ownerRv < cr'.rv
  BY <1>3 DEF FollowerInv, LabelVouches
<1>7. LabelVouches'
  <2>1. \A c \in CrCopies' : c.rv = sts'.ownerRv => c \in CrCopies
    BY <1>1, <1>3, <1>6
  <2>2. sts'.ownerRv <= cr'.rv
    BY <1>3, <1>6
  <2>3. QED
    BY <2>1, <2>2 DEF FollowerInv, LabelVouches, Exists, AppliedTo, IsStale
<1>8. LatestSpecApplied'
  BY <1>3, <1>6 DEF LatestSpecApplied
<1>9. FollowerStep
  <2>1. <<cr'.spec.replicas, TemplateOf(cr'.spec)>> \in Size \X Template
    BY DEF TypeOK, ClusterResource, ClusterSpec, TemplateOf, Template
  <2>2. Follower!Publish
    BY <1>3, <2>1 DEF Follower!Publish
  <2>3. QED
    BY <2>2 DEF FollowerStep, Follower!Next
<1>10. QED
  BY <1>5, <1>7, <1>8, <1>9 DEF FollowerInv

(* The copy that RollingRestart writes has the spec of the CR it replaces. *)
LEMMA RestartAnswers ==
  ASSUME TypeOK, FollowerInv, RollingRestart
  PROVE  /\ cr.spec.triggerRollingRestart
         /\ cr'.rv = cr.rv + 1 /\ cr'.specRv = cr.rv + 1
         /\ cr'.status = cr.status
         /\ cr'.spec = [cr.spec EXCEPT !.triggerRollingRestart = FALSE,
                                       !.restartTime = now]
<1>1. crCache.rv = cr.rv
  BY DEF RollingRestart
<1>2. crCache.spec = cr.spec
  BY <1>1 DEF FollowerInv, CopiesAgree, CrCopies
<1>3. cr.spec.triggerRollingRestart
  BY <1>2 DEF RollingRestart
<1>. DEFINE answered == [crCache.spec EXCEPT !.triggerRollingRestart = FALSE,
                                             !.restartTime = now]
<1>4. cr' = [cr EXCEPT !.rv = @ + 1, !.specRv = cr.rv + 1, !.spec = answered]
  BY DEF RollingRestart
<1>5. answered = [cr.spec EXCEPT !.triggerRollingRestart = FALSE,
                                 !.restartTime = now]
  BY <1>2
<1>. HIDE DEF answered
<1>6. /\ cr'.rv = cr.rv + 1 /\ cr'.specRv = cr.rv + 1
      /\ cr'.status = cr.status /\ cr'.spec = answered
  BY <1>4 DEF TypeOK, ClusterResource
<1>. QED
  BY <1>3, <1>5, <1>6

(* A new version of the StatefulSet with the same label and spec: a status *)
(* written by the StatefulSet controller.                                  *)
LEMMA PodsStep ==
  ASSUME TypeOK, FollowerInv,
         Exists(sts),
         \/ sts' = sts
         \/ /\ sts'.rv = sts.rv + 1
            /\ sts'.ownerRv = sts.ownerRv
            /\ sts'.replicas = sts.replicas
            /\ sts'.template = sts.template,
         UNCHANGED <<cr, crCache, stsCache, behind, instance, foundSts, pc>>
  PROVE  FollowerInv' /\ FollowerStep
<1>1. \A c \in CrCopies' : c \in CrCopies
  BY DEF CrCopies
<1>2. \A s \in StsCopies' : s = sts' \/ s \in StsCopies
  BY DEF StsCopies
<1>3. /\ sts.rv \in Nat /\ sts.rv > 0 /\ sts'.rv > 0
      /\ sts'.ownerRv = sts.ownerRv
      /\ sts'.replicas = sts.replicas /\ sts'.template = sts.template
  BY CopiesType DEF StsCopies, Exists
<1>4. \A s \in StsCopies' : /\ s.rv <= sts'.rv
                            /\ s.rv = sts'.rv => s.ownerRv = sts'.ownerRv
  BY <1>2, <1>3, CopiesType DEF FollowerInv, CopiesAgree
<1>5. CopiesAgree'
  BY <1>1, <1>4 DEF FollowerInv, CopiesAgree
<1>6. LabelVouches'
  BY <1>1, <1>3 DEF FollowerInv, LabelVouches, Exists, AppliedTo, IsStale
<1>7. LatestSpecApplied'
  BY <1>3 DEF FollowerInv, LatestSpecApplied, Exists, AppliedTo
<1>8. FollowerStep
  BY <1>3 DEF FollowerStep, Follower!vars
<1>9. QED
  BY <1>5, <1>6, <1>7, <1>8 DEF FollowerInv

(* The StatefulSet takes the spec and the version of a local copy of the   *)
(* CR that is not older than its label.                                    *)
LEMMA ApplyStep ==
  ASSUME TypeOK, FollowerInv,
         sts.ownerRv <= instance.rv,
         \/ sts' = sts
         \/ sts'.rv = sts.rv + 1,
         Exists(sts)',
         sts'.ownerRv = instance.rv,
         AppliedTo(instance.spec)',
         UNCHANGED <<cr, pods, crCache, stsCache, behind>>,
         instance'.rv = instance.rv, instance'.spec = instance.spec,
         foundSts' \in {sts', NoSts},
         pc' # "updateSts"
  PROVE  FollowerInv' /\ FollowerStep
<1>1. \A c \in CrCopies' : \E d \in CrCopies : c.rv = d.rv /\ c.spec = d.spec
  BY DEF CrCopies
<1>2. /\ instance \in CrCopies
      /\ instance.rv \in Nat /\ instance.rv > 0
      /\ sts.rv \in Nat /\ sts.ownerRv \in Nat /\ cr.rv \in Nat
      /\ \A s \in StsCopies : s.rv \in Nat
  BY CopiesType DEF CrCopies, StsCopies
<1>3. \A s \in StsCopies' : s = sts' \/ s \in StsCopies
  BY DEF StsCopies
<1>4. instance.rv <= cr.rv /\ instance.rv >= cr.specRv => instance.spec = cr.spec
  BY <1>2 DEF FollowerInv, CopiesAgree
<1>5. CopiesAgree'
  <2>1. \A s \in StsCopies' : /\ s.rv <= sts'.rv
                              /\ s.rv = sts'.rv => s.ownerRv = sts'.ownerRv
    BY <1>2, <1>3 DEF FollowerInv, CopiesAgree
  <2>2. QED
    BY <1>1, <2>1 DEF FollowerInv, CopiesAgree
<1>6. LabelVouches'
  <2>1. \A d \in CrCopies : d.rv = instance.rv => d.spec = instance.spec
    BY <1>2 DEF FollowerInv, CopiesAgree
  <2>2. \A c \in CrCopies' : c.rv = sts'.ownerRv => c.spec = instance.spec
    BY <1>1, <2>1
  <2>3. sts'.ownerRv <= cr'.rv
    BY <1>2 DEF FollowerInv, CopiesAgree
  <2>4. QED
    BY <2>2, <2>3 DEF LabelVouches, AppliedTo, Exists
<1>7. LatestSpecApplied'
  <2>1. cr.specRv <= instance.rv => instance.spec = cr.spec
    BY <1>2 DEF FollowerInv, CopiesAgree
  <2>2. QED
    BY <2>1 DEF LatestSpecApplied, AppliedTo
<1>8. FollowerStep
  <2>1. CASE sts.ownerRv = instance.rv
    <3>1. ~ Exists(sts) => sts.ownerRv = 0
      BY DEF FollowerInv, LabelVouches, NoSts
    <3>2. AppliedTo(instance.spec)
      BY <1>2, <2>1, <3>1 DEF FollowerInv, LabelVouches
    <3>3. sts'.replicas = sts.replicas /\ sts'.template = sts.template
      BY <3>2 DEF AppliedTo
    <3>4. QED
      BY <2>1, <3>3 DEF FollowerStep, Follower!vars
  <2>2. CASE sts.ownerRv < instance.rv
    <3>1. sts'.ownerRv <= cr.rv
      BY <1>2 DEF FollowerInv, CopiesAgree
    <3>2. <<sts'.replicas, sts'.template>> \in Size \X Template
      <4>1. instance \in ClusterResource
        BY DEF TypeOK
      <4>2. instance.spec.replicas \in Size /\ TemplateOf(instance.spec) \in Template
        BY <4>1, WriteTypes DEF ClusterResource, ClusterSpec
      <4>3. QED
        BY <4>2 DEF AppliedTo
    <3>3. sts'.ownerRv >= cr.specRv
            => <<sts'.replicas, sts'.template>>
                 = <<cr.spec.replicas, TemplateOf(cr.spec)>>
      <4>1. cr.specRv <= instance.rv => instance.spec = cr.spec
        BY <1>2 DEF FollowerInv, CopiesAgree
      <4>2. cr.specRv \in Nat
        BY CopiesType
      <4>3. QED
        BY <1>2, <4>1, <4>2 DEF AppliedTo
    <3>4. Follower!Follow
      BY <2>2, <3>1, <3>2, <3>3 DEF Follower!Follow
    <3>5. QED
      BY <3>4 DEF FollowerStep, Follower!Next
  <2>3. QED
    BY <1>2, <2>1, <2>2
<1>9. QED
  BY <1>5, <1>6, <1>7, <1>8 DEF FollowerInv

(* updateStatefulSet, from a copy of the StatefulSet whose label is not    *)
(* newer than the CR at hand.                                              *)
LEMMA WriteStatefulSetStep ==
  ASSUME TypeOK, FollowerInv,
         NEW found \in {stsCache, foundSts},
         Exists(found), ~ IsStale(instance, found),
         WriteStatefulSet(found),
         UNCHANGED <<cr, pods, crCache, stsCache, behind>>
  PROVE  FollowerInv' /\ FollowerStep
<1>1. CASE found.rv # sts.rv
  <2>1. EndPass /\ UNCHANGED sts
    BY <1>1 DEF WriteStatefulSet
  <2>2. QED
    BY <2>1, CopyingStep DEF EndPass, CrCopies, StsCopies, InScope
<1>2. CASE found.rv = sts.rv
  <2>1. /\ found.ownerRv = sts.ownerRv
        /\ sts.ownerRv \in Nat /\ instance.rv \in Nat
        /\ sts.rv \in Nat
    BY <1>2, CopiesType DEF FollowerInv, CopiesAgree, StsCopies, CrCopies
  <2>2. sts.ownerRv <= instance.rv /\ Exists(sts)
    BY <1>2, <2>1 DEF IsStale, Exists
  <2> DEFINE label == IF instance.rv > found.ownerRv
                      THEN instance.rv ELSE found.ownerRv
             written == [sts EXCEPT !.ownerRv = label,
                                    !.replicas = instance.spec.replicas,
                                    !.template = TemplateOf(instance.spec)]
  <2>3. label = instance.rv
    BY <2>1, <2>2
  <2>4. /\ written.rv = sts.rv
        /\ written.ownerRv = instance.rv
        /\ written.replicas = instance.spec.replicas
        /\ written.template = TemplateOf(instance.spec)
        /\ written \in StsResource
    <3>1. instance \in ClusterResource /\ sts \in StsResource
      BY DEF TypeOK
    <3>2. instance.spec.replicas \in Size /\ TemplateOf(instance.spec) \in Template
      BY <3>1, WriteTypes DEF ClusterResource, ClusterSpec
    <3>3. QED
      BY <2>1, <2>3, <3>1, <3>2 DEF StsResource
  <2>5. /\ sts' = IF written = sts THEN sts ELSE [written EXCEPT !.rv = @ + 1]
        /\ foundSts' = sts'
        /\ pc' = "upgrade"
        /\ instance' = [instance EXCEPT
                          !.status.replicas = sts.status.replicas,
                          !.status.readyReplicas = sts.status.readyReplicas]
    BY <1>2 DEF WriteStatefulSet, Continue
  <2>6. instance'.rv = instance.rv /\ instance'.spec = instance.spec
    BY <2>5 DEF TypeOK, ClusterResource
  <2> HIDE DEF written
  <2>7. /\ sts' = sts \/ sts'.rv = sts.rv + 1
        /\ sts'.rv > 0
        /\ sts'.ownerRv = instance.rv
        /\ sts'.replicas = instance.spec.replicas
        /\ sts'.template = TemplateOf(instance.spec)
    <3>1. CASE written = sts
      BY <2>2, <2>4, <2>5, <3>1 DEF Exists
    <3>2. CASE written # sts
      BY <2>1, <2>4, <2>5, <3>2 DEF StsResource
    <3>3. QED
      BY <3>1, <3>2
  <2>8. QED
    BY <2>2, <2>5, <2>6, <2>7, ApplyStep DEF Exists, AppliedTo
<1>3. QED
  BY <1>1, <1>2

(* The CR gets a new status, or keeps the one it has.                      *)
LEMMA WriteStatusStep ==
  ASSUME TypeOK, FollowerInv,
         NEW zs \in ClusterStatusType,
         cr' = IF zs = cr.status THEN cr
               ELSE [cr EXCEPT !.rv = @ + 1, !.status = zs],
         UNCHANGED <<sts, pods, crCache, stsCache, behind>>,
         instance' \in {cr', InitialCr},
         foundSts' = NoSts,
         pc' # "updateSts"
  PROVE  FollowerInv' /\ FollowerStep
<1>1. CASE zs = cr.status
  <2>1. UNCHANGED cr
    BY <1>1
  <2>2. QED
    BY <2>1, CopyingStep DEF CrCopies, StsCopies, InScope
<1>2. CASE zs # cr.status
  <2>1. cr'.rv = cr.rv + 1 /\ cr'.specRv = cr.specRv /\ cr'.spec = cr.spec
    BY <1>2 DEF TypeOK, ClusterResource
  <2>2. QED
    BY <2>1, StatusStep
<1>3. QED
  BY <1>1, <1>2

(* Every step of a pass.                                                   *)
LEMMA PassStep ==
  ASSUME TypeOK, TypeOK', FollowerInv, Pass \/ CallFails
  PROVE  FollowerInv' /\ FollowerStep
<1> USE DEF apiVars, cacheVars, operatorVars, Unaffected
<1>0. /\ instance \in ClusterResource /\ instance.status \in ClusterStatusType
      /\ cr \in ClusterResource
      /\ now \in Nat
  BY DEF TypeOK, ClusterResource
<1>1. ASSUME EndPass, UNCHANGED <<cr, sts, pods, crCache, stsCache, behind>>
      PROVE  FollowerInv' /\ FollowerStep
  BY <1>1, CopyingStep DEF EndPass, CrCopies, StsCopies, InScope
<1>2. ASSUME NEW next, next # "updateSts", NEW x, NEW c \in {instance, cr},
             x.rv = c.rv, x.spec = c.spec, Continue(next, x, NoSts),
             UNCHANGED <<cr, sts, pods, crCache, stsCache, behind>>
      PROVE  FollowerInv' /\ FollowerStep
  BY <1>2, CopyingStep DEF Continue, CrCopies, StsCopies, InScope
<1>3. ASSUME NEW zs \in ClusterStatusType, StatusUpdate(zs, "status"), Unaffected
      PROVE  FollowerInv' /\ FollowerStep
  <2>1. CASE instance.rv = cr.rv
    BY <1>3, <2>1, WriteStatusStep DEF StatusUpdate, Continue
  <2>2. CASE instance.rv # cr.rv
    BY <1>1, <1>3, <2>2 DEF StatusUpdate
  <2>3. QED
    BY <2>1, <2>2
<1>4. ASSUME NEW zs, ClearUpgradeStatus(zs), UNCHANGED cr, Unaffected
      PROVE  FollowerInv' /\ FollowerStep
  <2>1. CASE instance.rv = cr.rv
    <3> DEFINE cleared == [SetUpgradingFalse(zs, now) EXCEPT
                             !.targetVersion = NoTag]
               x == [cr EXCEPT !.status = cleared]
    <3>1. x.rv = cr.rv /\ x.spec = cr.spec
      BY <1>0 DEF ClusterResource
    <3>2. Continue("status", x, NoSts)
      BY <1>4, <2>1 DEF ClearUpgradeStatus
    <3> HIDE DEF x
    <3>3. QED
      BY <1>2, <1>4, <3>1, <3>2
  <2>2. CASE instance.rv # cr.rv
    BY <1>1, <1>4, <2>2 DEF ClearUpgradeStatus
  <2>3. QED
    BY <2>1, <2>2
<1>5. CASE BeginPass
  BY <1>5, CopyingStep DEF BeginPass, Continue, CrCopies, StsCopies, InScope
<1>6. CASE RollingRestart
  <2>1. cr'.rv = cr.rv + 1 /\ cr'.specRv = cr.rv + 1
    BY <1>0, <1>6 DEF RollingRestart, ClusterResource
  <2>2. QED
    BY <1>6, <2>1, EditStep DEF RollingRestart
<1>7. CASE CallFails
  BY <1>1, <1>7 DEF CallFails
<1>8. CASE RecoverFailedUpgrade
  BY <1>4, <1>8 DEF RecoverFailedUpgrade
<1>9. CASE StayFailed \/ RefuseStaleness \/ MetadataMissing
  BY <1>1, <1>9 DEF StayFailed, RefuseStaleness, MetadataMissing
<1>10. CASE CreateStatefulSet
  <2>1. CASE Exists(sts)
    BY <1>1, <1>10, <2>1 DEF CreateStatefulSet
  <2>2. CASE ~ Exists(sts)
    <3>1. sts = NoSts
      BY <2>2 DEF FollowerInv, LabelVouches
    <3>2. sts.rv = 0 /\ sts.ownerRv = 0 /\ instance.rv \in Nat
      BY <1>0, <3>1 DEF NoSts, ClusterResource
    <3>3. /\ sts' = [rv |-> 1, ownerRv |-> instance.rv,
                     replicas |-> instance.spec.replicas,
                     template |-> TemplateOf(instance.spec),
                     status |-> NoSts.status]
          /\ Continue("status", instance, NoSts)
          /\ UNCHANGED <<cr, pods, crCache, stsCache, behind>>
      BY <1>10, <2>2 DEF CreateStatefulSet
    <3>4. QED
      BY <3>2, <3>3, ApplyStep DEF Continue, Exists, AppliedTo
  <2>3. QED
    BY <2>1, <2>2
<1>11. CASE UpdateClusterSize
  BY <1>11, CopyingStep
  DEF UpdateClusterSize, Continue, CrCopies, StsCopies, InScope, FoundStatefulSet,
      Exists, IsStale
<1>12. CASE UpdateSameSize
  BY <1>12, WriteStatefulSetStep DEF UpdateSameSize, FoundStatefulSet
<1>13. CASE UpdateNewSize
  <2>1. Exists(foundSts) /\ ~ IsStale(instance, foundSts)
    BY <1>13 DEF UpdateNewSize, FollowerInv, LabelVouches
  <2>2. QED
    BY <1>13, <2>1, WriteStatefulSetStep DEF UpdateNewSize
<1>14. CASE InitUpgrading
  <2> DEFINE x == [instance EXCEPT !.status = SetUpgradingFalse(@, now)]
  <2>1. x.rv = instance.rv /\ x.spec = instance.spec
    BY <1>0 DEF ClusterResource
  <2>2. Continue("status", x, NoSts) /\ UNCHANGED cr /\ Unaffected
    BY <1>14 DEF InitUpgrading
  <2> HIDE DEF x
  <2>3. QED
    BY <1>2, <2>1, <2>2
<1>15. CASE StartUpgrade
  <2>1. PICK zs \in ClusterStatusType : StatusUpdate(zs, "status")
    <3> DEFINE target == [instance.status EXCEPT
                            !.targetVersion = instance.spec.tag]
               unready == SetPodsReady(target, "False", now)
    <3>1. target \in ClusterStatusType
      BY <1>0 DEF ClusterResource, ClusterSpec, ClusterStatusType, Version
    <3> HIDE DEF target
    <3>2. unready \in ClusterStatusType
      BY <1>0, <3>1, SettersType
    <3> HIDE DEF unready
    <3>3. SetUpgradingTrue(unready, "", NoMessage, now) \in ClusterStatusType
      BY <1>0, <3>2, SettersType
    <3>4. StatusUpdate(SetUpgradingTrue(unready, "", NoMessage, now), "status")
      BY <1>15 DEF StartUpgrade, target, unready
    <3>5. QED
      BY <3>3, <3>4
  <2>2. QED
    BY <1>3, <1>15, <2>1 DEF StartUpgrade
<1>16. CASE NoUpgrade
  BY <1>0, <1>3, <1>16 DEF NoUpgrade
<1>17. CASE CompleteUpgrade
  BY <1>4, <1>17 DEF CompleteUpgrade
<1>18. CASE ReportProgress
  <2>1. foundSts.status.updatedReplicas \in Nat
    BY DEF TypeOK, StsResource, StsStatus
  <2>2. UpdateProgress(instance.status, foundSts.status.updatedReplicas, now)
          \in ClusterStatusType
    BY <1>0, <2>1, UpdateProgressType
  <2>3. QED
    BY <1>3, <1>18, <2>2 DEF ReportProgress
<1>19. CASE FailUpgrade
  BY <1>0, <1>3, <1>19, SettersType DEF FailUpgrade
<1>20. CASE AwaitProgress
  BY <1>2, <1>20 DEF AwaitProgress
<1>21. CASE SkipClusterStatus \/ ClusterStatusConflict
  BY <1>1, <1>21 DEF SkipClusterStatus, ClusterStatusConflict
<1>22. CASE CreateParentNode
  BY <1>1, <1>2, <1>22 DEF CreateParentNode
<1>23. CASE CreateNode
  <2> DEFINE x == [instance EXCEPT !.status.metaRootCreated = TRUE]
  <2>1. x.rv = instance.rv /\ x.spec = instance.spec
    BY <1>0 DEF ClusterResource
  <2>2. /\ Continue("writeStatus", x, NoSts)
        /\ UNCHANGED <<cr, sts, pods, crCache, stsCache, behind>>
    BY <1>23 DEF CreateNode
  <2> HIDE DEF x
  <2>3. QED
    BY <1>2, <2>1, <2>2
<1>24. CASE WriteClusterStatus
  <2>1. ReportedStatus \in ClusterStatusType
    BY <1>0, ReportedStatusType
  <2>2. QED
    BY <1>24, <2>1, WriteStatusStep DEF WriteClusterStatus, EndPass
<1>25. QED
  BY <1>5, <1>6, <1>7, <1>8, <1>9, <1>10, <1>11, <1>12, <1>13, <1>14, <1>15,
     <1>16, <1>17, <1>18, <1>19, <1>20, <1>21, <1>22, <1>23, <1>24 DEF Pass

(* Every step of the environment.                                          *)
LEMMA EnvironmentStep ==
  ASSUME TypeOK, TypeOK', FollowerInv,
         \/ Crash \/ SyncCrCache \/ SyncStsCache \/ CatchUp \/ Tick \/ User
         \/ StatefulSetController \/ PodBecomesReady \/ PodFails
  PROVE  FollowerInv' /\ FollowerStep
<1> USE DEF apiVars, cacheVars, operatorVars
<1>0. InScope
  BY DEF FollowerInv, LabelVouches, InScope
<1>1. CASE Crash
  BY <1>1, CopyingStep DEF Crash, EndPass, CrCopies, StsCopies, InScope
<1>2. CASE SyncCrCache \/ SyncStsCache \/ CatchUp \/ Tick
  <2>1. UNCHANGED <<cr, sts, pods, pc, instance, foundSts>>
    BY <1>2 DEF SyncCrCache, SyncStsCache, CatchUp, Tick
  <2>2. /\ crCache' \in CrCopies /\ behind'.cr \in CrCopies
        /\ stsCache' \in StsCopies /\ behind'.sts \in StsCopies
    BY <1>2 DEF SyncCrCache, SyncStsCache, CatchUp, Tick, CrCopies, StsCopies
  <2>3. InScope'
    BY <1>0, <2>1 DEF InScope, Exists, IsStale
  <2>4. QED
    BY <2>1, <2>2, <2>3, CopyingStep DEF CrCopies, StsCopies
<1>3. CASE User
  <2>1. PICK spec : EditSpec(spec)
    BY <1>3 DEF User, EditReplicas, EditTag, RequestRestart
  <2>2. cr'.rv = cr.rv + 1 /\ cr'.specRv = cr.rv + 1
    BY <2>1 DEF EditSpec, TypeOK, ClusterResource
  <2>3. QED
    BY <2>1, <2>2, EditStep DEF EditSpec
<1>4. CASE StatefulSetController \/ PodBecomesReady \/ PodFails
  <2>1. Exists(sts)
    <3>1. pods # <<>> => Exists(sts)
      BY DEF FollowerInv, LabelVouches
    <3>2. ASSUME pods = <<>>
          PROVE  Len(pods) = 0 /\ DOMAIN pods = {}
      BY <3>2
    <3>3. sts.replicas \in Nat /\ sts.replicas > 0
      <4>1. sts.replicas \in Size
        BY DEF TypeOK, StsResource
      <4>2. sts.replicas \in Nat /\ sts.replicas # 0
        BY <4>1, SizeAssumption
      <4>3. QED
        BY <4>2
    <3>4. PodDeleted \/ PodReplaced => pods # <<>>
      BY <3>2, <3>3 DEF PodDeleted, CanDeletePod, PodReplaced, CanRollPod
    <3>5. PodBecomesReady \/ PodFails => pods # <<>>
      BY <3>2, Zenon DEF PodBecomesReady, PodFails
    <3>6. QED
      BY <1>4, <3>1, <3>4, <3>5
      DEF StatefulSetController, ObserveTemplate, PodCreated, RolloutCompletes
  <2>2. PICK ps, current, update : SetPods(ps, current, update)
    BY <1>4 DEF StatefulSetController, ObserveTemplate, PodCreated, PodDeleted,
                PodReplaced, RolloutCompletes, PodBecomesReady, PodFails
  <2>3. \/ sts' = sts
        \/ /\ sts'.rv = sts.rv + 1
           /\ sts'.ownerRv = sts.ownerRv
           /\ sts'.replicas = sts.replicas
           /\ sts'.template = sts.template
    BY <2>2 DEF SetPods, TypeOK, StsResource
  <2>4. QED
    BY <2>1, <2>2, <2>3, PodsStep DEF SetPods
<1>5. QED
  BY <1>1, <1>2, <1>3, <1>4

(* Every step preserves the inductive invariant.                          *)
LEMMA NextFollowerInv ==
  ASSUME TypeOK, TypeOK', FollowerInv, [Next]_vars
  PROVE  FollowerInv' /\ FollowerStep
<1>1. CASE UNCHANGED vars
  <2>1. InScope'
    BY <1>1 DEF vars, FollowerInv, LabelVouches, InScope, Exists, IsStale
  <2>2. QED
    BY <1>1, <2>1, CopyingStep DEF vars, CrCopies, StsCopies
<1>2. CASE Next
  BY <1>2, PassStep, EnvironmentStep DEF Next
<1>3. QED
  BY <1>1, <1>2

(* The copies agree with the originals and the label vouches for the spec, *)
(* always.                                                                 *)
THEOREM FollowerInvariant == Spec => []FollowerInv
<1>1. TypeOK /\ TypeOK' /\ FollowerInv /\ [Next]_vars => FollowerInv'
  BY NextFollowerInv
<1>2. QED
  BY <1>1, InitFollowerInv, TypeCorrect, PTL DEF Spec

(* Whatever the caches served and wherever the operator crashed, a         *)
(* StatefulSet whose label owner-rv is at or after the version of the last *)
(* edit carries the spec of that edit.                                     *)
THEOREM LabelNeverLies == Spec => []LatestSpecApplied
<1>1. FollowerInv => LatestSpecApplied
  BY DEF FollowerInv
<1>2. QED
  BY <1>1, FollowerInvariant, PTL

(* The operator, its caches, its crashes and Kubernetes included,          *)
(* implements the follower of SpecFollower.                                *)
THEOREM ImplementsFollower == Spec => FollowsSpec
<1>1. Init => Follower!Init
  <2>1. SUFFICES ASSUME Init PROVE Follower!Init
    OBVIOUS
  <2>2. /\ cr.rv = 1 /\ cr.specRv = 1 /\ cr.spec = InitialSpec
        /\ sts.ownerRv = 0 /\ sts.replicas = InitialSize
        /\ sts.template = TemplateOf(InitialSpec)
    BY <2>1 DEF Init, InitialCr, NoSts
  <2>3. /\ InitialSpec.replicas = InitialSize
        /\ TemplateOf(InitialSpec) \in Template
    BY TagsAssumption DEF InitialSpec, TemplateOf, Template
  <2>4. QED
    BY <2>2, <2>3, SizeAssumption DEF Follower!Init
<1>2. TypeOK /\ TypeOK' /\ FollowerInv /\ [Next]_vars
        => [Follower!Next]_(Follower!vars)
  BY NextFollowerInv DEF FollowerStep
<1>3. QED
  BY <1>1, <1>2, TypeCorrect, FollowerInvariant, PTL
  DEF Spec, FollowsSpec, Follower!Spec

(* Once the StatefulSet follows the last edit, no step changes its size or *)
(* its template until the next edit.                                       *)
THEOREM NoRollback == Spec => NeverRollsBack
<1>1. TypeOK /\ TypeOK' /\ FollowerInv /\ [Next]_vars
        => [Exists(sts) /\ sts.ownerRv >= cr.specRv /\ cr'.specRv = cr.specRv
              => UNCHANGED <<sts.replicas, sts.template>>]_vars
  <2>1. SUFFICES ASSUME TypeOK, TypeOK', FollowerInv, [Next]_vars,
                        Exists(sts), sts.ownerRv >= cr.specRv,
                        cr'.specRv = cr.specRv
                 PROVE  UNCHANGED <<sts.replicas, sts.template>>
    OBVIOUS
  <2>2. sts.ownerRv \in Nat /\ cr.specRv \in Nat
    BY <2>1, CopiesType DEF StsCopies
  <2>3. AppliedTo(cr.spec)
    BY <2>1 DEF FollowerInv, LatestSpecApplied
  <2>4. FollowerStep
    BY <2>1, NextFollowerInv
  <2>5. CASE Follower!Follow
    <3>1. /\ sts.ownerRv < sts'.ownerRv
          /\ sts'.ownerRv >= cr.specRv
               => <<sts'.replicas, sts'.template>>
                    = <<cr.spec.replicas, TemplateOf(cr.spec)>>
      BY <2>5 DEF Follower!Follow
    <3>2. sts' \in StsResource
      BY <2>1 DEF TypeOK
    <3>3. sts'.ownerRv \in Nat
      BY <3>2 DEF StsResource
    <3>4. QED
      BY <2>1, <2>2, <2>3, <3>1, <3>3 DEF AppliedTo
  <2>6. CASE Follower!Touch \/ Follower!Publish \/ UNCHANGED Follower!vars
    BY <2>6 DEF Follower!Touch, Follower!Publish, Follower!vars
  <2>7. QED
    BY <2>4, <2>5, <2>6 DEF FollowerStep, Follower!Next
<1>2. QED
  BY <1>1, TypeCorrect, FollowerInvariant, PTL DEF Spec, NeverRollsBack

(* No step but RollingRestart and the edits of the user, which are counted *)
(* in used, writes the spec.                                               *)
LEMMA OnlyRestartsWrite ==
  ASSUME TypeOK, [Next]_vars, cr'.specRv # cr.specRv, UNCHANGED used
  PROVE  RollingRestart
<1>. USE DEF apiVars, cacheVars, operatorVars
<1>0. cr \in ClusterResource
  BY DEF TypeOK
<1>1. \A zs, next : ~ StatusUpdate(zs, next)
  BY <1>0 DEF StatusUpdate, ClusterResource
<1>2. ~ WriteClusterStatus
  BY <1>0 DEF WriteClusterStatus, ClusterResource
<1>3. ~ User
  <2>1. ~ Use("sizeEdits") /\ ~ Use("tagEdits") /\ ~ Use("restartEdits")
    BY DEF TypeOK, Use, Bounds
  <2>. QED
    BY <2>1 DEF User, EditReplicas, EditTag, RequestRestart
<1>4. \A p, current, update : ~ SetPods(p, current, update)
  BY DEF SetPods
<1>5. ~ (\/ StartUpgrade \/ NoUpgrade \/ ReportProgress \/ FailUpgrade)
  BY <1>1 DEF StartUpgrade, NoUpgrade, ReportProgress, FailUpgrade
<1>6. ~ (StatefulSetController \/ PodBecomesReady \/ PodFails)
  BY <1>4
  DEF StatefulSetController, ObserveTemplate, PodCreated, PodDeleted,
      PodReplaced, RolloutCompletes, PodBecomesReady, PodFails
<1>7. cr' # cr
  OBVIOUS
<1>. QED
  BY <1>2, <1>3, <1>5, <1>6, <1>7
  DEF Next, Pass, vars, Unaffected, BeginPass, CallFails, Crash, SyncCrCache,
      SyncStsCache, CatchUp, Tick, RecoverFailedUpgrade, StayFailed,
      CreateStatefulSet, RefuseStaleness, MetadataMissing, UpdateClusterSize,
      UpdateSameSize, UpdateNewSize, InitUpgrading, CompleteUpgrade,
      AwaitProgress, SkipClusterStatus, CreateParentNode, CreateNode,
      ClusterStatusConflict

(* Whatever the user edits beside a rolling restart, through caches that   *)
(* lag and restarts, no edit is overwritten and no restart is made twice.  *)
THEOREM RestartsKeepEdits == Spec => RestartKeepsEdits
<1>1. TypeOK /\ FollowerInv /\ [Next]_vars
        => [cr'.specRv # cr.specRv /\ UNCHANGED used
              => /\ cr.spec.triggerRollingRestart
                 /\ cr'.spec = [cr.spec EXCEPT !.triggerRollingRestart = FALSE,
                                               !.restartTime = now]]_vars
  <2>. SUFFICES ASSUME TypeOK, FollowerInv, [Next]_vars,
                       cr'.specRv # cr.specRv, UNCHANGED used
                PROVE  /\ cr.spec.triggerRollingRestart
                       /\ cr'.spec = [cr.spec EXCEPT
                                        !.triggerRollingRestart = FALSE,
                                        !.restartTime = now]
    OBVIOUS
  <2>1. RollingRestart
    BY OnlyRestartsWrite
  <2>. QED
    BY <2>1, RestartAnswers DEF TypeOK, ClusterResource
<1>. QED
  BY <1>1, TypeCorrect, FollowerInvariant, PTL DEF Spec, RestartKeepsEdits
=============================================================================
