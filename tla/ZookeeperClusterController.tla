---------------------- MODULE ZookeeperClusterController ----------------------
(***************************************************************************)
(* One ZookeeperCluster and the operator that reconciles it                *)
(* (controllers/zookeepercluster_controller.go), with the StatefulSet it   *)
(* owns, the znode of the cluster's metadata, the informer caches the      *)
(* operator reads and the user who edits the spec.                         *)
(*                                                                         *)
(* The operator is one process: the manager holds a leader-for-life lock   *)
(* and a controller has one worker.  A pass of Reconcile is a sequence of  *)
(* calls to the API server and to ZooKeeper; each action below is one such *)
(* call, with the computation that leads to it and the computation that    *)
(* follows it, since nothing else of a pass can be seen by anyone else.    *)
(* Everything else interleaves between the calls.                          *)
(*                                                                         *)
(* The cluster here keeps its volumes (reclaimPolicy Retain), for which    *)
(* reconcileFinalizers returns at once; PvcReclaim models the other case.  *)
(* Left out of a pass: the config map, the services, the service account   *)
(* and the disruption budget, whose only effect on the rest of the pass is *)
(* that a failed call ends it (CallFails), and Status.Members.             *)
(***************************************************************************)
EXTENDS Integers, Sequences, FiniteSets, ClusterStatus

CONSTANTS
  Size,            \* values of spec.replicas
  InitialSize, InitialTag,
  BadTag,          \* tags of images with which a pod never becomes ready
  MaxSizeEdits,    \* bound on edits of spec.replicas
  MaxTagEdits,     \* bound on edits of spec.image.tag
  MaxRestartEdits, \* bound on requests for a rolling restart
  MaxCrashes,      \* bound on crashes of the operator
  MaxFaults,       \* bound on failed calls to the API server or to ZooKeeper
  MaxPodFailures,  \* bound on pods that stop being ready
  MaxTime,         \* bound on the clock
  PatientUser,     \* the user waits for an edit to be rolled out
  PromptCache,     \* a pass starts when the watch of the CR has caught up
  LostWrites,      \* among the failed calls is the one whose error is dropped
  StaleRestarts    \* a restarted operator may list from a replica that lags

ASSUME SizeAssumption == Size \subseteq Nat \ {0} /\ InitialSize \in Size
ASSUME TagsAssumption == InitialTag \in Tag /\ BadTag \subseteq Tag
ASSUME BoundsAssumption ==
  {MaxSizeEdits, MaxTagEdits, MaxRestartEdits, MaxCrashes, MaxFaults,
   MaxPodFailures, MaxTime} \subseteq Nat
ASSUME ModesAssumption ==
  {PatientUser, PromptCache, LostWrites, StaleRestarts} \subseteq BOOLEAN

INSTANCE StatefulSet

VARIABLES
  cr,         \* the ZookeeperCluster in the API server
  sts,        \* the StatefulSet in the API server
  pods,       \* the pods of the StatefulSet, by ordinal
  znode,      \* the metadata of the cluster in ZooKeeper
  crCache,    \* the CR as the operator's informer knows it
  stsCache,   \* the StatefulSet as the operator's informer knows it
  behind,     \* an earlier state of the API server, which a lagging replica
              \* of it serves
  pc,         \* the call the operator makes next
  instance,   \* Reconcile's local copy of the CR
  foundSts,   \* reconcileStatefulSet's local copy of the StatefulSet
  now,        \* the clock
  progressAt, \* history: when the number of updated pods last changed
  used        \* how much of each bound is used up

apiVars      == <<cr, sts>>
operatorVars == <<pc, instance, foundSts>>
cacheVars    == <<crCache, stsCache, behind>>
vars == <<cr, sts, pods, znode, crCache, stsCache, behind, pc, instance,
          foundSts, now, progressAt, used>>

-----------------------------------------------------------------------------
ClusterSpec == [replicas : Size, tag : Tag, triggerRollingRestart : BOOLEAN,
                restartTime : Nat]

(* rv is the resourceVersion; specRv is the resourceVersion at which the   *)
(* spec was last written (history, it stands for metadata.generation).     *)
ClusterResource == [rv : Nat \ {0}, specRv : Nat, spec : ClusterSpec,
                    status : ClusterStatusType]

(* A StatefulSet; ownerRv is the label owner-rv.                           *)
StsResource == [rv : Nat, ownerRv : Nat, replicas : Size,
                template : Template, status : StsStatus]

InitialSpec == [replicas |-> InitialSize, tag |-> InitialTag,
                triggerRollingRestart |-> FALSE, restartTime |-> 0]

InitialCr == [rv |-> 1, specRv |-> 1, spec |-> InitialSpec,
              status |-> EmptyStatus]

TemplateOf(spec) == [tag |-> spec.tag, restartTime |-> spec.restartTime]

(* The value of sts before the StatefulSet is created: no object has       *)
(* resourceVersion 0.                                                      *)
NoSts == [rv |-> 0, ownerRv |-> 0, replicas |-> InitialSize,
          template |-> TemplateOf(InitialSpec),
          status |-> StatusOf(<<>>, NoRevision, NoRevision)]

Exists(s) == s.rv > 0

NoSize == -1

Bounds == [sizeEdits |-> MaxSizeEdits, tagEdits |-> MaxTagEdits,
           restartEdits |-> MaxRestartEdits, crashes |-> MaxCrashes,
           faults |-> MaxFaults, podFailures |-> MaxPodFailures]

Init ==
  /\ cr = InitialCr
  /\ sts = NoSts
  /\ pods = <<>>
  /\ znode = [parent |-> FALSE, size |-> NoSize]
  /\ crCache = cr
  /\ stsCache = sts
  /\ behind = [cr |-> cr, sts |-> sts]
  /\ pc = "idle"
  /\ instance = InitialCr
  /\ foundSts = NoSts
  /\ now = 1
  /\ progressAt = 0
  /\ used = [b \in DOMAIN Bounds |-> 0]

Use(b) ==
  /\ used[b] < Bounds[b]
  /\ used' = [used EXCEPT ![b] = @ + 1]

-----------------------------------------------------------------------------
(* The pass ends: its local variables go out of scope.  Whatever the       *)
(* result, the controller runtime starts another pass: at once, after a    *)
(* backoff, or after ReconcileTime.                                        *)
EndPass ==
  /\ pc' = "idle"
  /\ instance' = InitialCr
  /\ foundSts' = NoSts

Continue(next, newInstance, newFound) ==
  /\ pc' = next
  /\ instance' = newInstance
  /\ foundSts' = newFound

(* Get from the cache, no defaults to set (they are set when the model     *)
(* starts) and no restart requested: the pass goes through the pipeline.   *)
BeginPass ==
  /\ pc = "idle"
  /\ PromptCache => crCache = cr
  /\ ~ crCache.spec.triggerRollingRestart
  /\ Continue("statefulSet", crCache, NoSts)
  /\ UNCHANGED <<apiVars, pods, znode, cacheVars, now, progressAt, used>>

(* Mutant: the copy replaces the CR whatever has become of it.             *)
RollingRestartBlind ==
  /\ pc = "idle"
  /\ PromptCache => crCache = cr
  /\ crCache.spec.triggerRollingRestart
  /\ cr' = [cr EXCEPT !.rv = @ + 1,
                      !.specRv = cr.rv + 1,
                      !.spec = [crCache.spec EXCEPT
                                  !.triggerRollingRestart = FALSE,
                                  !.restartTime = now]]
  /\ UNCHANGED <<sts, pods, znode, cacheVars, operatorVars, now, progressAt,
                 used>>

(* A pass that finds triggerRollingRestart sets the annotation and clears  *)
(* the trigger in its copy of the CR, whose spec replaces that of the CR,  *)
(* unless the versions conflict; and ends.                                 *)
RollingRestart ==
  /\ pc = "idle"
  /\ PromptCache => crCache = cr
  /\ crCache.spec.triggerRollingRestart
  /\ crCache.rv = cr.rv
  /\ cr' = [cr EXCEPT !.rv = @ + 1,
                      !.specRv = cr.rv + 1,
                      !.spec = [crCache.spec EXCEPT
                                  !.triggerRollingRestart = FALSE,
                                  !.restartTime = now]]
  /\ UNCHANGED <<sts, pods, znode, cacheVars, operatorVars, now, progressAt,
                 used>>

(* A call fails and its error ends the pass.                               *)
CallFails ==
  /\ pc # "idle"
  /\ Use("faults")
  /\ EndPass
  /\ UNCHANGED <<apiVars, pods, znode, cacheVars, now, progressAt>>

-----------------------------------------------------------------------------
(* reconcileStatefulSet.                                                   *)

(* Client.Status().Update: refused with a conflict, which ends the pass,   *)
(* unless the local copy has the current resourceVersion; an update that   *)
(* changes nothing leaves the resourceVersion alone.  The response of the  *)
(* server replaces the local copy.                                         *)
StatusUpdate(zs, next) ==
  \/ /\ instance.rv = cr.rv
     /\ cr' = IF zs = cr.status THEN cr
              ELSE [cr EXCEPT !.rv = @ + 1, !.status = zs]
     /\ Continue(next, cr', NoSts)
  \/ /\ instance.rv # cr.rv
     /\ EndPass
     /\ UNCHANGED cr

(* Mutant: the status is not saved in a deep copy before the update, whose *)
(* response replaces it.                                                   *)
ClearUpgradeStatusShallow(zs) ==
  \/ /\ instance.rv = cr.rv
     /\ Continue("status", cr, NoSts)
  \/ /\ instance.rv # cr.rv
     /\ EndPass

(* Mutant: the target version is left as it is.                            *)
ClearUpgradeStatusKeepTarget(zs) ==
  \/ /\ instance.rv = cr.rv
     /\ Continue("status", [cr EXCEPT !.status = SetUpgradingFalse(zs, now)],
                 NoSts)
  \/ /\ instance.rv # cr.rv
     /\ EndPass

(* clearUpgradeStatus: Client.Update writes the spec and the metadata of   *)
(* the CR, which the pass did not change, so the object stays as it is;    *)
(* the new status is kept in the local copy only.                          *)
ClearUpgradeStatus(zs) ==
  LET cleared == [SetUpgradingFalse(zs, now) EXCEPT !.targetVersion = NoTag]
  IN  \/ /\ instance.rv = cr.rv
         /\ Continue("status", [cr EXCEPT !.status = cleared], NoSts)
      \/ /\ instance.rv # cr.rv
         /\ EndPass

(* A failed upgrade is not synchronized; it recovers when the StatefulSet  *)
(* reached the target by itself.  The update of foundSts changes nothing   *)
(* and is refused when the cached copy is old.                             *)
RecoverFailedUpgrade ==
  /\ pc = "statefulSet"
  /\ IsUpgradeFailed(instance.status)
  /\ stsCache.rv = sts.rv
  /\ sts.status.replicas = sts.status.readyReplicas
  /\ sts.status.currentRevision = sts.status.updateRevision
  /\ ClearUpgradeStatus(
       [SetErrorFalse(instance.status, now)
          EXCEPT !.currentVersion = instance.status.targetVersion])
  /\ UNCHANGED <<apiVars, pods, znode, cacheVars, now, progressAt, used>>

StayFailed ==
  /\ pc = "statefulSet"
  /\ IsUpgradeFailed(instance.status)
  /\ \/ stsCache.rv # sts.rv
     \/ sts.status.replicas # sts.status.readyReplicas
     \/ sts.status.currentRevision # sts.status.updateRevision
  /\ EndPass
  /\ UNCHANGED <<apiVars, pods, znode, cacheVars, now, progressAt, used>>

CreateStatefulSet ==
  /\ pc = "statefulSet"
  /\ ~ IsUpgradeFailed(instance.status)
  /\ ~ Exists(stsCache)
  /\ \/ /\ ~ Exists(sts)
        /\ sts' = [rv |-> 1, ownerRv |-> instance.rv,
                   replicas |-> instance.spec.replicas,
                   template |-> TemplateOf(instance.spec),
                   status |-> NoSts.status]
        /\ Continue("status", instance, NoSts)
     \/ /\ Exists(sts)        \* AlreadyExists
        /\ EndPass
        /\ UNCHANGED sts
  /\ UNCHANGED <<cr, pods, znode, cacheVars, now, progressAt, used>>

(* Mutants: no staleness check; a check that also refuses an equal version. *)
NeverStale(zk, s) == FALSE

StaleOrEqual(zk, s) == zk.rv <= s.ownerRv

(* compareResourceVersion < 0: the CR at hand is older than the one the    *)
(* StatefulSet was last synchronized with.                                 *)
IsStale(zk, s) == zk.rv < s.ownerRv

FoundStatefulSet ==
  /\ pc = "statefulSet"
  /\ ~ IsUpgradeFailed(instance.status)
  /\ Exists(stsCache)

RefuseStaleness ==
  /\ FoundStatefulSet
  /\ IsStale(instance, stsCache)
  /\ EndPass
  /\ UNCHANGED <<apiVars, pods, znode, cacheVars, now, progressAt, used>>

(* The size changes and the znode is not there: the error ends the pass.   *)
MetadataMissing ==
  /\ FoundStatefulSet
  /\ ~ IsStale(instance, stsCache)
  /\ instance.spec.replicas # stsCache.replicas
  /\ znode.size = NoSize
  /\ EndPass
  /\ UNCHANGED <<apiVars, pods, znode, cacheVars, now, progressAt, used>>

(* Mutant: the size in the znode is left to a later pass.                  *)
UpdateClusterSizeLater ==
  /\ FoundStatefulSet
  /\ ~ IsStale(instance, stsCache)
  /\ instance.spec.replicas # stsCache.replicas
  /\ znode.size # NoSize
  /\ Continue("updateSts", instance, stsCache)
  /\ UNCHANGED <<apiVars, pods, znode, cacheVars, now, progressAt, used>>

(* The size changes: the znode is written first.  The error of UpdateNode  *)
(* is dropped and the pass goes on.                                        *)
UpdateClusterSize ==
  /\ FoundStatefulSet
  /\ ~ IsStale(instance, stsCache)
  /\ instance.spec.replicas # stsCache.replicas
  /\ znode.size # NoSize
  /\ \/ /\ znode' = [znode EXCEPT !.size = instance.spec.replicas]
        /\ UNCHANGED used
     \/ /\ LostWrites
        /\ Use("faults")
        /\ UNCHANGED znode
  /\ Continue("updateSts", instance, stsCache)
  /\ UNCHANGED <<apiVars, pods, cacheVars, now, progressAt>>

(* Mutant: the label owner-rv is set when the StatefulSet is created only.  *)
WriteStatefulSetUnlabelled(found) ==
  \/ /\ found.rv = sts.rv
     /\ sts' = [sts EXCEPT !.rv = @ + 1,
                           !.replicas = instance.spec.replicas,
                           !.template = TemplateOf(instance.spec)]
     /\ Continue("upgrade", [instance EXCEPT
                              !.status.replicas = sts.status.replicas,
                              !.status.readyReplicas = sts.status.readyReplicas],
                 sts')
  \/ /\ found.rv # sts.rv
     /\ EndPass
     /\ UNCHANGED sts

(* updateStatefulSet: the spec of the StatefulSet becomes that of the CR   *)
(* at hand, unless the copy it was read from is old (a conflict); the      *)
(* response of the server has the current status of the StatefulSet.       *)
WriteStatefulSet(found) ==
  LET written == [sts EXCEPT !.ownerRv = IF instance.rv > found.ownerRv
                                         THEN instance.rv ELSE found.ownerRv,
                             !.replicas = instance.spec.replicas,
                             !.template = TemplateOf(instance.spec)]
  IN  \/ /\ found.rv = sts.rv
         /\ sts' = IF written = sts THEN sts
                   ELSE [written EXCEPT !.rv = @ + 1]
         /\ Continue("upgrade",
                     [instance EXCEPT
                        !.status.replicas = sts.status.replicas,
                        !.status.readyReplicas = sts.status.readyReplicas],
                     sts')
      \/ /\ found.rv # sts.rv
         /\ EndPass
         /\ UNCHANGED sts

UpdateSameSize ==
  /\ FoundStatefulSet
  /\ ~ IsStale(instance, stsCache)
  /\ instance.spec.replicas = stsCache.replicas
  /\ WriteStatefulSet(stsCache)
  /\ UNCHANGED <<cr, pods, znode, cacheVars, now, progressAt, used>>

UpdateNewSize ==
  /\ pc = "updateSts"
  /\ WriteStatefulSet(foundSts)
  /\ UNCHANGED <<cr, pods, znode, cacheVars, now, progressAt, used>>

-----------------------------------------------------------------------------
(* upgradeStatefulSet: instance.status is the status at hand and foundSts  *)
(* the StatefulSet just written.                                           *)

InUpgrade(status) ==
  /\ pc = "upgrade"
  /\ instance.status.conditions["Upgrading"].status = status

(* Mutant: a rollout is over as soon as all pods are ready.                *)
NotAllReady ==
  foundSts.status.readyReplicas # foundSts.status.replicas

RollingOut ==
  foundSts.status.currentRevision # foundSts.status.updateRevision

Unaffected == UNCHANGED <<sts, pods, znode, cacheVars, now, progressAt, used>>

(* The first pass only sets the condition in the local copy.               *)
InitUpgrading ==
  /\ InUpgrade("Absent")
  /\ Continue("status",
              [instance EXCEPT !.status = SetUpgradingFalse(@, now)], NoSts)
  /\ UNCHANGED cr
  /\ Unaffected

UpgradeDetected ==
  /\ IsReady(instance.status)
  /\ RollingOut
  /\ instance.spec.tag # instance.status.currentVersion

StartUpgrade ==
  /\ InUpgrade("False")
  /\ UpgradeDetected
  /\ LET target == [instance.status EXCEPT !.targetVersion = instance.spec.tag]
         unready == SetPodsReady(target, "False", now)
     IN  StatusUpdate(SetUpgradingTrue(unready, "", NoMessage, now), "status")
  /\ Unaffected

NoUpgrade ==
  /\ InUpgrade("False")
  /\ ~ UpgradeDetected
  /\ StatusUpdate(instance.status, "status")
  /\ Unaffected

(* The upgrade is over when the revisions are equal; an upgrade to an      *)
(* unknown version is cancelled and leaves CurrentVersion alone.           *)
UnknownTarget == instance.status.targetVersion = NoTag

CompleteUpgrade ==
  /\ InUpgrade("True")
  /\ UnknownTarget \/ ~ RollingOut
  /\ ClearUpgradeStatus(
       [instance.status EXCEPT
          !.currentVersion = IF UnknownTarget THEN @
                             ELSE instance.status.targetVersion])
  /\ UNCHANGED cr
  /\ Unaffected

UpgradeInProgress ==
  /\ InUpgrade("True")
  /\ ~ UnknownTarget
  /\ RollingOut

ReportedProgress == instance.status.conditions["Upgrading"].message

ReportProgress ==
  /\ UpgradeInProgress
  /\ foundSts.status.updatedReplicas # ReportedProgress
  /\ StatusUpdate(UpdateProgress(instance.status,
                                 foundSts.status.updatedReplicas, now),
                  "status")
  /\ Unaffected

FailUpgrade ==
  /\ UpgradeInProgress
  /\ foundSts.status.updatedReplicas = ReportedProgress
  /\ SyncTimedOut(instance.status, foundSts.status.updatedReplicas, now)
  /\ StatusUpdate(SetErrorTrue(instance.status, now), "status")
  /\ Unaffected

AwaitProgress ==
  /\ UpgradeInProgress
  /\ foundSts.status.updatedReplicas = ReportedProgress
  /\ ~ SyncTimedOut(instance.status, foundSts.status.updatedReplicas, now)
  /\ Continue("status", instance, NoSts)
  /\ UNCHANGED cr
  /\ Unaffected

-----------------------------------------------------------------------------
(* reconcileClusterStatus.                                                 *)

SkipClusterStatus ==
  /\ pc = "status"
  /\ IsUpgrading(instance.status) \/ IsUpgradeFailed(instance.status)
  /\ EndPass
  /\ UNCHANGED cr
  /\ Unaffected

InClusterStatus ==
  /\ pc = "status"
  /\ ~ IsUpgrading(instance.status)
  /\ ~ IsUpgradeFailed(instance.status)

MetaRootDue ==
  /\ instance.spec.replicas = instance.status.readyReplicas
  /\ ~ instance.status.metaRootCreated

(* Mutant: a parent that exists is taken for the whole path.               *)
CreateParentNodeTolerant ==
  /\ InClusterStatus
  /\ MetaRootDue
  /\ IF znode.parent
     THEN /\ Continue("writeStatus",
                      [instance EXCEPT !.status.metaRootCreated = TRUE], NoSts)
          /\ UNCHANGED znode
     ELSE /\ znode' = [znode EXCEPT !.parent = TRUE]
          /\ Continue("createNode", instance, NoSts)
  /\ UNCHANGED <<apiVars, pods, cacheVars, now, progressAt, used>>

(* CreateNode creates the parent and then the child; creating a znode that *)
(* exists is an error, which ends the pass.                                *)
CreateParentNode ==
  /\ InClusterStatus
  /\ MetaRootDue
  /\ \/ /\ ~ znode.parent
        /\ znode' = [znode EXCEPT !.parent = TRUE]
        /\ Continue("createNode", instance, NoSts)
     \/ /\ znode.parent
        /\ EndPass
        /\ UNCHANGED znode
  /\ UNCHANGED <<apiVars, pods, cacheVars, now, progressAt, used>>

(* Mutant: the node holds the ordinal of the last server, not the size.    *)
CreateNodeLastOrdinal ==
  /\ pc = "createNode"
  /\ znode' = [znode EXCEPT !.size = instance.spec.replicas - 1]
  /\ Continue("writeStatus",
              [instance EXCEPT !.status.metaRootCreated = TRUE], NoSts)
  /\ UNCHANGED <<apiVars, pods, cacheVars, now, progressAt, used>>

(* The child is created under the parent created just before, so it cannot *)
(* exist yet.                                                              *)
CreateNode ==
  /\ pc = "createNode"
  /\ znode' = [znode EXCEPT !.size = instance.spec.replicas]
  /\ Continue("writeStatus",
              [instance EXCEPT !.status.metaRootCreated = TRUE], NoSts)
  /\ UNCHANGED <<apiVars, pods, cacheVars, now, progressAt, used>>

(* Mutant: the version follows the spec whenever the cluster is ready.     *)
ReportedStatusAlways ==
  LET allReady == instance.status.readyReplicas = instance.spec.replicas
      zs == SetPodsReady(InitConditions(instance.status),
                         IF allReady THEN "True" ELSE "False", now)
  IN  IF IsReady(zs)
      THEN [zs EXCEPT !.currentVersion = instance.spec.tag]
      ELSE zs

(* The rest of reconcileClusterStatus: PodsReady, and the first            *)
(* CurrentVersion of a cluster that is ready.                              *)
ReportedStatus ==
  LET allReady == instance.status.readyReplicas = instance.spec.replicas
      zs == SetPodsReady(InitConditions(instance.status),
                         IF allReady THEN "True" ELSE "False", now)
  IN  IF zs.currentVersion = NoTag /\ IsReady(zs)
      THEN [zs EXCEPT !.currentVersion = instance.spec.tag]
      ELSE zs

WriteClusterStatus ==
  /\ \/ InClusterStatus /\ ~ MetaRootDue
     \/ pc = "writeStatus"
  /\ instance.rv = cr.rv
  /\ cr' = IF ReportedStatus = cr.status THEN cr
           ELSE [cr EXCEPT !.rv = @ + 1, !.status = ReportedStatus]
  /\ EndPass
  /\ Unaffected

ClusterStatusConflict ==
  /\ \/ InClusterStatus /\ ~ MetaRootDue
     \/ pc = "writeStatus"
  /\ instance.rv # cr.rv
  /\ EndPass
  /\ UNCHANGED cr
  /\ Unaffected
-----------------------------------------------------------------------------
(* The environment of the operator.                                        *)

SyncCrCache ==
  /\ crCache # cr
  /\ crCache' = cr
  /\ UNCHANGED <<apiVars, pods, znode, stsCache, behind, operatorVars, now,
                 progressAt, used>>

SyncStsCache ==
  /\ stsCache # sts
  /\ stsCache' = sts
  /\ UNCHANGED <<apiVars, pods, znode, crCache, behind, operatorVars, now,
                 progressAt, used>>

(* The lagging replica of the API server catches up; it matters only while *)
(* the operator may still restart and list from it.                        *)
CatchUp ==
  /\ StaleRestarts /\ used.crashes < MaxCrashes
  /\ behind # [cr |-> cr, sts |-> sts]
  /\ behind' = [cr |-> cr, sts |-> sts]
  /\ UNCHANGED <<apiVars, pods, znode, crCache, stsCache, operatorVars, now,
                 progressAt, used>>

(* The operator crashes and starts again: its pass is lost, and it fills   *)
(* its caches from a replica of the API server that may lag.               *)
Crash ==
  /\ Use("crashes")
  /\ EndPass
  /\ \/ crCache' = cr /\ stsCache' = sts
     \/ StaleRestarts /\ crCache' = behind.cr /\ stsCache' = behind.sts
  /\ UNCHANGED <<apiVars, pods, znode, behind, now, progressAt>>

Tick ==
  /\ now < MaxTime
  /\ now' = now + 1
  /\ UNCHANGED <<apiVars, pods, znode, cacheVars, operatorVars, progressAt,
                 used>>

(* The rollout of the current spec is over.                                *)
RolledOut ==
  /\ Exists(sts)
  /\ sts.replicas = cr.spec.replicas
  /\ sts.template = TemplateOf(cr.spec)
  /\ sts.status.currentRevision = sts.template
  /\ RolloutComplete(pods, sts.replicas, sts.template)

(* A patient user follows the README: she waits for PodsReady (134) and    *)
(* leaves the tag alone during an upgrade (287).                           *)
UserMayEdit ==
  PatientUser => /\ IsReady(cr.status)
                 /\ ~ IsUpgrading(cr.status)
                 /\ ~ cr.spec.triggerRollingRestart
                 /\ RolledOut

EditSpec(spec) ==
  /\ UserMayEdit
  /\ cr' = [cr EXCEPT !.rv = @ + 1, !.specRv = cr.rv + 1, !.spec = spec]
  /\ UNCHANGED <<sts, pods, znode, cacheVars, operatorVars, now, progressAt>>

EditReplicas ==
  \E n \in Size \ {cr.spec.replicas} :
    /\ Use("sizeEdits")
    /\ EditSpec([cr.spec EXCEPT !.replicas = n])

EditTag ==
  \E t \in Tag \ {cr.spec.tag} :
    /\ Use("tagEdits")
    /\ EditSpec([cr.spec EXCEPT !.tag = t])

RequestRestart ==
  /\ ~ cr.spec.triggerRollingRestart
  /\ Use("restartEdits")
  /\ EditSpec([cr.spec EXCEPT !.triggerRollingRestart = TRUE])

-----------------------------------------------------------------------------
(* The StatefulSet controller and the kubelets.  The controller writes the *)
(* status in the step that changes the pods; that it acts on an old spec   *)
(* shows in updateRevision, which is the template it last observed.        *)

SetPods(newPods, current, update) ==
  LET status == StatusOf(newPods, current, update)
  IN  /\ pods' = newPods
      /\ sts' = IF status = sts.status THEN sts
                ELSE [sts EXCEPT !.rv = @ + 1, !.status = status]
      /\ progressAt' = IF status.updatedReplicas = sts.status.updatedReplicas
                       THEN progressAt ELSE now
      /\ UNCHANGED <<cr, znode, cacheVars, operatorVars, now>>

UpdateRevision == sts.status.updateRevision

CurrentRevision == sts.status.currentRevision

(* The controller observes a new template; the first one is current.       *)
ObserveTemplate ==
  /\ Exists(sts)
  /\ UpdateRevision # sts.template
  /\ SetPods(pods,
             IF CurrentRevision = NoRevision THEN sts.template
             ELSE CurrentRevision,
             sts.template)
  /\ UNCHANGED used

PodCreated ==
  /\ Exists(sts)
  /\ CanCreatePod(pods, sts.replicas, UpdateRevision)
  /\ SetPods(CreatePod(pods, UpdateRevision), CurrentRevision, UpdateRevision)
  /\ UNCHANGED used

PodDeleted ==
  /\ CanDeletePod(pods, sts.replicas)
  /\ SetPods(DeletePod(pods), CurrentRevision, UpdateRevision)
  /\ UNCHANGED used

PodReplaced ==
  /\ CanRollPod(pods, sts.replicas, UpdateRevision)
  /\ SetPods(RollPod(pods, UpdateRevision), CurrentRevision, UpdateRevision)
  /\ UNCHANGED used

RolloutCompletes ==
  /\ Exists(sts)
  /\ CurrentRevision # UpdateRevision
  /\ RolloutComplete(pods, sts.replicas, UpdateRevision)
  /\ SetPods(pods, UpdateRevision, UpdateRevision)
  /\ UNCHANGED used

PodBecomesReady ==
  \E i \in DOMAIN pods :
    /\ ~ pods[i].ready
    /\ pods[i].revision.tag \notin BadTag
    /\ SetPods([pods EXCEPT ![i].ready = TRUE], CurrentRevision, UpdateRevision)
    /\ UNCHANGED used

(* A pod stops being ready, in place or because it is deleted and created  *)
(* again at the update revision.                                           *)
PodFails ==
  \E i \in DOMAIN pods, r \in {UpdateRevision, NoRevision} :
    /\ pods[i].ready
    /\ Use("podFailures")
    /\ SetPods([pods EXCEPT
                  ![i] = [revision |-> IF r = NoRevision THEN pods[i].revision
                                       ELSE r,
                          ready |-> FALSE]],
               CurrentRevision, UpdateRevision)

-----------------------------------------------------------------------------
Pass ==
  \/ RollingRestart \/ BeginPass
  \/ RecoverFailedUpgrade \/ StayFailed
  \/ CreateStatefulSet \/ RefuseStaleness \/ MetadataMissing
  \/ UpdateClusterSize \/ UpdateSameSize \/ UpdateNewSize
  \/ InitUpgrading \/ StartUpgrade \/ NoUpgrade \/ CompleteUpgrade
  \/ ReportProgress \/ FailUpgrade \/ AwaitProgress
  \/ SkipClusterStatus \/ CreateParentNode \/ CreateNode
  \/ WriteClusterStatus \/ ClusterStatusConflict

User == EditReplicas \/ EditTag \/ RequestRestart

StatefulSetController ==
  \/ ObserveTemplate \/ PodCreated \/ PodDeleted \/ PodReplaced
  \/ RolloutCompletes

Next ==
  \/ Pass \/ CallFails \/ Crash
  \/ SyncCrCache \/ SyncStsCache \/ CatchUp \/ Tick
  \/ User
  \/ StatefulSetController \/ PodBecomesReady \/ PodFails

(* Every pass is followed by another one, watches deliver, and Kubernetes  *)
(* makes progress; nobody has to edit, crash or fail.                      *)
Fairness ==
  /\ WF_vars(Pass)
  /\ WF_vars(SyncCrCache)
  /\ WF_vars(SyncStsCache)
  /\ WF_vars(StatefulSetController)
  /\ WF_vars(PodBecomesReady)

Spec == Init /\ [][Next]_vars

FairSpec == Spec /\ Fairness

-----------------------------------------------------------------------------
(* The types of the variables, and where the local copies are in scope.    *)
TypeOK ==
  /\ cr \in ClusterResource
  /\ sts \in StsResource
  /\ pods \in Seq(Pod)
  /\ znode \in [parent : BOOLEAN, size : Size \cup {NoSize}]
  /\ crCache \in ClusterResource
  /\ stsCache \in StsResource
  /\ behind \in [cr : ClusterResource, sts : StsResource]
  /\ pc \in {"idle", "statefulSet", "updateSts", "upgrade", "status",
             "createNode", "writeStatus"}
  /\ instance \in ClusterResource
  /\ foundSts \in StsResource
  /\ now \in Nat
  /\ progressAt \in Nat
  /\ used \in [DOMAIN Bounds -> Nat]

AppliedTo(spec) ==
  /\ sts.replicas = spec.replicas
  /\ sts.template = TemplateOf(spec)

(* A StatefulSet labelled with the version of the latest spec, or a later  *)
(* version, carries that spec: whatever caches served the operator and     *)
(* wherever it crashed, the label owner-rv is never ahead of the content   *)
(* it vouches for.                                                         *)
LatestSpecApplied ==
  Exists(sts) /\ sts.ownerRv >= cr.specRv => AppliedTo(cr.spec)

(* Once the StatefulSet follows the spec the user last wrote, only a new   *)
(* edit moves it: no stale pass brings back an older size, image or        *)
(* restart annotation (the staleness check of reconcileStatefulSet and     *)
(* the optimistic update together).                                        *)
NeverRollsBack ==
  [][Exists(sts) /\ sts.ownerRv >= cr.specRv /\ cr'.specRv = cr.specRv
       => UNCHANGED <<sts.replicas, sts.template>>]_vars

(* The operator writes a spec only to answer a request to restart that is  *)
(* still there, once, and then changes nothing else of it: no edit made    *)
(* since it read the CR is lost (the update of controller:98 replaces the  *)
(* whole spec by what a cache said).                                       *)
RestartKeepsEdits ==
  [][cr'.specRv # cr.specRv /\ UNCHANGED used
       => /\ cr.spec.triggerRollingRestart
          /\ cr'.spec = [cr.spec EXCEPT !.triggerRollingRestart = FALSE,
                                        !.restartTime = now]]_vars

(* The StatefulSet changes its size only when ZooKeeper already knows the  *)
(* new size, which the preStop script of a pod being removed reads; the    *)
(* runs that check it let no call fail.                                    *)
SizeAnnouncedFirst ==
  [][Exists(sts) /\ sts'.replicas # sts.replicas
       => znode.size = sts'.replicas]_vars

(* The three conditions and the two versions agree: an upgrade has a       *)
(* target and the cluster is not reported ready during it, and a failed    *)
(* upgrade is still an upgrade.                                            *)
UpgradeStateCoherent ==
  /\ IsUpgrading(cr.status) <=> cr.status.targetVersion # NoTag
  /\ IsUpgrading(cr.status) => ~ IsReady(cr.status)
  /\ IsUpgradeFailed(cr.status) => IsUpgrading(cr.status)

(* CurrentVersion is set once when the cluster first gets ready and        *)
(* afterwards only by the end of an upgrade, to the version the upgrade    *)
(* was for.                                                                *)
VersionChangesByUpgrade ==
  [][cr'.status.currentVersion # cr.status.currentVersion
       => \/ cr.status.currentVersion = NoTag
          \/ /\ IsUpgrading(cr.status) /\ ~ IsUpgrading(cr'.status)
             /\ cr'.status.currentVersion = cr.status.targetVersion]_vars

PodsRun(tag) == \A i \in DOMAIN pods : pods[i].revision.tag = tag

(* When an upgrade is reported complete every pod runs the new version:    *)
(* what the operator concludes from equal revisions in a status it read    *)
(* earlier is still so when the conclusion is written.                     *)
CompletedUpgradeRuns ==
  [][IsUpgrading(cr.status) /\ ~ IsUpgrading(cr'.status)
       => PodsRun(cr'.status.currentVersion)]_vars

(* An upgrade is declared failed only when no pod was updated for longer   *)
(* than the deadline, although the operator may have been down or have     *)
(* read old statuses in the meantime (a pod that is updated after the pass *)
(* read the StatefulSet comes too late).                                   *)
NoPrematureFailure ==
  [][~ IsUpgradeFailed(cr.status) /\ IsUpgradeFailed(cr'.status)
          /\ foundSts.rv = sts.rv
       => now > progressAt + Deadline]_vars

(* The script of a pod that terminates takes "CLUSTER_SIZE < MYID" to mean *)
(* that "this server is being permanantly removed" (zookeeperTeardown.sh:  *)
(* 44) and removes it from the ensemble: when a pod is replaced by a       *)
(* rolling update the znode says that the pod stays.                       *)
RemovalIsPermanent ==
  [][\A i \in DOMAIN pods \cap DOMAIN pods' :
       pods[i].revision # pods'[i].revision /\ znode.size # NoSize
         => \/ znode.size >= i
            \/ cr.spec.replicas < i]_vars

(* The metadata is recorded as created only when it is there.              *)
MetaRootExists ==
  cr.status.metaRootCreated => znode.parent /\ znode.size # NoSize

(* The operator implements the follower of SpecFollower: the label owner-rv*)
(* is the version the StatefulSet holds.                                   *)
Follower == INSTANCE SpecFollower WITH
  Wanted <- Size \X Template,
  version <- cr.rv,
  specVersion <- cr.specRv,
  wanted <- <<cr.spec.replicas, TemplateOf(cr.spec)>>,
  applied <- sts.ownerRv,
  holding <- <<sts.replicas, sts.template>>

FollowsSpec == Follower!Spec

(* The operator of a patient user implements SizeProtocol, whatever its    *)
(* caches serve, although calls fail and it crashes between two of them,   *)
(* unless LostWrites or StaleRestarts: a size that a pass writes to        *)
(* ZooKeeper is never one that was given up, and a pass that ended halfway *)
(* is made good by the next one.                                           *)
Sizes == INSTANCE SizeProtocol WITH
  wanted <- cr.spec.replicas,
  announced <- znode.size,
  size <- sts.replicas

AnnouncesSizes == Sizes!Spec

(* The inductive invariant behind LatestSpecApplied and FollowsSpec: the   *)
(* copies of an object at one resourceVersion agree, no copy is ahead of   *)
(* the API server, and a copy of the CR as recent as the latest edit has   *)
(* its spec.  The objects of the initial state count as copies: they are   *)
(* what the local variables hold when no pass is running.                  *)
CrCopies == {cr, crCache, behind.cr, instance, InitialCr}

StsCopies == {sts, stsCache, behind.sts, foundSts, NoSts}

CopiesAgree ==
  /\ cr.specRv <= cr.rv
  /\ \A c \in CrCopies : /\ c.rv <= cr.rv
                         /\ c.rv >= cr.specRv => c.spec = cr.spec
  /\ \A c, d \in CrCopies : c.rv = d.rv => c.spec = d.spec
  /\ \A s \in StsCopies : /\ s.rv <= sts.rv
                          /\ s.rv = sts.rv => s.ownerRv = sts.ownerRv

LabelVouches ==
  /\ sts.ownerRv <= cr.rv
  /\ ~ Exists(sts) => sts = NoSts /\ pods = <<>>
  /\ Exists(sts) => \A c \in CrCopies :
                      c.rv = sts.ownerRv => AppliedTo(c.spec)
  /\ pc = "updateSts" => Exists(foundSts) /\ ~ IsStale(instance, foundSts)

FollowerInv == CopiesAgree /\ LabelVouches /\ LatestSpecApplied

(* The inductive invariants behind CompletedUpgradeRuns and                *)
(* NoPrematureFailure, for a patient user.  RolloutInv is about rollouts:  *)
(* one at a time, of what the CR asks for, with pods of two revisions at   *)
(* most; the versions of the CR that may still reach the StatefulSet ask   *)
(* for what it holds or, from some version on, for what the CR asks.       *)
Asked(c) == <<c.spec.replicas, TemplateOf(c.spec)>>

Held == <<sts.replicas, sts.template>>

Writable == {c \in CrCopies : c.rv >= sts.ownerRv}

(* No rollout is under way, nor about to start without a write.            *)
Steady ==
  /\ CurrentRevision = sts.template
  /\ UpdateRevision = sts.template
  /\ Len(pods) = sts.replicas

AskedInOrder ==
  /\ \A c \in Writable : Asked(c) \in {Held, Asked(cr)}
  /\ \A c, d \in Writable :
       c.rv <= d.rv /\ Asked(c) = Asked(cr) => Asked(d) = Asked(cr)
  /\ Asked(cr) # Held => /\ Steady
                         /\ \/ cr.spec.replicas = sts.replicas
                            \/ TemplateOf(cr.spec) = sts.template
  /\ cr.spec.triggerRollingRestart => Steady /\ Asked(cr) = Held
  /\ ~ instance.spec.triggerRollingRestart

RevisionsInOrder ==
  /\ sts.status = StatusOf(pods, CurrentRevision, UpdateRevision)
  /\ UpdateRevision \in {CurrentRevision, sts.template}
  /\ CurrentRevision = NoRevision => pods = <<>> /\ UpdateRevision = NoRevision
  /\ \A i \in DOMAIN pods :
       pods[i].revision \in {CurrentRevision, UpdateRevision}
  /\ \/ UpdateRevision # CurrentRevision
     \/ UpdateRevision \notin {sts.template, NoRevision}
     => Len(pods) = sts.replicas

(* What upgradeStatefulSet reads in the StatefulSet it has just written    *)
(* stays so until it acts on it.                                           *)
Found == foundSts.status

ReadStays ==
  pc = "upgrade" =>
    /\ sts.ownerRv = instance.rv
    /\ Found.updateRevision \in {Found.currentRevision, sts.template}
    /\ Found.updateRevision = sts.template =>
         /\ UpdateRevision = sts.template
         /\ Found.currentRevision = sts.template
              => CurrentRevision = sts.template
         /\ CurrentRevision # UpdateRevision
              => Found.updatedReplicas <= sts.status.updatedReplicas

RolloutInv == AskedInOrder /\ RevisionsInOrder /\ ReadStays

(* An upgrade is to the version that the StatefulSet rolls out.  In the    *)
(* pass that concludes that it is over, it is over; and as long as it is   *)
(* not, the progress reported last is no older than it seems.              *)
CopiesExact ==
  /\ \A c \in {crCache, behind.cr} : c.rv = cr.rv => c = cr
  /\ \A s \in {stsCache, behind.sts, foundSts} : s.rv = sts.rv => s = sts
  /\ pc \in {"statefulSet", "updateSts", "upgrade"} /\ instance.rv = cr.rv
       => instance.status.conditions = cr.status.conditions

UpgradeIsRollout ==
  IsUpgrading(cr.status) =>
    /\ ~ cr.spec.triggerRollingRestart
    /\ cr.status.targetVersion = cr.spec.tag
    /\ Asked(cr) = Held
    /\ UpdateRevision = sts.template

EndIsEnd ==
  instance.rv = cr.rv /\ IsUpgrading(cr.status) =>
    /\ pc = "upgrade" => Found.updateRevision = sts.template
    /\ /\ pc \in {"status", "createNode", "writeStatus"}
       /\ ~ IsUpgrading(instance.status)
       => CurrentRevision = sts.template

ProgressReported ==
  LET reported == cr.status.conditions["Upgrading"]
  IN  /\ IsUpgrading(cr.status)
      /\ reported.reason = "Updating Zookeeper"
      /\ CurrentRevision # UpdateRevision
      => /\ reported.lastUpdate # Never
         /\ reported.message <= sts.status.updatedReplicas
         /\ reported.message = sts.status.updatedReplicas
              => progressAt <= reported.lastUpdate

UpgradeInv ==
  /\ CopiesExact /\ UpgradeIsRollout /\ EndIsEnd
  /\ Never < now /\ progressAt <= now
  /\ ProgressReported

(* The inductive invariant behind AnnouncesSizes.  Unless StaleRestarts no *)
(* pass works with a CR older than the StatefulSet; and once a pass has    *)
(* announced a size, all passes ask for it until it is applied.            *)
SizesInOrder ==
  /\ crCache.rv >= sts.ownerRv
  /\ pc \in {"statefulSet", "updateSts"} =>
       /\ sts.ownerRv <= instance.rv
       /\ instance.rv <= crCache.rv
  /\ znode.size = NoSize => cr.spec.replicas = sts.replicas
  /\ znode.size \notin {NoSize, sts.replicas} =>
       /\ znode.size = cr.spec.replicas
       /\ crCache.spec.replicas = znode.size
       /\ pc \in {"statefulSet", "updateSts"}
            => instance.spec.replicas = znode.size
  /\ pc \in {"upgrade", "status", "createNode"}
       => instance.spec.replicas = sts.replicas
  /\ pc = "createNode" => znode.size = NoSize
  /\ ~ znode.parent => znode.size = NoSize

(* The user's last spec is finally in the StatefulSet, for good.           *)
EventuallyApplied == <>[](Exists(sts) /\ AppliedTo(cr.spec))

(* The cluster finally reports that it is ready, for good.                 *)
EventuallyReady == <>[]IsReady(cr.status)

(* The user's last spec is finally in the StatefulSet and the cluster      *)
(* reports that all its pods are ready, both for good.                     *)
EventuallySettled == EventuallyApplied /\ EventuallyReady

(* Every upgrade ends.                                                     *)
UpgradeEnds == IsUpgrading(cr.status) ~> ~ IsUpgrading(cr.status)
=============================================================================
