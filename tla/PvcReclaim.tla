------------------------------ MODULE PvcReclaim ------------------------------
(***************************************************************************)
(* How the operator reclaims the volumes of a ZookeeperCluster             *)
(* (reconcileFinalizers and what it calls), from the first pass to the     *)
(* deletion of the cluster, with the StatefulSet whose pods hold the       *)
(* volumes, the user who scales and deletes the cluster and changes its    *)
(* reclaim policy, and the caches of the operator.                         *)
(*                                                                         *)
(* Of the rest of the pass it keeps what the volumes depend on: how the    *)
(* StatefulSet gets its size, or the pass ends because it cannot have it,  *)
(* and how Status.ReadyReplicas is written.  ZookeeperClusterController    *)
(* models that part whole, with the upgrades that are left out here.       *)
(***************************************************************************)
EXTENDS Integers, FiniteSets

CONSTANTS
  MaxReplicas,       \* the largest spec.replicas
  InitialReplicas,
  InitialPolicy,
  DisableFinalizer,  \* the operator's switch of that name
  MaxEdits,          \* bound on the edits of the spec
  MaxPolicyEdits,    \* bound on those edits that change the policy
  MaxDeletions,
  MaxFaults,         \* bound on failed calls, failed pods and restarts of the
                     \* operator, together
  MaxStaleRestarts,  \* bound on those restarts that list from a replica of the
                     \* API server that lags
  PatientUser        \* the user waits until the last edit has settled

ASSUME ReplicasAssumption ==
  /\ MaxReplicas \in Nat \ {0}
  /\ InitialReplicas \in 1 .. MaxReplicas
ASSUME PolicyAssumption == InitialPolicy \in {"Delete", "Retain", "None"}
ASSUME SwitchAssumption == {DisableFinalizer, PatientUser} \subseteq BOOLEAN
ASSUME BoundsAssumption ==
  {MaxEdits, MaxPolicyEdits, MaxDeletions, MaxFaults, MaxStaleRestarts}
    \subseteq Nat

VARIABLES
  cr,         \* the ZookeeperCluster in the API server
  sts,        \* the StatefulSet in the API server
  pods,       \* ordinals of the pods
  ready,      \* ordinals of the pods that are ready
  claims,     \* PVCs by ordinal: none, bound, or deleted but still in use
  znode,      \* the metadata of the cluster is in ZooKeeper
  crCache,    \* the CR as the operator's informer knows it
  claimCache, \* ordinals of the PVCs the operator's informer knows
  stsKnown,   \* the operator's informer has the StatefulSet as it is
  behind,     \* an earlier state of the API server, which a lagging replica
              \* of it serves
  pc,         \* the step the pass is at
  instance,   \* Reconcile's local copy of the CR
  toDelete,   \* the PVCs the loop has left to delete
  used        \* how much of each bound is used up

vars == <<cr, sts, pods, ready, claims, znode, crCache, claimCache, stsKnown,
          behind, pc, instance, toDelete, used>>
workload == <<sts, pods, ready>>
caches   == <<crCache, claimCache, stsKnown, behind>>
pass     == <<pc, instance, toDelete>>

Ordinal == 0 .. MaxReplicas - 1

(* "None" when the spec has no section of persistence.                     *)
Policy == {"Delete", "Retain", "None"}

(* A deleted CR stays, marked as deleting, until it has no finalizer; then *)
(* it is no longer alive.                                                  *)
ClusterResource == [rv : Nat, alive : BOOLEAN, deleting : BOOLEAN,
                    finalizer : BOOLEAN, policy : Policy,
                    replicas : 1 .. MaxReplicas, readyReplicas : Nat,
                    metaRootCreated : BOOLEAN]

InitialCr == [rv |-> 1, alive |-> TRUE, deleting |-> FALSE,
              finalizer |-> FALSE, policy |-> InitialPolicy,
              replicas |-> InitialReplicas, readyReplicas |-> 0,
              metaRootCreated |-> FALSE]

(* ownerRv is the label owner-rv; no object has resourceVersion 0.         *)
NoSts == [exists |-> FALSE, replicas |-> InitialReplicas, ownerRv |-> 0]

(* What an API server knew before the first pass.                          *)
AtFirst == [cr |-> InitialCr, claims |-> {}]

Bounds == [edits |-> MaxEdits, policyEdits |-> MaxPolicyEdits,
           deletions |-> MaxDeletions, faults |-> MaxFaults,
           staleRestarts |-> MaxStaleRestarts]

Init ==
  /\ cr = InitialCr
  /\ sts = NoSts
  /\ pods = {}
  /\ ready = {}
  /\ claims = [i \in Ordinal |-> "none"]
  /\ znode = FALSE
  /\ crCache = cr
  /\ claimCache = {}
  /\ stsKnown = TRUE
  /\ behind = AtFirst
  /\ pc = "idle"
  /\ instance = InitialCr
  /\ toDelete = {}
  /\ used = [b \in DOMAIN Bounds |-> 0]

Use(b) ==
  /\ used[b] < Bounds[b]
  /\ used' = [used EXCEPT ![b] = @ + 1]

-----------------------------------------------------------------------------
(* The pass.                                                               *)

EndPass ==
  /\ pc' = "idle"
  /\ instance' = InitialCr
  /\ toDelete' = {}

GoTo(next) ==
  /\ pc' = next
  /\ UNCHANGED <<instance, toDelete>>

BeginPass ==
  /\ pc = "idle"
  /\ crCache.alive
  /\ instance' = crCache
  /\ pc' = "finalizers"
  /\ UNCHANGED <<cr, workload, claims, znode, caches, toDelete, used>>

InFinalizers == pc = "finalizers"

(* Without a policy the volumes are reclaimed too.                         *)
Reclaims(zk) == zk.policy # "Retain"

SkipFinalizers ==
  /\ InFinalizers
  /\ \/ ~ Reclaims(instance)
     \/ instance.deleting /\ ~ instance.finalizer
  /\ GoTo("statefulSet")
  /\ UNCHANGED <<cr, workload, claims, znode, caches, used>>

(* Mutant: the finalizer waits for the cluster to be ready.                *)
NeedsFinalizerOnceReady ==
  /\ Reclaims(instance)
  /\ ~ instance.deleting
  /\ ~ instance.finalizer
  /\ ~ DisableFinalizer
  /\ instance.readyReplicas = instance.replicas

NeedsFinalizer ==
  /\ Reclaims(instance)
  /\ ~ instance.deleting
  /\ ~ instance.finalizer
  /\ ~ DisableFinalizer

AddFinalizer ==
  /\ InFinalizers
  /\ NeedsFinalizer
  /\ \/ /\ cr.alive /\ instance.rv = cr.rv
        /\ cr' = [cr EXCEPT !.rv = @ + 1, !.finalizer = TRUE]
        /\ instance' = cr'
        /\ pc' = "orphans"
        /\ UNCHANGED toDelete
     \/ /\ ~ (cr.alive /\ instance.rv = cr.rv)
        /\ EndPass
        /\ UNCHANGED cr
  /\ UNCHANGED <<workload, claims, znode, caches, used>>

(* Mutant: ordinals counted from 1.                                        *)
IsPVCOrphanFromOne(i, replicas) == i > replicas

(* IsPVCOrphan: the ordinal at the end of the PVC's name.                  *)
IsPVCOrphan(i, replicas) == i >= replicas

(* Mutant: the StatefulSet may still have to scale down.                   *)
OrphansAtOnce == {i \in claimCache : IsPVCOrphan(i, instance.replicas)}

Orphans ==
  IF /\ instance.readyReplicas = instance.replicas
     /\ Cardinality(claimCache) > instance.replicas
  THEN {i \in claimCache : IsPVCOrphan(i, instance.replicas)}
  ELSE {}

CleanupOrphanPVCs ==
  /\ \/ pc = "orphans"
     \/ /\ InFinalizers
        /\ Reclaims(instance)
        /\ ~ instance.deleting
        /\ ~ NeedsFinalizer
  /\ toDelete' = Orphans
  /\ pc' = "deletePVCs"
  /\ UNCHANGED <<cr, workload, claims, znode, caches, instance, used>>

CleanUpAllPVCs ==
  /\ InFinalizers
  /\ Reclaims(instance)
  /\ instance.deleting
  /\ instance.finalizer
  /\ toDelete' = claimCache
  /\ pc' = "deletePVCs"
  /\ UNCHANGED <<cr, workload, claims, znode, caches, instance, used>>

(* A PVC that a pod uses outlives its deletion until the pod is gone       *)
(* (the pvc-protection finalizer of Kubernetes).                           *)
MarkDeleted(i) ==
  IF claims[i] = "none" THEN "none"
  ELSE IF i \in pods THEN "deleted" ELSE "none"

(* An error of the deletion is logged and dropped.                         *)
DeletePVC ==
  /\ pc = "deletePVCs"
  /\ \E i \in toDelete :
       /\ toDelete' = toDelete \ {i}
       /\ \/ /\ claims' = [claims EXCEPT ![i] = MarkDeleted(i)]
             /\ UNCHANGED used
          \/ /\ Use("faults")
             /\ UNCHANGED claims
  /\ UNCHANGED <<cr, workload, znode, caches, pc, instance>>

OrphansDeleted ==
  /\ pc = "deletePVCs"
  /\ toDelete = {}
  /\ ~ instance.deleting
  /\ GoTo("statefulSet")
  /\ UNCHANGED <<cr, workload, claims, znode, caches, used>>

(* Mutant: the finalizer waits for the volumes to be gone, which pods hold *)
(* that go only after the CR.                                              *)
RemoveFinalizerWhenGone ==
  /\ pc = "deletePVCs"
  /\ toDelete = {}
  /\ claimCache = {}
  /\ instance.deleting
  /\ \/ /\ cr.alive /\ instance.rv = cr.rv
        /\ cr' = [cr EXCEPT !.rv = @ + 1, !.finalizer = FALSE, !.alive = FALSE]
        /\ GoTo("statefulSet")
     \/ /\ ~ (cr.alive /\ instance.rv = cr.rv)
        /\ EndPass
        /\ UNCHANGED cr
  /\ UNCHANGED <<workload, claims, znode, caches, used>>

(* A CR that is being deleted goes away with its last finalizer; the pass  *)
(* goes on with the rest of the pipeline.                                  *)
RemoveFinalizer ==
  /\ pc = "deletePVCs"
  /\ toDelete = {}
  /\ instance.deleting
  /\ \/ /\ cr.alive /\ instance.rv = cr.rv
        /\ cr' = [cr EXCEPT !.rv = @ + 1, !.finalizer = FALSE, !.alive = FALSE]
        /\ GoTo("statefulSet")
     \/ /\ ~ (cr.alive /\ instance.rv = cr.rv)
        /\ EndPass
        /\ UNCHANGED cr
  /\ UNCHANGED <<workload, claims, znode, caches, used>>

(* A call fails and its error ends the pass.                               *)
CallFails ==
  /\ pc # "idle"
  /\ Use("faults")
  /\ EndPass
  /\ UNCHANGED <<cr, workload, claims, znode, caches>>

-----------------------------------------------------------------------------
(* reconcileStatefulSet and reconcileClusterStatus.                        *)

(* compareResourceVersion < 0: the CR at hand is older than the one the    *)
(* StatefulSet was last synchronized with.                                 *)
IsStale(zk) == zk.rv < sts.ownerRv

Resizes == sts.exists /\ instance.replicas # sts.replicas

(* While a member is not ready ZooKeeper may have no quorum.               *)
ZooKeeperMayFail == ready # 0 .. sts.replicas - 1

(* The StatefulSet keeps its size and the pass ends: the cached copy of it *)
(* is not the current one, which AlreadyExists, NotFound or a conflict     *)
(* tell; or the CR is stale; or ZooKeeper does not take the new size.      *)
StatefulSetFails ==
  /\ pc = "statefulSet"
  /\ \/ ~ stsKnown
     \/ IsStale(instance)
     \/ Resizes /\ (~ znode \/ ZooKeeperMayFail)
  /\ EndPass
  /\ UNCHANGED <<cr, workload, claims, znode, caches, used>>

(* Mutant: the last ordinal is taken for the size.                         *)
SyncStatefulSetLastOrdinal ==
  /\ pc = "statefulSet"
  /\ sts' = [exists |-> TRUE, replicas |-> instance.replicas - 1,
             ownerRv |-> instance.rv]
  /\ pc' = "status"
  /\ UNCHANGED <<cr, pods, ready, claims, znode, caches, instance, toDelete,
                 used>>

(* reconcileStatefulSet creates or resizes the StatefulSet, labels it with *)
(* the version of the CR, and copies its ReadyReplicas.                    *)
SyncStatefulSet ==
  /\ pc = "statefulSet"
  /\ stsKnown
  /\ ~ IsStale(instance)
  /\ Resizes => znode
  /\ sts' = [exists |-> TRUE, replicas |-> instance.replicas,
             ownerRv |-> instance.rv]
  /\ stsKnown' = (sts' = sts)
  /\ instance' = IF sts.exists
                 THEN [instance EXCEPT !.readyReplicas = Cardinality(ready)]
                 ELSE instance
  /\ pc' = "status"
  /\ UNCHANGED <<cr, pods, ready, claims, znode, crCache, claimCache, behind,
                 toDelete, used>>

AllReady(zk) == zk.readyReplicas = zk.replicas

MetaRootDue == AllReady(instance) /\ ~ instance.metaRootCreated

(* The metadata is created when all members are ready for the first time;  *)
(* znodes that exist are an error.                                         *)
CreateMetadata ==
  /\ pc = "status"
  /\ MetaRootDue
  /\ \/ /\ ~ znode
        /\ znode' = TRUE
        /\ instance' = [instance EXCEPT !.metaRootCreated = TRUE]
        /\ UNCHANGED <<pc, toDelete>>
     \/ /\ znode \/ ZooKeeperMayFail
        /\ EndPass
        /\ UNCHANGED znode
  /\ UNCHANGED <<cr, workload, claims, caches, used>>

Reported ==
  [cr EXCEPT !.readyReplicas = instance.readyReplicas,
             !.metaRootCreated = instance.metaRootCreated]

(* Status().Update: a conflict, or a CR that is gone, is an error that     *)
(* ends the pass all the same.                                             *)
WriteStatus ==
  /\ pc = "status"
  /\ ~ MetaRootDue
  /\ cr' = IF cr.alive /\ instance.rv = cr.rv /\ Reported # cr
           THEN [Reported EXCEPT !.rv = @ + 1]
           ELSE cr
  /\ EndPass
  /\ UNCHANGED <<workload, claims, znode, caches, used>>

-----------------------------------------------------------------------------
(* Caches, Kubernetes and the user.                                        *)

Held == {i \in Ordinal : claims[i] # "none"}

Current == [cr |-> cr, claims |-> Held]

SyncCrCache ==
  /\ crCache # cr
  /\ crCache' = cr
  /\ UNCHANGED <<cr, workload, claims, znode, claimCache, stsKnown, behind, pass,
                 used>>

SyncClaimCache ==
  /\ claimCache # Held
  /\ claimCache' = Held
  /\ UNCHANGED <<cr, workload, claims, znode, crCache, stsKnown, behind, pass,
                 used>>

SyncStsCache ==
  /\ ~ stsKnown
  /\ stsKnown' = TRUE
  /\ UNCHANGED <<cr, workload, claims, znode, crCache, claimCache, behind, pass,
                 used>>

(* The lagging replica of the API server catches up; it matters only while *)
(* the operator may still restart and list from it.                        *)
CatchUp ==
  /\ used.faults < MaxFaults
  /\ used.staleRestarts < MaxStaleRestarts
  /\ behind # Current
  /\ behind' = Current
  /\ UNCHANGED <<cr, workload, claims, znode, crCache, claimCache, stsKnown, pass,
                 used>>

RestartFrom(server) ==
  /\ crCache' = server.cr
  /\ claimCache' = server.claims

(* The operator crashes and starts again: its pass is lost, and it fills   *)
(* its caches from the API server, or from a replica that lags; the next   *)
(* time that may be another one, behind this one.                          *)
Crash ==
  /\ Use("faults")
  /\ EndPass
  /\ RestartFrom(Current)
  /\ stsKnown' = TRUE
  /\ UNCHANGED <<cr, workload, claims, znode, behind>>

StaleRestart ==
  /\ used.faults < MaxFaults
  /\ used.staleRestarts < MaxStaleRestarts
  /\ used' = [used EXCEPT !.faults = @ + 1, !.staleRestarts = @ + 1]
  /\ EndPass
  /\ RestartFrom(behind)
  /\ stsKnown' = FALSE
  /\ behind' = AtFirst
  /\ UNCHANGED <<cr, workload, claims, znode>>

(* Whatever happens to the pods, the StatefulSet gets a new status, which  *)
(* the informer has yet to deliver.                                        *)
NewStatus ==
  /\ stsKnown' = FALSE
  /\ UNCHANGED <<cr, sts, znode, crCache, claimCache, behind, pass>>

(* The StatefulSet controller creates the claim of a pod before the pod,   *)
(* and waits for a claim that is being deleted to be gone.                 *)
CreatePod ==
  \E i \in Ordinal :
    /\ sts.exists
    /\ i < sts.replicas
    /\ i \notin pods
    /\ \A j \in 0 .. i - 1 : j \in ready
    /\ claims[i] # "deleted"
    /\ claims' = [claims EXCEPT ![i] = "bound"]
    /\ pods' = pods \cup {i}
    /\ NewStatus
    /\ UNCHANGED <<ready, used>>

PodGone(i) ==
  /\ pods' = pods \ {i}
  /\ ready' = ready \ {i}
  /\ claims' = [claims EXCEPT ![i] = IF @ = "deleted" THEN "none" ELSE @]

DeletePod ==
  \E i \in pods :
    /\ \A j \in pods : j <= i
    /\ \/ ~ sts.exists
       \/ /\ i >= sts.replicas
          /\ \A j \in 0 .. sts.replicas - 1 : j \in ready
    /\ PodGone(i)
    /\ NewStatus
    /\ UNCHANGED used

PodBecomesReady ==
  \E i \in pods \ ready :
    /\ ready' = ready \cup {i}
    /\ NewStatus
    /\ UNCHANGED <<pods, claims, used>>

(* A pod stops being ready, or is evicted and will be created again.       *)
PodFails ==
  \E i \in ready :
    /\ Use("faults")
    /\ \/ ready' = ready \ {i} /\ UNCHANGED <<pods, claims>>
       \/ PodGone(i)
    /\ NewStatus

(* The garbage collector deletes the StatefulSet of a CR that is gone.     *)
CollectGarbage ==
  /\ ~ cr.alive
  /\ sts.exists
  /\ sts' = NoSts
  /\ stsKnown' = FALSE
  /\ UNCHANGED <<cr, pods, ready, claims, znode, crCache, claimCache, behind, pass,
                 used>>

Settled ==
  /\ sts.exists
  /\ sts.replicas = cr.replicas
  /\ cr.readyReplicas = cr.replicas
  /\ pods = 0 .. cr.replicas - 1
  /\ ready = pods

UserMayAct ==
  /\ cr.alive
  /\ ~ cr.deleting
  /\ PatientUser => Settled

EditReplicas ==
  /\ UserMayAct
  /\ Use("edits")
  /\ \E n \in 1 .. MaxReplicas \ {cr.replicas} :
       cr' = [cr EXCEPT !.rv = @ + 1, !.replicas = n]
  /\ UNCHANGED <<workload, claims, znode, caches, pass>>

EditPolicy ==
  /\ UserMayAct
  /\ used.edits < MaxEdits
  /\ used.policyEdits < MaxPolicyEdits
  /\ used' = [used EXCEPT !.edits = @ + 1, !.policyEdits = @ + 1]
  /\ \E p \in Policy \ {cr.policy} :
       cr' = [cr EXCEPT !.rv = @ + 1, !.policy = p]
  /\ UNCHANGED <<workload, claims, znode, caches, pass>>

DeleteCluster ==
  /\ UserMayAct
  /\ Use("deletions")
  /\ cr' = [cr EXCEPT !.rv = @ + 1, !.deleting = TRUE, !.alive = cr.finalizer]
  /\ UNCHANGED <<workload, claims, znode, caches, pass>>

-----------------------------------------------------------------------------
Pass ==
  \/ BeginPass \/ SkipFinalizers \/ AddFinalizer
  \/ CleanupOrphanPVCs \/ CleanUpAllPVCs \/ DeletePVC \/ OrphansDeleted
  \/ RemoveFinalizer \/ StatefulSetFails \/ SyncStatefulSet
  \/ CreateMetadata \/ WriteStatus

User == EditReplicas \/ EditPolicy \/ DeleteCluster

Kubernetes == CreatePod \/ DeletePod \/ PodBecomesReady \/ CollectGarbage

(* After the CR is gone and the last pass is over nothing is left to do.   *)
Next ==
  \/ Pass \/ CallFails \/ Crash \/ StaleRestart
  \/ SyncCrCache \/ SyncClaimCache \/ SyncStsCache \/ CatchUp
  \/ Kubernetes \/ PodFails
  \/ User

Spec == Init /\ [][Next]_vars

(* Passes follow each other, watches deliver, Kubernetes makes progress.   *)
FairSpec == Spec /\ WF_vars(Pass) /\ WF_vars(SyncCrCache)
                 /\ WF_vars(SyncClaimCache) /\ WF_vars(SyncStsCache)
                 /\ WF_vars(Kubernetes)

-----------------------------------------------------------------------------
TypeOK ==
  /\ cr \in ClusterResource
  /\ sts \in [exists : BOOLEAN, replicas : 1 .. MaxReplicas, ownerRv : Nat]
  /\ pods \subseteq Ordinal
  /\ ready \subseteq pods
  /\ claims \in [Ordinal -> {"none", "bound", "deleted"}]
  /\ crCache \in ClusterResource
  /\ claimCache \subseteq Ordinal
  /\ {znode, stsKnown} \subseteq BOOLEAN
  /\ behind \in [cr : ClusterResource, claims : SUBSET Ordinal]
  /\ pc \in {"idle", "finalizers", "orphans", "deletePVCs", "statefulSet",
             "status"}
  /\ instance \in ClusterResource
  /\ toDelete \subseteq Ordinal
  /\ used \in [DOMAIN Bounds -> Nat]

(* No PVC is deleted, while the cluster lives, before the StatefulSet has  *)
(* scaled down below its ordinal: "this check should make sure we do not   *)
(* delete the PVCs before the STS has scaled down" (controller:737).       *)
OrphansAfterScaleDown ==
  [][\A i \in Ordinal :
       claims[i] = "bound" /\ claims'[i] # "bound" /\ ~ cr.deleting
         => i >= sts.replicas]_vars

(* The same but for the one case where lagging caches can defeat it, a     *)
(* pass on a CR older than the StatefulSet was made from, after a restart  *)
(* onto a lagging replica: reconcileStatefulSet would refuse that pass as  *)
(* stale (controller:242), but reconcileFinalizers comes first (104).      *)
CurrentPassesWait ==
  [][\A i \in Ordinal :
       /\ claims[i] = "bound" /\ claims'[i] # "bound" /\ ~ cr.deleting
       /\ used.staleRestarts = 0 \/ ~ IsStale(instance)
       => i >= sts.replicas]_vars

(* The volumes of a cluster whose policy was never changed and is not      *)
(* Retain never exist without the finalizer that will reclaim them, so no  *)
(* deletion of the cluster, at any moment, can forget them.                *)
ClaimsGuarded ==
  cr.alive /\ cr.policy # "Retain" /\ used.policyEdits = 0 /\ Held # {}
    => cr.finalizer \/ DisableFinalizer

(* When the user stops editing, the volumes left over from a larger size   *)
(* are reclaimed, even if a deletion fails.                                *)
EventuallyReclaimed ==
  <>[](cr.alive /\ ~ cr.deleting /\ cr.policy # "Retain"
         => \A i \in Ordinal : i >= cr.replicas => claims[i] = "none")

(* A deletion of the cluster ends, whatever the user did before and        *)
(* whatever fails, unless the finalizer was set and then the policy became *)
(* Retain: reconcileFinalizers does not come to the finalizer any more.    *)
DeletionCompletes ==
  cr.deleting /\ ~ (cr.finalizer /\ cr.policy = "Retain") ~> ~ cr.alive

(* When the operator deletes the volumes of a cluster that is deleted, and *)
(* knows all of them, they go: "If it's set to Delete, the corresponding   *)
(* PVCs will be deleted by the operator when zookeeper cluster is deleted" *)
(* (zookeepercluster_types.go:738-739).                                    *)
VolumesGoWithCluster ==
  pc = "deletePVCs" /\ instance.deleting /\ toDelete = Held
    ~> \A i \in Ordinal : claims[i] = "none"
=============================================================================
