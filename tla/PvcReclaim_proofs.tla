-------------------------- MODULE PvcReclaim_proofs --------------------------
(***************************************************************************)
(* Proofs about PvcReclaim, for all sizes, policies and numbers of events: *)
(* its types, the finalizer that guards the volumes, and, when the user    *)
(* waits between edits, that volumes go only after the scale-down, unless  *)
(* a restart has taken the pass back behind the StatefulSet.               *)
(***************************************************************************)
EXTENDS PvcReclaim, FiniteSetTheorems, TLAPS

(* The versions of the CR that somebody may still read: the operator, or a *)
(* replica of the API server that lags.                                    *)
Copies == {cr, crCache, behind.cr, instance, InitialCr}

-----------------------------------------------------------------------------
(* What guards the volumes.                                                *)

(* The finalizer of the CR goes only with the CR.                          *)
FinalizerLasts ==
  \A c \in Copies : c.finalizer => cr.finalizer \/ ~ cr.alive

(* A CR that is being deleted lives only as long as its finalizer.         *)
DeletingIsHeld ==
  \A c \in Copies : c.alive /\ c.deleting => c.finalizer

PolicyKept ==
  used.policyEdits = 0 =>
    \A c \in Copies : c.policy = InitialPolicy

(* The policy asks for the finalizer and always did.                       *)
MustGuard ==
  InitialPolicy # "Retain" /\ used.policyEdits = 0 /\ ~ DisableFinalizer

PassGuards ==
  MustGuard /\ pc \in {"orphans", "deletePVCs", "statefulSet"}
    => instance.finalizer

WorkloadGuarded ==
  MustGuard /\ (sts.exists \/ Held # {}) => cr.finalizer \/ ~ cr.alive

GuardInv ==
  /\ instance.alive
  /\ FinalizerLasts /\ DeletingIsHeld /\ PolicyKept
  /\ PassGuards /\ WorkloadGuarded

-----------------------------------------------------------------------------
(* What the sizes mean when the user waits between edits.                  *)

CopiesAgree ==
  /\ cr.alive \/ cr.deleting
  /\ sts.ownerRv <= cr.rv
  /\ \A c \in Copies : c.rv <= cr.rv /\ (c.deleting => cr.deleting)
  /\ \A c, d \in Copies : c.rv = d.rv => c.replicas = d.replicas

(* What a copy that is not older than the StatefulSet says of the sizes: a *)
(* copy that says that all are ready has the StatefulSet's size, and so    *)
(* has every copy before it.                                               *)
Fresh == {c \in Copies : ~ IsStale(c)}

FreshReadyMeansSized ==
  \A c \in Fresh : AllReady(c) => sts.replicas = c.replicas

FreshReadyMeansKnown ==
  \A c, d \in Fresh : AllReady(c) /\ d.rv <= c.rv => d.replicas = c.replicas

LabelledNow == pc = "status" => sts.ownerRv = instance.rv

OrphansAreBeyond ==
  pc = "deletePVCs" /\ ~ instance.deleting /\ toDelete # {} =>
    AllReady(instance) /\ \A i \in toDelete : i >= instance.replicas

(* While no restart has taken the caches back, that is so of every copy    *)
(* the operator has, be it stale or not.                                   *)
InPass == pc # "idle"

ReadyMeansSized ==
  \A c \in {cr, crCache} : AllReady(c) => sts.replicas = c.replicas

(* When the CR says that all are ready, no copy has another size.          *)
ReadyMeansKnown ==
  AllReady(cr) =>
    /\ crCache.replicas = cr.replicas
    /\ InPass => instance.replicas = cr.replicas

PassFollows ==
  InPass =>
    /\ AllReady(instance) => sts.replicas = instance.replicas
    /\ AllReady(crCache) => instance.replicas = crCache.replicas
    /\ instance.replicas = cr.replicas => crCache.replicas = cr.replicas

NeverBackInv == ReadyMeansSized /\ ReadyMeansKnown /\ PassFollows

SizesInv ==
  /\ CopiesAgree
  /\ OrphansAreBeyond
  /\ ~ cr.deleting =>
       /\ LabelledNow /\ FreshReadyMeansSized /\ FreshReadyMeansKnown
       /\ used.staleRestarts = 0 => NeverBackInv
-----------------------------------------------------------------------------
(* The number of the pods that are ready is a number.                      *)
LEMMA ReadyCounts ==
  ASSUME NEW S \in SUBSET Ordinal
  PROVE  Cardinality(S) \in Nat
<1>1. MaxReplicas \in Nat
  BY ReplicasAssumption
<1>2. IsFiniteSet(Ordinal)
  BY <1>1, FS_Interval DEF Ordinal
<1>. QED
  BY <1>2, FS_Subset, FS_CardinalityType

(* The API server makes a new version of a CR by changing its fields.      *)
LEMMA Republished ==
  ASSUME cr \in ClusterResource
  PROVE  /\ [cr EXCEPT !.rv = @ + 1, !.finalizer = TRUE] \in ClusterResource
         /\ [cr EXCEPT !.rv = @ + 1, !.finalizer = FALSE, !.alive = FALSE]
              \in ClusterResource
         /\ \A n \in Nat, b \in BOOLEAN :
              /\ [cr EXCEPT !.readyReplicas = n, !.metaRootCreated = b]
                   \in ClusterResource
              /\ [[cr EXCEPT !.readyReplicas = n, !.metaRootCreated = b]
                    EXCEPT !.rv = @ + 1] \in ClusterResource
         /\ \A n \in 1 .. MaxReplicas :
              [cr EXCEPT !.rv = @ + 1, !.replicas = n] \in ClusterResource
         /\ \A p \in Policy :
              [cr EXCEPT !.rv = @ + 1, !.policy = p] \in ClusterResource
         /\ \A b \in BOOLEAN :
              [cr EXCEPT !.rv = @ + 1, !.deleting = TRUE, !.alive = b]
                \in ClusterResource
<1>. DEFINE Size == 1 .. MaxReplicas
<1>1. ClusterResource = [rv : Nat, alive : BOOLEAN, deleting : BOOLEAN,
                         finalizer : BOOLEAN, policy : Policy,
                         replicas : Size, readyReplicas : Nat,
                         metaRootCreated : BOOLEAN]
  BY DEF ClusterResource
<1>. HIDE DEF Size
<1>2. cr.rv + 1 \in Nat
  BY <1>1
<1>. QED
  BY <1>1, <1>2 DEF Size

LEMMA UseTyped ==
  ASSUME used \in [DOMAIN Bounds -> Nat], NEW b \in DOMAIN Bounds, Use(b)
  PROVE  used' \in [DOMAIN Bounds -> Nat]
<1>1. used[b] + 1 \in Nat
  OBVIOUS
<1>. QED
  BY <1>1 DEF Use

LEMMA InitTypeOK == Init => TypeOK
<1>. SUFFICES ASSUME Init PROVE TypeOK
  OBVIOUS
<1>1. InitialCr \in ClusterResource
  BY ReplicasAssumption, PolicyAssumption
  DEF InitialCr, ClusterResource, Policy
<1>. QED
  BY <1>1, ReplicasAssumption DEF Init, TypeOK, Ordinal, NoSts, AtFirst

(* Every step keeps the types.                                             *)
LEMMA StepTypeOK == TypeOK /\ [Next]_vars => TypeOK'
<1>. SUFFICES ASSUME TypeOK, [Next]_vars PROVE TypeOK'
  OBVIOUS
<1>. InitialCr \in ClusterResource
  BY ReplicasAssumption, PolicyAssumption
  DEF InitialCr, ClusterResource, Policy
<1>. {"edits", "policyEdits", "faults", "deletions", "staleRestarts"}
          = DOMAIN Bounds
  BY DEF Bounds
<1>. USE DEF TypeOK, workload, caches, pass, NewStatus
<1>1. CASE BeginPass
  BY <1>1 DEF BeginPass
<1>2. CASE SkipFinalizers
  BY <1>2 DEF SkipFinalizers, GoTo
<1>3. CASE AddFinalizer
  <2>1. cr' \in ClusterResource
    BY <1>3, Republished DEF AddFinalizer
  <2>. QED
    BY <1>3, <2>1 DEF AddFinalizer, EndPass
<1>4. CASE CleanupOrphanPVCs
  BY <1>4 DEF CleanupOrphanPVCs, Orphans
<1>5. CASE CleanUpAllPVCs
  BY <1>5 DEF CleanUpAllPVCs
<1>6. CASE DeletePVC
  BY <1>6 DEF DeletePVC, MarkDeleted, Use
<1>7. CASE OrphansDeleted
  BY <1>7 DEF OrphansDeleted, GoTo
<1>8. CASE RemoveFinalizer
  <2>1. cr' \in ClusterResource
    BY <1>8, Republished DEF RemoveFinalizer
  <2>. QED
    BY <1>8, <2>1 DEF RemoveFinalizer, EndPass, GoTo
<1>9. CASE StatefulSetFails
  BY <1>9 DEF StatefulSetFails, EndPass
<1>10. CASE SyncStatefulSet
  <2>1. Cardinality(ready) \in Nat
    BY ReadyCounts
  <2>2. instance' \in ClusterResource
    BY <1>10, <2>1 DEF SyncStatefulSet, ClusterResource
  <2>3. sts' \in [exists : BOOLEAN, replicas : 1 .. MaxReplicas, ownerRv : Nat]
    BY <1>10 DEF SyncStatefulSet, ClusterResource
  <2>. QED
    BY <1>10, <2>2, <2>3 DEF SyncStatefulSet
<1>11. CASE CreateMetadata
  <2>1. [instance EXCEPT !.metaRootCreated = TRUE] \in ClusterResource
    BY DEF ClusterResource
  <2>2. instance' \in ClusterResource
    BY <1>11, <2>1 DEF CreateMetadata, EndPass
  <2>. QED
    BY <1>11, <2>2 DEF CreateMetadata, EndPass
<1>12. CASE WriteStatus
  <2>1. instance.readyReplicas \in Nat /\ instance.metaRootCreated \in BOOLEAN
    BY DEF ClusterResource
  <2>2. cr' \in {cr, [Reported EXCEPT !.rv = @ + 1]}
    BY <1>12 DEF WriteStatus
  <2>3. cr \in ClusterResource /\ [Reported EXCEPT !.rv = @ + 1] \in ClusterResource
    BY <2>1, Republished, Zenon DEF Reported, TypeOK
  <2>4. cr' \in ClusterResource
    BY <2>2, <2>3
  <2>. QED
    BY <1>12, <2>4 DEF WriteStatus, EndPass
<1>13. CASE CallFails
  BY <1>13, UseTyped DEF CallFails, EndPass
<1>14. CASE Crash
  BY <1>14, UseTyped DEF Crash, EndPass, RestartFrom, Current, Held
<1>15. CASE StaleRestart
  <2>1. used' \in [DOMAIN Bounds -> Nat]
    <3>1. used.faults + 1 \in Nat /\ used.staleRestarts + 1 \in Nat
      OBVIOUS
    <3>. QED
      BY <1>15, <3>1 DEF StaleRestart
  <2>. QED
    BY <1>15, <2>1 DEF StaleRestart, EndPass, RestartFrom, AtFirst
<1>16. CASE SyncCrCache
  BY <1>16 DEF SyncCrCache
<1>17. CASE SyncClaimCache
  BY <1>17 DEF SyncClaimCache, Held
<1>18. CASE SyncStsCache
  BY <1>18 DEF SyncStsCache
<1>19. CASE CatchUp
  BY <1>19 DEF CatchUp, Current, Held
<1>20. CASE CreatePod
  BY <1>20 DEF CreatePod
<1>21. CASE DeletePod
  BY <1>21 DEF DeletePod, PodGone
<1>22. CASE PodBecomesReady
  BY <1>22 DEF PodBecomesReady
<1>23. CASE PodFails
  <2>1. PICK i \in ready :
          \/ ready' = ready \ {i} /\ UNCHANGED <<pods, claims>>
          \/ PodGone(i)
    BY <1>23 DEF PodFails
  <2>2. /\ pods' \subseteq Ordinal
        /\ ready' \subseteq pods'
        /\ claims' \in [Ordinal -> {"none", "bound", "deleted"}]
    BY <2>1 DEF PodGone
  <2>. QED
    BY <1>23, <2>2, UseTyped DEF PodFails
<1>24. CASE CollectGarbage
  BY <1>24, ReplicasAssumption DEF CollectGarbage, NoSts
<1>25. CASE EditReplicas
  <2>1. cr' \in ClusterResource
    <3>1. PICK n \in 1 .. MaxReplicas : cr' = [cr EXCEPT !.rv = @ + 1, !.replicas = n]
      BY <1>25, Zenon DEF EditReplicas
    <3>2. cr \in ClusterResource
      OBVIOUS
    <3>3. QED
      BY <3>1, <3>2, Republished, Zenon
  <2>2. used' \in [DOMAIN Bounds -> Nat]
    BY <1>25, UseTyped DEF EditReplicas
  <2>. QED
    BY <1>25, <2>1, <2>2 DEF EditReplicas
<1>26. CASE EditPolicy
  <2>1. cr' \in ClusterResource
    <3>1. PICK p \in Policy : cr' = [cr EXCEPT !.rv = @ + 1, !.policy = p]
      BY <1>26, Zenon DEF EditPolicy
    <3>2. cr \in ClusterResource
      OBVIOUS
    <3>3. QED
      BY <3>1, <3>2, Republished, Zenon
  <2>2. used' \in [DOMAIN Bounds -> Nat]
    <3>1. used.edits + 1 \in Nat /\ used.policyEdits + 1 \in Nat
      OBVIOUS
    <3>. QED
      BY <1>26, <3>1 DEF EditPolicy
  <2>. QED
    BY <1>26, <2>1, <2>2 DEF EditPolicy
<1>27. CASE DeleteCluster
  <2>1. cr' \in ClusterResource
    BY <1>27, Republished DEF DeleteCluster, ClusterResource
  <2>. QED
    BY <1>27, <2>1, UseTyped DEF DeleteCluster
<1>28. CASE UNCHANGED vars
  BY <1>28 DEF vars
<1>. QED
  BY <1>1, <1>2, <1>3, <1>4, <1>5, <1>6, <1>7, <1>8, <1>9, <1>10, <1>11,
     <1>12, <1>13, <1>14, <1>15, <1>16, <1>17, <1>18, <1>19, <1>20,
     <1>21, <1>22, <1>23, <1>24, <1>25, <1>26, <1>27, <1>28
  DEF Next, Pass, Kubernetes, User

(* Type correctness: every state has the types of TypeOK.                  *)
THEOREM TypesCorrect == Spec => []TypeOK
<1>. QED
  BY InitTypeOK, StepTypeOK, PTL DEF Spec
-----------------------------------------------------------------------------
LEMMA InitGuardInv == Init => GuardInv
<1>. QED
  BY DEF Init, InitialCr, AtFirst, NoSts, Copies, GuardInv, FinalizerLasts,
         DeletingIsHeld, PolicyKept, PassGuards, WorkloadGuarded, MustGuard, Held

(* Every step keeps the finalizer where the volumes need it.               *)
LEMMA StepGuardInv == TypeOK /\ GuardInv /\ [Next]_vars => GuardInv'
<1>. SUFFICES ASSUME TypeOK, GuardInv, [Next]_vars PROVE GuardInv'
  OBVIOUS
<1>. USE DEF TypeOK, ClusterResource, GuardInv, FinalizerLasts, DeletingIsHeld,
             PolicyKept, PassGuards, WorkloadGuarded, MustGuard, Held, InitialCr,
             Copies, AtFirst, workload, caches, pass, NewStatus
<1>1. CASE BeginPass
  BY <1>1 DEF BeginPass
<1>2. CASE SkipFinalizers
  BY <1>2 DEF SkipFinalizers, GoTo, InFinalizers, Reclaims
<1>3. CASE AddFinalizer
  <2>1. CASE cr.alive /\ instance.rv = cr.rv
    <3>1. cr' = [cr EXCEPT !.rv = @ + 1, !.finalizer = TRUE] /\ instance' = cr'
      BY <1>3, <2>1, Zenon DEF AddFinalizer
    <3>2. /\ cr'.finalizer /\ cr'.alive
          /\ cr'.deleting = cr.deleting /\ cr'.policy = cr.policy
      BY <2>1, <3>1
    <3>. QED
      BY <1>3, <3>1, <3>2 DEF AddFinalizer
  <2>2. CASE ~ (cr.alive /\ instance.rv = cr.rv)
    BY <1>3, <2>2 DEF AddFinalizer, EndPass
  <2>. QED
    BY <2>1, <2>2
<1>4. CASE CleanupOrphanPVCs
  BY <1>4 DEF CleanupOrphanPVCs, InFinalizers, NeedsFinalizer, Reclaims,
      Orphans, IsPVCOrphan
<1>5. CASE CleanUpAllPVCs
  BY <1>5 DEF CleanUpAllPVCs, InFinalizers, Reclaims
<1>6. CASE DeletePVC
  <2>1. used'.policyEdits = used.policyEdits
    BY <1>6 DEF DeletePVC, Use, Bounds
  <2>2. Held' \subseteq Held
    BY <1>6 DEF DeletePVC, MarkDeleted
  <2>. QED
    BY <1>6, <2>1, <2>2 DEF DeletePVC
<1>7. CASE OrphansDeleted
  BY <1>7 DEF OrphansDeleted, GoTo
<1>8. CASE RemoveFinalizer
  <2>1. CASE cr.alive /\ instance.rv = cr.rv
    <3>1. cr' = [cr EXCEPT !.rv = @ + 1, !.finalizer = FALSE, !.alive = FALSE]
      BY <1>8, <2>1, Zenon DEF RemoveFinalizer
    <3>2. /\ ~ cr'.alive
          /\ cr'.deleting = cr.deleting /\ cr'.policy = cr.policy
      BY <3>1
    <3>. QED
      BY <1>8, <2>1, <3>2 DEF RemoveFinalizer, GoTo
  <2>2. CASE ~ (cr.alive /\ instance.rv = cr.rv)
    BY <1>8, <2>2 DEF RemoveFinalizer, EndPass
  <2>. QED
    BY <2>1, <2>2
<1>9. CASE StatefulSetFails
  BY <1>9 DEF StatefulSetFails, EndPass
<1>10. CASE SyncStatefulSet
  <2>1. /\ instance'.finalizer = instance.finalizer
        /\ instance'.alive = instance.alive
        /\ instance'.deleting = instance.deleting
        /\ instance'.policy = instance.policy
    BY <1>10 DEF SyncStatefulSet
  <2>. QED
    BY <1>10, <2>1 DEF SyncStatefulSet
<1>11. CASE CreateMetadata
  <2>1. CASE pc' = "idle"
    BY <1>11, <2>1 DEF CreateMetadata, EndPass
  <2>2. CASE pc' = pc
    <3>1. /\ instance'.finalizer = instance.finalizer
          /\ instance'.alive = instance.alive
          /\ instance'.deleting = instance.deleting
          /\ instance'.policy = instance.policy
      BY <1>11, <2>2 DEF CreateMetadata, EndPass
    <3>. QED
      BY <1>11, <2>2, <3>1 DEF CreateMetadata
  <2>. QED
    BY <1>11, <2>1, <2>2 DEF CreateMetadata, EndPass
<1>12. CASE WriteStatus
  <2>1. /\ cr'.finalizer = cr.finalizer
        /\ cr'.alive = cr.alive
        /\ cr'.deleting = cr.deleting
        /\ cr'.policy = cr.policy
    BY <1>12 DEF WriteStatus, Reported
  <2>. QED
    BY <1>12, <2>1 DEF WriteStatus, EndPass
<1>13. CASE CallFails
  BY <1>13 DEF CallFails, EndPass, Use, Bounds
<1>14. CASE Crash
  BY <1>14 DEF Crash, EndPass, RestartFrom, Current, Use, Bounds
<1>15. CASE StaleRestart
  BY <1>15 DEF StaleRestart, EndPass, RestartFrom, Bounds
<1>16. CASE SyncCrCache
  BY <1>16 DEF SyncCrCache
<1>17. CASE SyncClaimCache
  BY <1>17 DEF SyncClaimCache, Held
<1>18. CASE SyncStsCache
  BY <1>18 DEF SyncStsCache
<1>19. CASE CatchUp
  BY <1>19 DEF CatchUp, Current
<1>20. CASE CreatePod
  BY <1>20 DEF CreatePod
<1>21. CASE DeletePod
  BY <1>21 DEF DeletePod, PodGone
<1>22. CASE PodBecomesReady
  BY <1>22 DEF PodBecomesReady
<1>23. CASE PodFails
  BY <1>23 DEF PodFails, PodGone, Use, Bounds
<1>24. CASE CollectGarbage
  BY <1>24 DEF CollectGarbage, NoSts
<1>25. CASE EditReplicas
  BY <1>25 DEF EditReplicas, UserMayAct, Use, Bounds
<1>26. CASE EditPolicy
  <2>1. /\ cr'.finalizer = cr.finalizer /\ cr'.alive = cr.alive
        /\ cr'.deleting = cr.deleting
    BY <1>26 DEF EditPolicy
  <2>2. used'.policyEdits # 0
    BY <1>26 DEF EditPolicy, Bounds
  <2>. QED
    BY <1>26, <2>1, <2>2 DEF EditPolicy
<1>27. CASE DeleteCluster
  BY <1>27 DEF DeleteCluster, UserMayAct, Use, Bounds
<1>28. CASE UNCHANGED vars
  BY <1>28 DEF vars
<1>. QED
  BY <1>1, <1>2, <1>3, <1>4, <1>5, <1>6, <1>7, <1>8, <1>9, <1>10, <1>11,
     <1>12, <1>13, <1>14, <1>15, <1>16, <1>17, <1>18, <1>19, <1>20,
     <1>21, <1>22, <1>23, <1>24, <1>25, <1>26, <1>27, <1>28
  DEF Next, Pass, Kubernetes, User

(* No volume without the finalizer that will reclaim it, whatever happens  *)
(* to the caches, the calls and the pods (reconcileFinalizers comes before *)
(* reconcileStatefulSet in the pipeline).                                  *)
THEOREM ClaimsAlwaysGuarded == Spec => []ClaimsGuarded
<1>1. GuardInv => ClaimsGuarded
  BY PolicyAssumption
  DEF GuardInv, Copies, PolicyKept, WorkloadGuarded, MustGuard, ClaimsGuarded
<1>. QED
  BY <1>1, InitTypeOK, StepTypeOK, InitGuardInv, StepGuardInv, PTL DEF Spec

-----------------------------------------------------------------------------
LEMMA InitSizesInv == Init => SizesInv
<1>. QED
  BY ReplicasAssumption
  DEF Init, InitialCr, AtFirst, NoSts, SizesInv, CopiesAgree, Copies, Fresh,
      IsStale, FreshReadyMeansSized, FreshReadyMeansKnown, LabelledNow,
      OrphansAreBeyond, NeverBackInv, ReadyMeansSized, ReadyMeansKnown,
      PassFollows, InPass, AllReady

(* What the invariant reads of a copy.                                     *)
SaysTheSame(c, d) ==
  /\ c.rv = d.rv /\ c.deleting = d.deleting
  /\ c.replicas = d.replicas /\ c.readyReplicas = d.readyReplicas

VersionsInv ==
  /\ CopiesAgree
  /\ ~ cr.deleting => FreshReadyMeansSized /\ FreshReadyMeansKnown

(* Somebody reads what was there already.                                  *)
LEMMA CopiesKept ==
  ASSUME TypeOK, VersionsInv, UNCHANGED <<cr, sts>>,
         \A c \in Copies' : \E d \in Copies : SaysTheSame(c, d)
  PROVE  VersionsInv'
<1>1. /\ CopiesAgree'
      /\ \A c, d \in Copies : c.rv = d.rv => c.replicas = d.replicas
  BY DEF VersionsInv, CopiesAgree, SaysTheSame
<1>2. ASSUME ~ cr.deleting PROVE FreshReadyMeansSized'
  BY <1>2 DEF VersionsInv, SaysTheSame, Fresh, IsStale, FreshReadyMeansSized,
              AllReady
<1>3. ASSUME ~ cr.deleting, NEW c1 \in Fresh', NEW d1 \in Fresh',
             AllReady(c1), d1.rv <= c1.rv
      PROVE  d1.replicas = c1.replicas
  <2>1. PICK c \in Copies : SaysTheSame(c1, c)
    BY <1>3 DEF Fresh
  <2>2. PICK d \in Copies : SaysTheSame(d1, d)
    BY <1>3 DEF Fresh
  <2>3. c \in Fresh /\ d \in Fresh /\ AllReady(c) /\ d.rv <= c.rv
    BY <1>3, <2>1, <2>2 DEF Fresh, IsStale, SaysTheSame, AllReady
  <2>. QED
    BY <1>3, <2>1, <2>2, <2>3 DEF VersionsInv, FreshReadyMeansKnown, SaysTheSame
<1>. QED
  BY <1>1, <1>2, <1>3 DEF VersionsInv, FreshReadyMeansKnown, AllReady

(* Somebody writes a new version of the CR.  If that says that all are     *)
(* ready, the version before has the size of all that is not stale.        *)
LEMMA NewVersion ==
  ASSUME TypeOK, VersionsInv, UNCHANGED sts,
         Copies' \subseteq Copies \cup {cr'},
         cr'.rv = cr.rv + 1,
         cr'.alive \/ cr'.deleting,
         cr.deleting => cr'.deleting,
         ~ cr'.deleting /\ AllReady(cr') =>
           /\ cr'.replicas = cr.replicas
           /\ sts.replicas = cr.replicas
           /\ \A d \in Fresh : d.replicas = cr.replicas
  PROVE  VersionsInv'
<1>1. /\ cr.rv \in Nat /\ cr \in Copies
      /\ \A c \in Copies : c.rv \in Nat
  BY ReplicasAssumption, PolicyAssumption
  DEF TypeOK, ClusterResource, Copies, InitialCr, Policy
<1>2. sts.ownerRv \in Nat
  BY DEF TypeOK
<1>3. CopiesAgree'
  BY <1>1, <1>2 DEF VersionsInv, CopiesAgree
<1>4. ASSUME ~ cr'.deleting PROVE FreshReadyMeansSized'
  BY <1>1, <1>2, <1>4
  DEF VersionsInv, Fresh, IsStale, FreshReadyMeansSized, AllReady
<1>5. ASSUME ~ cr'.deleting, NEW c \in Fresh', NEW d \in Fresh',
             AllReady(c), d.rv <= c.rv
      PROVE  d.replicas = c.replicas
  <2>1. /\ c \in Copies => c \in Fresh
        /\ d \in Copies => d \in Fresh
    BY DEF Fresh, IsStale
  <2>2. /\ c \in Copies \/ c = cr'
        /\ d \in Copies \/ d = cr'
    BY DEF Fresh
  <2>3. CASE c = cr'
    BY <1>5, <2>1, <2>2, <2>3 DEF AllReady
  <2>4. CASE c \in Copies
    <3>1. d \in Copies \/ d.rv = cr.rv + 1
      BY <2>2
    <3>2. c.rv <= cr.rv
      BY <2>4 DEF VersionsInv, CopiesAgree
    <3>3. d \in Copies
      BY <1>1, <1>5, <2>4, <3>1, <3>2
    <3>. QED
      BY <1>5, <2>1, <2>4, <3>3 DEF VersionsInv, FreshReadyMeansKnown
  <2>. QED
    BY <2>2, <2>3, <2>4
<1>. QED
  BY <1>3, <1>4, <1>5 DEF VersionsInv, FreshReadyMeansKnown, AllReady

(* While the CR says that all are ready, it speaks for all copies that are *)
(* not stale.                                                              *)
LEMMA ReadySpeaks ==
  ASSUME TypeOK, VersionsInv, ~ cr.deleting, AllReady(cr)
  PROVE  /\ sts.replicas = cr.replicas
         /\ \A d \in Fresh : d.replicas = cr.replicas
<1>1. cr \in Fresh
  BY DEF VersionsInv, CopiesAgree, Copies, Fresh, IsStale, TypeOK, ClusterResource
<1>2. \A d \in Fresh : d.rv <= cr.rv
  BY DEF VersionsInv, CopiesAgree, Fresh
<1>. QED
  BY <1>1, <1>2
  DEF VersionsInv, FreshReadyMeansSized, FreshReadyMeansKnown

(* Every step keeps what the versions of the CR say of the sizes.          *)
LEMMA StepVersions ==
  ASSUME PatientUser, TypeOK, SizesInv, [Next]_vars
  PROVE  VersionsInv'
<1>. VersionsInv
  BY DEF SizesInv, VersionsInv
<1>. USE DEF workload, caches, pass, NewStatus
<1>1. ASSUME UNCHANGED <<cr, sts>>, Copies' \subseteq Copies PROVE VersionsInv'
  BY <1>1, CopiesKept DEF SaysTheSame
<1>3. CASE AddFinalizer
  <2>1. CASE cr.alive /\ instance.rv = cr.rv
    <3>1. /\ instance' = cr' /\ cr'.rv = cr.rv + 1 /\ cr'.alive = cr.alive
          /\ cr'.deleting = cr.deleting /\ cr'.replicas = cr.replicas
          /\ cr'.readyReplicas = cr.readyReplicas
      BY <1>3, <2>1 DEF AddFinalizer, TypeOK, ClusterResource
    <3>2. UNCHANGED sts /\ Copies' \subseteq Copies \cup {cr'}
      BY <1>3, <3>1 DEF AddFinalizer, Copies
    <3>3. AllReady(cr') => AllReady(cr)
      BY <3>1 DEF AllReady
    <3>. QED
      BY <2>1, <3>1, <3>2, <3>3, NewVersion, ReadySpeaks
  <2>2. CASE ~ (cr.alive /\ instance.rv = cr.rv)
    BY <1>1, <1>3, <2>2 DEF AddFinalizer, EndPass, Copies
  <2>. QED
    BY <2>1, <2>2
<1>4. CASE RemoveFinalizer
  <2>1. CASE cr.alive /\ instance.rv = cr.rv
    <3>1. /\ cr'.rv = cr.rv + 1 /\ cr'.deleting = cr.deleting
          /\ UNCHANGED sts /\ Copies' \subseteq Copies \cup {cr'}
      BY <1>4, <2>1 DEF RemoveFinalizer, GoTo, Copies, TypeOK, ClusterResource
    <3>2. cr.deleting
      BY <1>4 DEF RemoveFinalizer, VersionsInv, CopiesAgree, Copies
    <3>. QED
      BY <3>1, <3>2, NewVersion
  <2>2. CASE ~ (cr.alive /\ instance.rv = cr.rv)
    BY <1>1, <1>4, <2>2 DEF RemoveFinalizer, EndPass, Copies
  <2>. QED
    BY <2>1, <2>2
<1>5. CASE SyncStatefulSet
  <2>1. /\ instance'.rv = instance.rv /\ instance'.deleting = instance.deleting
        /\ instance'.replicas = instance.replicas
    BY <1>5 DEF SyncStatefulSet, TypeOK, ClusterResource
  <2>2. /\ sts'.ownerRv = instance.rv /\ sts'.replicas = instance.replicas
        /\ sts.ownerRv <= instance.rv
        /\ UNCHANGED <<cr, crCache, behind>>
    BY <1>5 DEF SyncStatefulSet, IsStale, TypeOK, ClusterResource
  <2>3. /\ instance \in Fresh
        /\ \A c \in Fresh' : c = instance' \/ c \in Fresh
        /\ \A c \in Fresh' : instance.rv <= c.rv
        /\ \A c \in Copies' : c = instance' \/ c \in Copies
    <3>1. \A c \in Copies' : c = instance' \/ c \in Copies
      BY <2>2 DEF Copies
    <3>2. \A c \in Copies : c.rv \in Nat
      BY ReplicasAssumption, PolicyAssumption
      DEF TypeOK, ClusterResource, Copies, InitialCr, Policy
    <3>3. instance'.rv \in Nat /\ sts.ownerRv \in Nat /\ instance \in Copies
      BY <2>1, <3>2 DEF TypeOK, Copies
    <3>. QED
      BY <2>1, <2>2, <3>1, <3>2, <3>3 DEF Fresh, IsStale
  <2>4. CopiesAgree'
    <3>1. instance \in Copies /\ instance.rv <= cr.rv
      BY DEF VersionsInv, CopiesAgree, Copies
    <3>. QED
      BY <2>1, <2>2, <2>3, <3>1 DEF VersionsInv, CopiesAgree
  <2>5. ASSUME ~ cr.deleting PROVE FreshReadyMeansSized'
    BY <2>1, <2>2, <2>3, <2>5
    DEF VersionsInv, FreshReadyMeansSized, FreshReadyMeansKnown, AllReady
  <2>6. ASSUME ~ cr.deleting, NEW c \in Fresh', NEW d \in Fresh',
               AllReady(c), d.rv <= c.rv
        PROVE  d.replicas = c.replicas
    <3>1. CASE c = instance'
      <4>1. d.rv = instance.rv
        <5>1. /\ d.rv \in Nat /\ instance.rv \in Nat
              /\ instance.rv <= d.rv /\ d.rv <= instance.rv
          BY <2>1, <2>3, <2>6, <3>1, ReplicasAssumption, PolicyAssumption
          DEF TypeOK, ClusterResource, Copies, InitialCr, Policy, Fresh
        <5>. QED
          BY <5>1
      <4>2. d = instance' \/ d \in Copies
        BY <2>3 DEF Fresh
      <4>3. instance \in Copies
        BY DEF Copies
      <4>. QED
        BY <2>1, <3>1, <4>1, <4>2, <4>3 DEF VersionsInv, CopiesAgree
    <3>2. CASE c \in Fresh /\ d \in Fresh
      BY <2>6, <3>2 DEF VersionsInv, FreshReadyMeansKnown
    <3>3. CASE c \in Fresh /\ d = instance'
      BY <2>1, <2>3, <2>6, <3>3 DEF VersionsInv, FreshReadyMeansKnown
    <3>. QED
      BY <2>3, <3>1, <3>2, <3>3
  <2>. QED
    BY <2>2, <2>4, <2>5, <2>6 DEF VersionsInv, FreshReadyMeansKnown, AllReady
<1>6. CASE CreateMetadata
  <2>1. SaysTheSame(instance', instance) \/ instance' = InitialCr
    BY <1>6 DEF CreateMetadata, EndPass, SaysTheSame, TypeOK, ClusterResource
  <2>2. \A c \in Copies' : \E d \in Copies : SaysTheSame(c, d)
    BY <1>6, <2>1 DEF CreateMetadata, Copies, SaysTheSame
  <2>. QED
    BY <1>6, <2>2, CopiesKept DEF CreateMetadata
<1>7. CASE WriteStatus
  <2>1. CASE cr' = cr
    BY <1>1, <1>7, <2>1 DEF WriteStatus, EndPass, Copies
  <2>2. CASE cr' # cr
    <3>1. /\ cr.alive /\ instance.rv = cr.rv
          /\ cr' = [Reported EXCEPT !.rv = @ + 1]
      BY <1>7, <2>2 DEF WriteStatus
    <3>2. /\ cr'.rv = cr.rv + 1 /\ cr'.alive /\ cr'.deleting = cr.deleting
          /\ cr'.replicas = cr.replicas
          /\ cr'.readyReplicas = instance.readyReplicas
      BY <3>1 DEF Reported, TypeOK, ClusterResource
    <3>3. UNCHANGED sts /\ Copies' \subseteq Copies \cup {cr'}
      BY <1>7 DEF WriteStatus, EndPass, Copies
    <3>4. ASSUME ~ cr'.deleting, AllReady(cr')
          PROVE  /\ sts.replicas = cr.replicas
                 /\ \A d \in Fresh : d.replicas = cr.replicas
      <4>1. /\ instance \in Copies /\ cr \in Copies
            /\ instance.replicas = cr.replicas /\ sts.ownerRv = cr.rv
        BY <1>7, <3>1, <3>2, <3>4
        DEF VersionsInv, CopiesAgree, Copies, SizesInv, LabelledNow, WriteStatus
      <4>2. /\ cr.rv \in Nat
            /\ \A d \in Copies : d.rv \in Nat /\ d.rv <= cr.rv
        BY ReplicasAssumption, PolicyAssumption
        DEF TypeOK, ClusterResource, Copies, InitialCr, Policy, VersionsInv,
            CopiesAgree
      <4>3. \A d \in Fresh : d.rv = cr.rv
        BY <4>1, <4>2 DEF Fresh, IsStale
      <4>4. instance \in Fresh /\ AllReady(instance)
        BY <3>1, <3>2, <3>4, <4>1, <4>2 DEF Fresh, IsStale, AllReady
      <4>. QED
        BY <3>2, <3>4, <4>1, <4>3, <4>4
        DEF VersionsInv, CopiesAgree, FreshReadyMeansSized, Fresh
    <3>. QED
      BY <3>2, <3>3, <3>4, NewVersion
  <2>. QED
    BY <2>1, <2>2
<1>8. CASE CollectGarbage
  <2>1. cr.deleting /\ sts'.ownerRv = 0 /\ UNCHANGED cr /\ Copies' = Copies
    BY <1>8 DEF CollectGarbage, NoSts, VersionsInv, CopiesAgree, Copies
  <2>2. cr.rv \in Nat
    BY DEF TypeOK, ClusterResource
  <2>. QED
    BY <2>1, <2>2 DEF VersionsInv, CopiesAgree
<1>9. CASE EditReplicas
  <2>1. PICK n \in 1 .. MaxReplicas \ {cr.replicas} :
          cr' = [cr EXCEPT !.rv = @ + 1, !.replicas = n]
    BY <1>9, Zenon DEF EditReplicas
  <2>2. /\ cr'.rv = cr.rv + 1 /\ cr'.alive = cr.alive
        /\ cr'.deleting = cr.deleting /\ cr'.replicas # cr.replicas
        /\ cr'.readyReplicas = cr.readyReplicas
    BY <2>1 DEF TypeOK, ClusterResource
  <2>3. cr.alive /\ AllReady(cr)
    BY <1>9 DEF EditReplicas, UserMayAct, Settled, AllReady
  <2>4. UNCHANGED sts /\ Copies' \subseteq Copies \cup {cr'}
    BY <1>9 DEF EditReplicas, Copies
  <2>. QED
    BY <2>2, <2>3, <2>4, NewVersion DEF AllReady
<1>10. CASE EditPolicy
  <2>1. PICK p \in Policy : cr' = [cr EXCEPT !.rv = @ + 1, !.policy = p]
    BY <1>10, Zenon DEF EditPolicy
  <2>2. /\ cr'.rv = cr.rv + 1 /\ cr'.alive = cr.alive
        /\ cr'.deleting = cr.deleting /\ cr'.replicas = cr.replicas
    BY <2>1 DEF TypeOK, ClusterResource
  <2>3. cr.alive /\ AllReady(cr)
    BY <1>10 DEF EditPolicy, UserMayAct, Settled, AllReady
  <2>4. UNCHANGED sts /\ Copies' \subseteq Copies \cup {cr'}
    BY <1>10 DEF EditPolicy, Copies
  <2>. QED
    BY <2>2, <2>3, <2>4, NewVersion, ReadySpeaks
<1>11. CASE DeleteCluster
  <2>1. cr'.rv = cr.rv + 1 /\ cr'.deleting
    BY <1>11 DEF DeleteCluster, TypeOK, ClusterResource
  <2>2. UNCHANGED sts /\ Copies' \subseteq Copies \cup {cr'}
    BY <1>11 DEF DeleteCluster, Copies
  <2>. QED
    BY <2>1, <2>2, NewVersion
<1>12. CASE BeginPass \/ SkipFinalizers \/ CleanupOrphanPVCs \/ CleanUpAllPVCs
              \/ DeletePVC \/ OrphansDeleted
  BY <1>1, <1>12 DEF BeginPass, SkipFinalizers, CleanupOrphanPVCs, CleanUpAllPVCs,
     DeletePVC, OrphansDeleted, GoTo, Copies
<1>13. CASE StatefulSetFails \/ CallFails \/ Crash \/ StaleRestart
  BY <1>1, <1>13 DEF StatefulSetFails, CallFails, Crash, StaleRestart, EndPass,
     RestartFrom, Current, AtFirst, Copies
<1>14. CASE SyncCrCache \/ SyncClaimCache \/ SyncStsCache \/ CatchUp
  BY <1>1, <1>14 DEF SyncCrCache, SyncClaimCache, SyncStsCache, CatchUp, Current,
     Copies
<1>15. CASE CreatePod \/ DeletePod \/ PodBecomesReady \/ PodFails
  BY <1>1, <1>15 DEF CreatePod, DeletePod, PodBecomesReady, PodFails, Copies
<1>16. CASE UNCHANGED vars
  BY <1>1, <1>16 DEF vars, Copies
<1>. QED
  BY <1>3, <1>4, <1>5, <1>6, <1>7, <1>8, <1>9, <1>10, <1>11, <1>12, <1>13,
     <1>14, <1>15, <1>16 DEF Next, Pass, Kubernetes, User


(* A deletion and a restart onto a lagging replica are not undone.         *)
LEMMA NothingForgotten ==
  ASSUME TypeOK, [Next]_vars
  PROVE  /\ cr.deleting => cr'.deleting
         /\ used'.staleRestarts = 0 => used.staleRestarts = 0
<1>. USE DEF TypeOK, workload, caches, pass, NewStatus, Bounds
<1>1. CASE BeginPass
  BY <1>1 DEF BeginPass
<1>2. CASE SkipFinalizers
  BY <1>2 DEF SkipFinalizers
<1>3. CASE AddFinalizer
  BY <1>3 DEF AddFinalizer, ClusterResource
<1>4. CASE CleanupOrphanPVCs
  BY <1>4 DEF CleanupOrphanPVCs
<1>5. CASE CleanUpAllPVCs
  BY <1>5 DEF CleanUpAllPVCs
<1>6. CASE DeletePVC
  BY <1>6 DEF DeletePVC, Use
<1>7. CASE OrphansDeleted
  BY <1>7 DEF OrphansDeleted
<1>8. CASE RemoveFinalizer
  BY <1>8 DEF RemoveFinalizer, ClusterResource
<1>9. CASE StatefulSetFails
  BY <1>9 DEF StatefulSetFails
<1>10. CASE SyncStatefulSet
  BY <1>10 DEF SyncStatefulSet
<1>11. CASE CreateMetadata
  BY <1>11 DEF CreateMetadata
<1>12. CASE WriteStatus
  BY <1>12 DEF WriteStatus, EndPass, Reported, ClusterResource
<1>13. CASE CallFails
  BY <1>13 DEF CallFails, Use
<1>14. CASE Crash
  BY <1>14 DEF Crash, Use
<1>15. CASE StaleRestart
  BY <1>15 DEF StaleRestart
<1>16. CASE SyncCrCache
  BY <1>16 DEF SyncCrCache
<1>17. CASE SyncClaimCache
  BY <1>17 DEF SyncClaimCache
<1>18. CASE SyncStsCache
  BY <1>18 DEF SyncStsCache
<1>19. CASE CatchUp
  BY <1>19 DEF CatchUp
<1>20. CASE CreatePod
  BY <1>20 DEF CreatePod
<1>21. CASE DeletePod
  BY <1>21 DEF DeletePod
<1>22. CASE PodBecomesReady
  BY <1>22 DEF PodBecomesReady
<1>23. CASE PodFails
  BY <1>23 DEF PodFails, Use
<1>24. CASE CollectGarbage
  BY <1>24 DEF CollectGarbage
<1>25. CASE EditReplicas
  BY <1>25 DEF EditReplicas, Use, ClusterResource
<1>26. CASE EditPolicy
  BY <1>26 DEF EditPolicy, ClusterResource
<1>27. CASE DeleteCluster
  BY <1>27 DEF DeleteCluster, Use, ClusterResource
<1>28. CASE UNCHANGED vars
  BY <1>28 DEF vars
<1>. QED
  BY <1>1, <1>2, <1>3, <1>4, <1>5, <1>6, <1>7, <1>8, <1>9, <1>10, <1>11,
     <1>12, <1>13, <1>14, <1>15, <1>16, <1>17, <1>18, <1>19, <1>20,
     <1>21, <1>22, <1>23, <1>24, <1>25, <1>26, <1>27, <1>28
  DEF Next, Pass, Kubernetes, User

(* Every step keeps what the pass concludes from its copy.                 *)
LEMMA StepPass ==
  ASSUME TypeOK, SizesInv, [Next]_vars
  PROVE  OrphansAreBeyond' /\ (~ cr'.deleting => LabelledNow')
<1>. /\ cr.deleting => cr'.deleting
     /\ cr.alive \/ cr.deleting
     /\ OrphansAreBeyond
     /\ ~ cr.deleting => LabelledNow
  BY NothingForgotten DEF SizesInv, CopiesAgree
<1>. USE DEF OrphansAreBeyond, LabelledNow, AllReady, workload, caches, pass,
             NewStatus
<1>1. CASE BeginPass
  BY <1>1 DEF BeginPass
<1>2. CASE SkipFinalizers
  BY <1>2 DEF SkipFinalizers, GoTo
<1>3. CASE AddFinalizer
  BY <1>3 DEF AddFinalizer, EndPass
<1>4. CASE CleanupOrphanPVCs
  BY <1>4 DEF CleanupOrphanPVCs, Orphans, IsPVCOrphan
<1>5. CASE CleanUpAllPVCs
  BY <1>5 DEF CleanUpAllPVCs
<1>6. CASE DeletePVC
  BY <1>6 DEF DeletePVC
<1>7. CASE OrphansDeleted
  BY <1>7 DEF OrphansDeleted, GoTo
<1>8. CASE RemoveFinalizer
  BY <1>8 DEF RemoveFinalizer, GoTo, EndPass
<1>9. CASE StatefulSetFails
  BY <1>9 DEF StatefulSetFails, EndPass
<1>10. CASE SyncStatefulSet
  BY <1>10 DEF SyncStatefulSet, TypeOK, ClusterResource
<1>11. CASE CreateMetadata
  <2>1. pc' = "idle" \/ (pc' = "status" /\ instance'.rv = instance.rv)
    BY <1>11 DEF CreateMetadata, EndPass, TypeOK, ClusterResource
  <2>. QED
    BY <1>11, <2>1 DEF CreateMetadata
<1>12. CASE WriteStatus
  BY <1>12 DEF WriteStatus, EndPass
<1>13. CASE CallFails
  BY <1>13 DEF CallFails, EndPass
<1>14. CASE Crash
  BY <1>14 DEF Crash, EndPass
<1>15. CASE StaleRestart
  BY <1>15 DEF StaleRestart, EndPass
<1>16. CASE SyncCrCache
  BY <1>16 DEF SyncCrCache
<1>17. CASE SyncClaimCache
  BY <1>17 DEF SyncClaimCache
<1>18. CASE SyncStsCache
  BY <1>18 DEF SyncStsCache
<1>19. CASE CatchUp
  BY <1>19 DEF CatchUp
<1>20. CASE CreatePod
  BY <1>20 DEF CreatePod
<1>21. CASE DeletePod
  BY <1>21 DEF DeletePod
<1>22. CASE PodBecomesReady
  BY <1>22 DEF PodBecomesReady
<1>23. CASE PodFails
  BY <1>23 DEF PodFails
<1>24. CASE CollectGarbage
  BY <1>24 DEF CollectGarbage
<1>25. CASE EditReplicas
  BY <1>25 DEF EditReplicas
<1>26. CASE EditPolicy
  BY <1>26 DEF EditPolicy
<1>27. CASE DeleteCluster
  BY <1>27 DEF DeleteCluster
<1>28. CASE UNCHANGED vars
  BY <1>28 DEF vars
<1>. QED
  BY <1>1, <1>2, <1>3, <1>4, <1>5, <1>6, <1>7, <1>8, <1>9, <1>10, <1>11,
     <1>12, <1>13, <1>14, <1>15, <1>16, <1>17, <1>18, <1>19, <1>20,
     <1>21, <1>22, <1>23, <1>24, <1>25, <1>26, <1>27, <1>28
  DEF Next, Pass, Kubernetes, User

(* While no restart has taken the caches back, every step keeps what every *)
(* copy of the operator says of the sizes.                                 *)
LEMMA StepNeverBack ==
  ASSUME PatientUser, TypeOK, SizesInv, [Next]_vars,
         ~ cr.deleting, ~ cr'.deleting,
         used.staleRestarts = 0, used'.staleRestarts = 0
  PROVE  NeverBackInv'
<1>. /\ NeverBackInv
     /\ cr.alive
     /\ ~ crCache.deleting /\ ~ instance.deleting
     /\ crCache.rv = cr.rv => crCache.replicas = cr.replicas
     /\ instance.rv = cr.rv => instance.replicas = cr.replicas
  BY DEF SizesInv, CopiesAgree, Copies
<1>. USE DEF NeverBackInv, ReadyMeansSized, ReadyMeansKnown, PassFollows,
             InPass, AllReady, workload, caches, pass, NewStatus
<1>1. CASE BeginPass
  BY <1>1 DEF BeginPass
<1>2. CASE SkipFinalizers
  BY <1>2 DEF SkipFinalizers, GoTo, InFinalizers
<1>3. CASE AddFinalizer
  <2>1. CASE cr.alive /\ instance.rv = cr.rv
    <3>1. /\ instance' = cr' /\ cr'.replicas = cr.replicas
          /\ cr'.readyReplicas = cr.readyReplicas
      BY <1>3, <2>1 DEF AddFinalizer, TypeOK, ClusterResource
    <3>. QED
      BY <1>3, <2>1, <3>1 DEF AddFinalizer, InFinalizers
  <2>2. CASE ~ (cr.alive /\ instance.rv = cr.rv)
    BY <1>3, <2>2 DEF AddFinalizer, EndPass
  <2>. QED
    BY <2>1, <2>2
<1>4. CASE CleanupOrphanPVCs
  BY <1>4 DEF CleanupOrphanPVCs, InFinalizers
<1>5. CASE CleanUpAllPVCs
  BY <1>5 DEF CleanUpAllPVCs
<1>6. CASE DeletePVC
  BY <1>6 DEF DeletePVC
<1>7. CASE OrphansDeleted
  BY <1>7 DEF OrphansDeleted, GoTo
<1>8. CASE RemoveFinalizer
  BY <1>8 DEF RemoveFinalizer
<1>9. CASE StatefulSetFails
  BY <1>9 DEF StatefulSetFails, EndPass
<1>10. CASE SyncStatefulSet
  <2>1. instance'.replicas = instance.replicas /\ sts'.replicas = instance.replicas
    BY <1>10 DEF SyncStatefulSet, TypeOK, ClusterResource
  <2>. QED
    BY <1>10, <2>1 DEF SyncStatefulSet
<1>11. CASE CreateMetadata
  <2>1. CASE pc' = "idle"
    BY <1>11, <2>1 DEF CreateMetadata
  <2>2. CASE pc' # "idle"
    <3>1. /\ instance'.replicas = instance.replicas
          /\ instance'.readyReplicas = instance.readyReplicas
      BY <1>11, <2>2 DEF CreateMetadata, EndPass, TypeOK, ClusterResource
    <3>. QED
      BY <1>11, <3>1 DEF CreateMetadata
  <2>. QED
    BY <2>1, <2>2
<1>12. CASE WriteStatus
  <2>1. CASE cr' = cr
    BY <1>12, <2>1 DEF WriteStatus, EndPass
  <2>2. CASE cr' # cr
    <3>1. /\ instance.rv = cr.rv /\ cr'.replicas = cr.replicas
          /\ cr'.readyReplicas = instance.readyReplicas
      BY <1>12, <2>2 DEF WriteStatus, Reported, TypeOK, ClusterResource
    <3>. QED
      BY <1>12, <3>1 DEF WriteStatus, EndPass
  <2>. QED
    BY <2>1, <2>2
<1>13. CASE CallFails
  BY <1>13 DEF CallFails, EndPass
<1>14. CASE Crash
  BY <1>14 DEF Crash, EndPass, RestartFrom, Current
<1>15. CASE StaleRestart
  <2>1. used'.staleRestarts # 0
    BY <1>15 DEF StaleRestart, Bounds, TypeOK
  <2>. QED
    BY <2>1
<1>16. CASE SyncCrCache
  BY <1>16 DEF SyncCrCache
<1>17. CASE SyncClaimCache
  BY <1>17 DEF SyncClaimCache
<1>18. CASE SyncStsCache
  BY <1>18 DEF SyncStsCache
<1>19. CASE CatchUp
  BY <1>19 DEF CatchUp
<1>20. CASE CreatePod
  BY <1>20 DEF CreatePod
<1>21. CASE DeletePod
  BY <1>21 DEF DeletePod
<1>22. CASE PodBecomesReady
  BY <1>22 DEF PodBecomesReady
<1>23. CASE PodFails
  BY <1>23 DEF PodFails
<1>24. CASE CollectGarbage
  BY <1>24 DEF CollectGarbage
<1>25. CASE EditReplicas
  <2>1. PICK n \in 1 .. MaxReplicas \ {cr.replicas} :
          cr' = [cr EXCEPT !.rv = @ + 1, !.replicas = n]
    BY <1>25, Zenon DEF EditReplicas
  <2>2. cr'.replicas # cr.replicas /\ cr'.readyReplicas = cr.readyReplicas
    BY <2>1 DEF TypeOK, ClusterResource
  <2>. QED
    BY <1>25, <2>2 DEF EditReplicas, UserMayAct, Settled
<1>26. CASE EditPolicy
  <2>1. cr'.replicas = cr.replicas /\ cr'.readyReplicas = cr.readyReplicas
    BY <1>26 DEF EditPolicy, TypeOK, ClusterResource
  <2>. QED
    BY <1>26, <2>1 DEF EditPolicy
<1>27. CASE DeleteCluster
  BY <1>27 DEF DeleteCluster, TypeOK, ClusterResource
<1>28. CASE UNCHANGED vars
  BY <1>28 DEF vars
<1>. QED
  BY <1>1, <1>2, <1>3, <1>4, <1>5, <1>6, <1>7, <1>8, <1>9, <1>10, <1>11,
     <1>12, <1>13, <1>14, <1>15, <1>16, <1>17, <1>18, <1>19, <1>20,
     <1>21, <1>22, <1>23, <1>24, <1>25, <1>26, <1>27, <1>28
  DEF Next, Pass, Kubernetes, User

LEMMA StepSizesInv ==
  ASSUME PatientUser, TypeOK, SizesInv, [Next]_vars
  PROVE  SizesInv'
<1>1. VersionsInv'
  BY StepVersions
<1>2. OrphansAreBeyond' /\ (~ cr'.deleting => LabelledNow')
  BY StepPass
<1>3. ~ cr'.deleting /\ used'.staleRestarts = 0 => NeverBackInv'
  BY NothingForgotten, StepNeverBack
<1>. QED
  BY <1>1, <1>2, <1>3 DEF SizesInv, VersionsInv

(* A step that releases a volume of a living cluster is beyond the size of *)
(* the StatefulSet, unless a restart has made the pass stale.              *)
LEMMA ReleasesAreBeyond ==
  ASSUME TypeOK, SizesInv, [Next]_vars, ~ cr.deleting,
         used.staleRestarts = 0 \/ ~ IsStale(instance),
         NEW i \in Ordinal, claims[i] = "bound", claims'[i] # "bound"
  PROVE  i >= sts.replicas
<1>. USE DEF TypeOK, workload, caches, pass, NewStatus
<1>1. CASE BeginPass
  BY <1>1 DEF BeginPass
<1>2. CASE SkipFinalizers
  BY <1>2 DEF SkipFinalizers
<1>3. CASE AddFinalizer
  BY <1>3 DEF AddFinalizer
<1>4. CASE CleanupOrphanPVCs
  BY <1>4 DEF CleanupOrphanPVCs
<1>5. CASE CleanUpAllPVCs
  BY <1>5 DEF CleanUpAllPVCs
<1>6. CASE DeletePVC
  <2>1. i \in toDelete
    BY <1>6 DEF DeletePVC
  <2>2. ~ instance.deleting
    BY DEF SizesInv, CopiesAgree, Copies
  <2>3. AllReady(instance) /\ i >= instance.replicas
    BY <1>6, <2>1, <2>2 DEF DeletePVC, SizesInv, OrphansAreBeyond
  <2>4. sts.replicas = instance.replicas
    <3>1. CASE used.staleRestarts = 0
      BY <1>6, <2>3, <3>1
      DEF DeletePVC, SizesInv, NeverBackInv, PassFollows, InPass
    <3>2. CASE ~ IsStale(instance)
      BY <2>3, <3>2 DEF SizesInv, FreshReadyMeansSized, Fresh, Copies
    <3>. QED
      BY <3>1, <3>2
  <2>. QED
    BY <2>3, <2>4
<1>7. CASE OrphansDeleted
  BY <1>7 DEF OrphansDeleted
<1>8. CASE RemoveFinalizer
  BY <1>8 DEF RemoveFinalizer
<1>9. CASE StatefulSetFails
  BY <1>9 DEF StatefulSetFails
<1>10. CASE SyncStatefulSet
  BY <1>10 DEF SyncStatefulSet
<1>11. CASE CreateMetadata
  BY <1>11 DEF CreateMetadata
<1>12. CASE WriteStatus
  BY <1>12 DEF WriteStatus
<1>13. CASE CallFails
  BY <1>13 DEF CallFails
<1>14. CASE Crash
  BY <1>14 DEF Crash
<1>15. CASE StaleRestart
  BY <1>15 DEF StaleRestart
<1>16. CASE SyncCrCache
  BY <1>16 DEF SyncCrCache
<1>17. CASE SyncClaimCache
  BY <1>17 DEF SyncClaimCache
<1>18. CASE SyncStsCache
  BY <1>18 DEF SyncStsCache
<1>19. CASE CatchUp
  BY <1>19 DEF CatchUp
<1>20. CASE CreatePod
  BY <1>20 DEF CreatePod
<1>21. CASE DeletePod
  BY <1>21 DEF DeletePod, PodGone
<1>22. CASE PodBecomesReady
  BY <1>22 DEF PodBecomesReady
<1>23. CASE PodFails
  BY <1>23 DEF PodFails, PodGone
<1>24. CASE CollectGarbage
  BY <1>24 DEF CollectGarbage
<1>25. CASE EditReplicas
  BY <1>25 DEF EditReplicas
<1>26. CASE EditPolicy
  BY <1>26 DEF EditPolicy
<1>27. CASE DeleteCluster
  BY <1>27 DEF DeleteCluster
<1>28. CASE UNCHANGED vars
  BY <1>28 DEF vars
<1>. QED
  BY <1>1, <1>2, <1>3, <1>4, <1>5, <1>6, <1>7, <1>8, <1>9, <1>10, <1>11,
     <1>12, <1>13, <1>14, <1>15, <1>16, <1>17, <1>18, <1>19, <1>20,
     <1>21, <1>22, <1>23, <1>24, <1>25, <1>26, <1>27, <1>28
  DEF Next, Pass, Kubernetes, User

(* When the user waits between edits, no volume is deleted before the      *)
(* StatefulSet has scaled down below its ordinal, although the size, the   *)
(* count of ready pods and the list of volumes are all read from caches    *)
(* (controller:737).  Restarts that list from a current API server do not  *)
(* change that, nor do restarts onto a lagging one but for the passes that *)
(* reconcileStatefulSet would refuse as stale (controller:242).            *)
THEOREM OrphansWait ==
  ASSUME PatientUser
  PROVE  Spec => CurrentPassesWait
<1>1. TypeOK /\ SizesInv /\ [Next]_vars
        => [\A i \in Ordinal :
              /\ claims[i] = "bound" /\ claims'[i] # "bound" /\ ~ cr.deleting
              /\ used.staleRestarts = 0 \/ ~ IsStale(instance)
              => i >= sts.replicas]_vars
  BY ReleasesAreBeyond
<1>2. TypeOK /\ SizesInv /\ [Next]_vars => SizesInv'
  BY StepSizesInv
<1>. QED
  BY <1>1, <1>2, InitTypeOK, StepTypeOK, InitSizesInv, PTL
  DEF Spec, CurrentPassesWait
=============================================================================
