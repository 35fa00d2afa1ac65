---------------------------- MODULE Rollout_proofs ----------------------------
(***************************************************************************)
(* Proofs about upgrades and the rollouts behind them, for any tags,       *)
(* sizes, deadline and bounds, and a user who waits for an edit to be      *)
(* rolled out before the next one: when the operator reports an upgrade    *)
(* complete every pod runs the new version, and it declares an upgrade     *)
(* failed only when nothing was updated for longer than the deadline.      *)
(*                                                                         *)
(* Both rest on RolloutInv, about the StatefulSet and its pods, and on     *)
(* UpgradeInv, about the status the operator reports.  A step does one of  *)
(* four things to the CR, the StatefulSet and the pods (StepKinds): it     *)
(* leaves spec, StatefulSet and pods alone, it applies the local copy of   *)
(* the CR to the StatefulSet, it edits the spec, or it is one of           *)
(* Kubernetes.                                                             *)
(*                                                                         *)
(* The last section is about sizes: the operator implements SizeProtocol,  *)
(* which the scripts of the pods rely on, unless the one write whose error *)
(* is dropped fails or a restarted operator lists from a replica that lags.*)
(***************************************************************************)
EXTENDS UpgradeState_proofs

-----------------------------------------------------------------------------
(* The four kinds of steps.                                                *)

LeavesAlone ==
  /\ UNCHANGED <<sts, pods, progressAt>>
  /\ cr'.spec = cr.spec
  /\ cr' = cr \/ cr'.rv = cr.rv + 1

Applies ==
  /\ UNCHANGED <<cr, pods, progressAt>>
  /\ sts.ownerRv <= instance.rv
  /\ sts'.ownerRv = instance.rv
  /\ Held' = Asked(instance)
  /\ sts'.status = sts.status

Edits ==
  /\ UNCHANGED <<sts, pods, progressAt>>
  /\ cr'.rv = cr.rv + 1 /\ cr'.status = cr.status
  /\ Steady /\ Asked(cr) = Held
  /\ \/ cr'.spec.replicas = cr.spec.replicas
     \/ TemplateOf(cr'.spec) = TemplateOf(cr.spec)
  /\ cr'.spec.triggerRollingRestart => Asked(cr') = Asked(cr)
  /\ IsUpgrading(cr.status) => cr.spec.triggerRollingRestart

(* What a step of Kubernetes does to the pods and their revisions.         *)
SameRevisions ==
  UNCHANGED <<sts.status.currentRevision, sts.status.updateRevision>>

Observed ==
  /\ pods' = pods
  /\ UpdateRevision # sts.template
  /\ UpdateRevision' = sts.template
  /\ CurrentRevision' = IF CurrentRevision = NoRevision THEN sts.template
                        ELSE CurrentRevision

Resized ==
  /\ SameRevisions
  /\ Len(pods) # sts.replicas
  /\ CurrentRevision # NoRevision
  /\ \A i \in DOMAIN pods' :
       \/ pods'[i].revision = UpdateRevision
       \/ i \in DOMAIN pods /\ pods'[i].revision = pods[i].revision

Replaced ==
  /\ SameRevisions
  /\ pods # <<>>
  /\ Len(pods') = Len(pods) /\ DOMAIN pods' = DOMAIN pods
  /\ \A i \in DOMAIN pods : pods'[i].revision \in {UpdateRevision,
                                                   pods[i].revision}

Completed ==
  /\ pods' = pods
  /\ CurrentRevision # UpdateRevision
  /\ \A i \in DOMAIN pods : pods[i].revision = UpdateRevision
  /\ UpdateRevision' = UpdateRevision /\ CurrentRevision' = UpdateRevision

MovesPods ==
  /\ UNCHANGED <<cr, pc, instance, foundSts, now, crCache, stsCache, behind>>
  /\ UNCHANGED <<sts.ownerRv, sts.replicas, sts.template>>
  /\ sts' = sts \/ sts'.rv = sts.rv + 1
  /\ sts'.status = StatusOf(pods', CurrentRevision', UpdateRevision')
  /\ progressAt' = IF UNCHANGED sts.status.updatedReplicas
                   THEN progressAt ELSE now
  /\ Observed \/ Resized \/ Replaced \/ Completed

(* A template is a revision, and not the one of no pod at all.             *)
LEMMA TemplatesAreRevisions ==
  ASSUME TypeOK
  PROVE  /\ sts.template \in Template /\ sts.template # NoRevision
         /\ sts.replicas \in Nat /\ sts.replicas > 0
         /\ pods \in Seq(Pod) /\ sts \in StsResource
         /\ CurrentRevision \in Revision /\ UpdateRevision \in Revision
         /\ sts.rv \in Nat /\ sts.ownerRv \in Nat
<1>1. sts \in StsResource /\ pods \in Seq(Pod)
  BY DEF TypeOK
<1>2. NoRevision \notin Template
  BY TagAssumption DEF NoRevision, Template
<1>3. \A n \in Size : n \in Nat /\ n > 0
  BY SizeAssumption
<1>. QED
  BY <1>1, <1>2, <1>3
  DEF StsResource, StsStatus, CurrentRevision, UpdateRevision

(* The steps of the StatefulSet controller and the kubelets.               *)
LEMMA SetPodsMeans ==
  ASSUME TypeOK, NEW ps, NEW current, NEW update, SetPods(ps, current, update),
         Observed \/ Resized \/ Replaced \/ Completed
  PROVE  MovesPods
<1>. DEFINE status == StatusOf(ps, current, update)
<1>1. /\ sts' = IF status = sts.status THEN sts
                ELSE [sts EXCEPT !.rv = @ + 1, !.status = status]
      /\ pods' = ps
      /\ progressAt' = IF status.updatedReplicas = sts.status.updatedReplicas
                       THEN progressAt ELSE now
      /\ UNCHANGED <<cr, znode, cacheVars, operatorVars, now>>
  BY DEF SetPods
<1>2. status.currentRevision = current /\ status.updateRevision = update
  BY DEF StatusOf
<1>. HIDE DEF status
<1>3. /\ sts'.status = status
      /\ sts' = sts \/ sts'.rv = sts.rv + 1
      /\ UNCHANGED <<sts.ownerRv, sts.replicas, sts.template>>
  BY <1>1 DEF TypeOK, StsResource
<1>4. sts'.status = StatusOf(pods', CurrentRevision', UpdateRevision')
  BY <1>1, <1>2, <1>3 DEF CurrentRevision, UpdateRevision, status
<1>. QED
  BY <1>1, <1>3, <1>4 DEF MovesPods, cacheVars, operatorVars

LEMMA SetPodsRevisions ==
  ASSUME TypeOK, NEW ps, NEW current, NEW update, SetPods(ps, current, update)
  PROVE  /\ pods' = ps
         /\ CurrentRevision' = current /\ UpdateRevision' = update
<1>. DEFINE status == StatusOf(ps, current, update)
<1>1. /\ sts' = IF status = sts.status THEN sts
                ELSE [sts EXCEPT !.rv = @ + 1, !.status = status]
      /\ pods' = ps
  BY DEF SetPods
<1>2. status.currentRevision = current /\ status.updateRevision = update
  BY DEF StatusOf
<1>. HIDE DEF status
<1>3. sts'.status = status
  BY <1>1 DEF TypeOK, StsResource
<1>. QED
  BY <1>1, <1>2, <1>3 DEF CurrentRevision, UpdateRevision

LEMMA PodsMove ==
  ASSUME TypeOK, RevisionsInOrder,
         StatefulSetController \/ PodBecomesReady \/ PodFails
  PROVE  MovesPods
<1>0. /\ pods \in Seq(Pod) /\ DOMAIN pods = 1 .. Len(pods) /\ Len(pods) \in Nat
      /\ sts.replicas \in Nat /\ sts.replicas > 0 /\ sts.template # NoRevision
  BY TemplatesAreRevisions
<1>1. CASE ObserveTemplate
  <2>1. PICK current : /\ current = IF CurrentRevision = NoRevision
                                    THEN sts.template ELSE CurrentRevision
                       /\ SetPods(pods, current, sts.template)
    BY <1>1 DEF ObserveTemplate
  <2>2. Observed
    BY <1>1, <2>1, SetPodsRevisions DEF Observed, ObserveTemplate
  <2>. QED
    BY <2>1, <2>2, SetPodsMeans
<1>2. CASE PodCreated
  <2>. DEFINE ps == CreatePod(pods, UpdateRevision)
  <2>1. /\ SetPods(ps, CurrentRevision, UpdateRevision)
        /\ UpdateRevision # NoRevision /\ Len(pods) < sts.replicas
    BY <1>2 DEF PodCreated, CanCreatePod
  <2>2. \A i \in DOMAIN ps : \/ ps[i].revision = UpdateRevision
                             \/ i \in DOMAIN pods /\ ps[i] = pods[i]
    <3>1. /\ Len(ps) = Len(pods) + 1 /\ DOMAIN ps = 1 .. Len(pods) + 1
          /\ \A i \in 1 .. Len(pods) : ps[i] = pods[i]
          /\ ps[Len(pods) + 1].revision = UpdateRevision
      BY <1>0 DEF CreatePod
    <3>. HIDE DEF ps
    <3>. QED
      BY <1>0, <3>1
  <2>3. CurrentRevision # NoRevision
    BY <2>1 DEF RevisionsInOrder
  <2>. HIDE DEF ps
  <2>4. Resized
    <3>1. SameRevisions /\ pods' = ps
      BY <2>1, SetPodsRevisions
      DEF SameRevisions, CurrentRevision, UpdateRevision
    <3>. QED
      BY <1>0, <2>1, <2>2, <2>3, <3>1 DEF Resized
  <2>. QED
    BY <2>1, <2>4, SetPodsMeans
<1>3. CASE PodDeleted
  <2>. DEFINE ps == DeletePod(pods)
  <2>1. /\ SetPods(ps, CurrentRevision, UpdateRevision)
        /\ Len(pods) > sts.replicas
    BY <1>3 DEF PodDeleted, CanDeletePod
  <2>2. \A i \in DOMAIN ps : i \in DOMAIN pods /\ ps[i] = pods[i]
    BY <1>0, <2>1 DEF DeletePod
  <2>3. CurrentRevision # NoRevision
    <3>1. pods # <<>>
      BY <1>0, <2>1
    <3>. QED
      BY <3>1 DEF RevisionsInOrder
  <2>. HIDE DEF ps
  <2>4. Resized
    <3>1. SameRevisions /\ pods' = ps
      BY <2>1, SetPodsRevisions
      DEF SameRevisions, CurrentRevision, UpdateRevision
    <3>. QED
      BY <1>0, <2>1, <2>2, <2>3, <3>1 DEF Resized
  <2>. QED
    BY <2>1, <2>4, SetPodsMeans
<1>4. ASSUME NEW ps \in Seq(Pod), DOMAIN ps = DOMAIN pods, DOMAIN pods # {},
             SetPods(ps, CurrentRevision, UpdateRevision),
             \A i \in DOMAIN pods : ps[i].revision \in {UpdateRevision,
                                                        pods[i].revision}
      PROVE  MovesPods
  <2>1. SameRevisions /\ pods' = ps
    BY <1>4, SetPodsRevisions
    DEF SameRevisions, CurrentRevision, UpdateRevision
  <2>2. Len(ps) = Len(pods) /\ pods # <<>>
    BY <1>0, <1>4
  <2>. QED
    BY <1>4, <2>1, <2>2, SetPodsMeans DEF Replaced
<1>5. CASE PodReplaced
  <2>. DEFINE out == Outdated(pods, UpdateRevision)
              highest == CHOOSE i \in out : \A j \in out : j <= i
              ps == RollPod(pods, UpdateRevision)
  <2>1. /\ SetPods(ps, CurrentRevision, UpdateRevision)
        /\ Len(pods) = sts.replicas
    BY <1>5 DEF PodReplaced, CanRollPod
  <2>2. ps = [pods EXCEPT ![highest] = [revision |-> UpdateRevision,
                                        ready |-> FALSE]]
    BY DEF RollPod
  <2>. HIDE DEF highest
  <2>3. /\ DOMAIN ps = DOMAIN pods
        /\ \A i \in DOMAIN pods : ps[i].revision \in {UpdateRevision,
                                                      pods[i].revision}
    BY <1>0, <2>2
  <2>4. ps \in Seq(Pod)
    BY <1>0, PodsType, TemplatesAreRevisions
  <2>5. DOMAIN pods # {}
    BY <1>0, <2>1
  <2>. HIDE DEF ps
  <2>. QED
    BY <1>4, <2>1, <2>3, <2>4, <2>5
<1>6. CASE RolloutCompletes
  <2>1. /\ SetPods(pods, UpdateRevision, UpdateRevision)
        /\ CurrentRevision # UpdateRevision
        /\ \A i \in DOMAIN pods : pods[i].revision = UpdateRevision
    BY <1>6 DEF RolloutCompletes, RolloutComplete, Outdated
  <2>2. Completed
    BY <2>1, SetPodsRevisions DEF Completed
  <2>. QED
    BY <2>1, <2>2, SetPodsMeans
<1>7. ASSUME NEW i \in DOMAIN pods, NEW p \in Pod,
             p.revision \in {UpdateRevision, pods[i].revision},
             SetPods([pods EXCEPT ![i] = p], CurrentRevision, UpdateRevision)
      PROVE  MovesPods
  <2>. DEFINE ps == [pods EXCEPT ![i] = p]
  <2>1. /\ DOMAIN ps = DOMAIN pods
        /\ \A j \in DOMAIN pods : ps[j].revision \in {UpdateRevision,
                                                      pods[j].revision}
    BY <1>0, <1>7
  <2>2. ps \in Seq(Pod)
    BY <1>0, PodsType, TemplatesAreRevisions
  <2>. HIDE DEF ps
  <2>. QED
    BY <1>4, <1>7, <2>1, <2>2 DEF ps
<1>8. CASE PodBecomesReady
  <2>1. PICK i \in DOMAIN pods :
          SetPods([pods EXCEPT ![i].ready = TRUE], CurrentRevision,
                  UpdateRevision)
    BY <1>8 DEF PodBecomesReady
  <2>. DEFINE p == [pods[i] EXCEPT !.ready = TRUE]
  <2>2. pods[i] \in Pod
    BY <1>0
  <2>3. p \in Pod /\ p.revision = pods[i].revision
    BY <2>2 DEF Pod
  <2>4. [pods EXCEPT ![i].ready = TRUE] = [pods EXCEPT ![i] = p]
    BY <1>0
  <2>. HIDE DEF p
  <2>. QED
    BY <1>7, <2>1, <2>3, <2>4
<1>9. CASE PodFails
  <2>1. PICK i \in DOMAIN pods, r \in {UpdateRevision, NoRevision} :
          SetPods([pods EXCEPT
                     ![i] = [revision |-> IF r = NoRevision
                                          THEN pods[i].revision ELSE r,
                             ready |-> FALSE]],
                  CurrentRevision, UpdateRevision)
    BY <1>9 DEF PodFails
  <2>. DEFINE p == [revision |-> IF r = NoRevision THEN pods[i].revision
                                 ELSE r,
                    ready |-> FALSE]
  <2>2. pods[i] \in Pod /\ UpdateRevision \in Revision
    BY <1>0, TemplatesAreRevisions
  <2>3. p \in Pod /\ p.revision \in {UpdateRevision, pods[i].revision}
    BY <2>2 DEF Pod
  <2>. HIDE DEF p
  <2>. QED
    BY <1>7, <2>1, <2>3 DEF p
<1>. QED
  BY <1>1, <1>2, <1>3, <1>5, <1>6, <1>8, <1>9 DEF StatefulSetController

(* A write of the StatefulSet applies the local copy of the CR.            *)
LEMMA WriteApplies ==
  ASSUME TypeOK, FollowerInv,
         NEW found \in {stsCache, foundSts},
         Exists(found), ~ IsStale(instance, found),
         WriteStatefulSet(found), UNCHANGED <<cr, pods, progressAt>>
  PROVE  \/ EndPass /\ UNCHANGED <<cr, sts, pods, progressAt>>
         \/ /\ Applies
            /\ sts' = sts \/ sts'.rv = sts.rv + 1
            /\ pc' = "upgrade" /\ foundSts' = sts'
            /\ instance'.rv = instance.rv /\ instance'.spec = instance.spec
            /\ instance'.status.conditions = instance.status.conditions
<1>1. CASE found.rv # sts.rv
  BY <1>1 DEF WriteStatefulSet
<1>2. CASE found.rv = sts.rv
  <2>1. /\ found.ownerRv = sts.ownerRv
        /\ sts.ownerRv \in Nat /\ instance.rv \in Nat
    BY <1>2, CopiesType DEF FollowerInv, CopiesAgree, StsCopies, CrCopies
  <2>2. sts.ownerRv <= instance.rv
    BY <2>1 DEF IsStale
  <2>. DEFINE label == IF instance.rv > found.ownerRv
                       THEN instance.rv ELSE found.ownerRv
              written == [sts EXCEPT !.ownerRv = label,
                                     !.replicas = instance.spec.replicas,
                                     !.template = TemplateOf(instance.spec)]
  <2>3. label = instance.rv
    BY <2>1, <2>2
  <2>. HIDE DEF label
  <2>4. /\ written.ownerRv = label
        /\ written.replicas = instance.spec.replicas
        /\ written.template = TemplateOf(instance.spec)
        /\ written.status = sts.status
        /\ LET next == [written EXCEPT !.rv = @ + 1]
           IN  /\ next.rv = sts.rv + 1
               /\ next.ownerRv = label
               /\ next.replicas = instance.spec.replicas
               /\ next.template = TemplateOf(instance.spec)
               /\ next.status = sts.status
    BY DEF TypeOK, StsResource
  <2>5. /\ sts' = IF written = sts THEN sts ELSE [written EXCEPT !.rv = @ + 1]
        /\ pc' = "upgrade" /\ foundSts' = sts'
        /\ instance' = [instance EXCEPT
                          !.status.replicas = sts.status.replicas,
                          !.status.readyReplicas = sts.status.readyReplicas]
    BY <1>2 DEF WriteStatefulSet, Continue, label
  <2>. HIDE DEF written
  <2>6. /\ sts' = sts \/ sts'.rv = sts.rv + 1
        /\ sts'.ownerRv = label
        /\ sts'.replicas = instance.spec.replicas
        /\ sts'.template = TemplateOf(instance.spec)
        /\ sts'.status = sts.status
    <3>1. CASE written = sts
      BY <2>4, <2>5, <3>1
    <3>2. CASE written # sts
      BY <2>4, <2>5, <3>2
    <3>. QED
      BY <3>1, <3>2
  <2>7. /\ instance'.rv = instance.rv /\ instance'.spec = instance.spec
        /\ instance'.status.conditions = instance.status.conditions
    BY <2>5 DEF TypeOK, ClusterResource, ClusterStatusType
  <2>8. Applies
    BY <2>2, <2>3, <2>6 DEF Applies, Held, Asked
  <2>. QED
    BY <2>5, <2>6, <2>7, <2>8
<1>. QED
  BY <1>1, <1>2

(* The first write creates the StatefulSet.                                *)
LEMMA CreateApplies ==
  ASSUME TypeOK, FollowerInv, CreateStatefulSet
  PROVE  \/ EndPass /\ UNCHANGED <<cr, sts, pods, progressAt>>
         \/ /\ Applies
            /\ sts.rv = 0 /\ sts'.rv = 1
            /\ pc' = "status" /\ foundSts' = NoSts
            /\ instance' = instance
<1>1. CASE Exists(sts)
  BY <1>1 DEF CreateStatefulSet, apiVars
<1>2. CASE ~ Exists(sts)
  <2>1. sts = NoSts
    BY <1>2 DEF FollowerInv, LabelVouches
  <2>2. sts.rv = 0 /\ sts.ownerRv = 0 /\ instance.rv \in Nat
    BY <2>1 DEF NoSts, TypeOK, ClusterResource
  <2>3. /\ sts' = [rv |-> 1, ownerRv |-> instance.rv,
                   replicas |-> instance.spec.replicas,
                   template |-> TemplateOf(instance.spec),
                   status |-> NoSts.status]
        /\ pc' = "status" /\ instance' = instance /\ foundSts' = NoSts
        /\ UNCHANGED <<cr, pods, progressAt>>
    BY <1>2 DEF CreateStatefulSet, Continue
  <2>. QED
    BY <2>1, <2>2, <2>3 DEF Applies, Held, Asked
<1>. QED
  BY <1>1, <1>2

(* The edits of a patient user, and the reset of triggerRollingRestart.    *)
LEMMA UserEdits ==
  ASSUME PatientUser, TypeOK, FollowerInv, RolloutInv,
         User \/ RollingRestart
  PROVE  /\ Edits
         /\ UNCHANGED <<pc, instance, foundSts, now, crCache, stsCache, behind>>
<1>. USE DEF apiVars, cacheVars, operatorVars
<1>0. cr \in ClusterResource /\ cr.spec \in ClusterSpec
  BY DEF TypeOK, ClusterResource
<1>. DEFINE rest == UNCHANGED <<pc, instance, foundSts, now, crCache, stsCache,
                             behind>>
<1>1. ASSUME User PROVE Edits /\ rest
  <2>1. PICK spec :
          /\ EditSpec(spec)
          /\ \/ \E n : spec = [cr.spec EXCEPT !.replicas = n]
             \/ \E t : spec = [cr.spec EXCEPT !.tag = t]
             \/ spec = [cr.spec EXCEPT !.triggerRollingRestart = TRUE]
    BY <1>1 DEF User, EditReplicas, EditTag, RequestRestart
  <2>2. /\ ~ IsUpgrading(cr.status) /\ ~ cr.spec.triggerRollingRestart
        /\ RolledOut
    BY <2>1 DEF EditSpec, UserMayEdit
  <2>3. Steady /\ Asked(cr) = Held
    BY <2>2
    DEF RolloutInv, RevisionsInOrder, RolledOut, RolloutComplete, Steady, Asked,
        Held, CurrentRevision
  <2>4. /\ UNCHANGED <<sts, pods, progressAt>>
        /\ UNCHANGED <<pc, instance, foundSts, now, crCache, stsCache, behind>>
        /\ cr' = [cr EXCEPT !.rv = @ + 1, !.specRv = cr.rv + 1, !.spec = spec]
    BY <2>1 DEF EditSpec
  <2>5. cr'.rv = cr.rv + 1 /\ cr'.status = cr.status /\ cr'.spec = spec
    BY <1>0, <2>4 DEF ClusterResource
  <2>6. /\ \/ spec.replicas = cr.spec.replicas
           \/ TemplateOf(spec) = TemplateOf(cr.spec)
        /\ spec.triggerRollingRestart
             => /\ spec.replicas = cr.spec.replicas
                /\ TemplateOf(spec) = TemplateOf(cr.spec)
    BY <1>0, <2>1, <2>2 DEF ClusterSpec, TemplateOf
  <2>7. Edits
    BY <2>2, <2>3, <2>4, <2>5, <2>6 DEF Edits, Asked
  <2>. QED
    BY <2>4, <2>7
<1>2. ASSUME RollingRestart PROVE Edits /\ rest
  <2>1. cr.spec.triggerRollingRestart
    BY <1>2, RestartAnswers
  <2>2. Steady /\ Asked(cr) = Held
    BY <2>1 DEF RolloutInv, AskedInOrder
  <2>3. /\ cr'.rv = cr.rv + 1 /\ cr'.status = cr.status
        /\ cr'.spec.replicas = cr.spec.replicas
        /\ ~ cr'.spec.triggerRollingRestart
    BY <1>0, <1>2, RestartAnswers DEF ClusterResource, ClusterSpec
  <2>. QED
    BY <1>2, <2>1, <2>2, <2>3 DEF RollingRestart, Edits
<1>. QED
  BY <1>1, <1>2

(* Client.Status().Update and clearUpgradeStatus.                          *)
LEMMA StatusUpdateMeans ==
  ASSUME TypeOK, NEW zs, StatusUpdate(zs, "status")
  PROVE  \/ EndPass /\ cr' = cr
         \/ /\ instance.rv = cr.rv
            /\ cr' = cr \/ cr'.rv = cr.rv + 1
            /\ cr'.spec = cr.spec /\ cr'.status = zs
            /\ instance' = cr' /\ pc' = "status" /\ foundSts' = NoSts
  BY DEF StatusUpdate, Continue, TypeOK, ClusterResource

LEMMA ClearUpgradeStatusMeans ==
  ASSUME TypeOK, NEW zs, ClearUpgradeStatus(zs)
  PROVE  \/ EndPass
         \/ /\ instance.rv = cr.rv
            /\ instance'.rv = cr.rv /\ instance'.spec = cr.spec
            /\ pc' = "status" /\ foundSts' = NoSts
<1>. DEFINE cleared == [SetUpgradingFalse(zs, now) EXCEPT
                          !.targetVersion = NoTag]
            x == [cr EXCEPT !.status = cleared]
<1>1. x.rv = cr.rv /\ x.spec = cr.spec
  BY DEF TypeOK, ClusterResource
<1>2. CASE instance.rv = cr.rv
  <2>1. Continue("status", x, NoSts)
    BY <1>2 DEF ClearUpgradeStatus
  <2>. HIDE DEF x
  <2>. QED
    BY <1>1, <1>2, <2>1 DEF Continue
<1>3. CASE instance.rv # cr.rv
  BY <1>3 DEF ClearUpgradeStatus
<1>. QED
  BY <1>2, <1>3

-----------------------------------------------------------------------------
(* Where the local copy of the CR comes from, and what it keeps.           *)

Early == {"statefulSet", "updateSts", "upgrade"}

Ends == EndPass /\ UNCHANGED sts

Waits == UNCHANGED <<pc, instance, foundSts>>

Begins ==
  /\ pc' = "statefulSet" /\ foundSts' = NoSts /\ UNCHANGED <<cr, sts>>
  /\ instance' = crCache /\ ~ crCache.spec.triggerRollingRestart

GoesOn ==
  /\ pc # "idle" /\ UNCHANGED cr
  /\ instance'.rv = instance.rv /\ instance'.spec = instance.spec
  /\ \/ pc' \notin Early /\ foundSts' = NoSts
     \/ /\ pc \in Early /\ pc' \in Early
        /\ instance'.status.conditions = instance.status.conditions
        /\ \/ pc' = "updateSts" /\ foundSts' = stsCache /\ UNCHANGED sts
           \/ pc' = "upgrade" /\ foundSts' = sts' /\ Applies

Saves ==
  /\ instance.rv = cr.rv /\ UNCHANGED sts
  /\ instance'.rv = cr'.rv /\ instance'.spec = cr.spec /\ cr'.spec = cr.spec
  /\ pc' \notin Early /\ foundSts' = NoSts

PassMoves == Ends \/ Waits \/ Begins \/ GoesOn \/ Saves

Writes == CreateStatefulSet \/ UpdateSameSize \/ UpdateNewSize

(* A pass writes the StatefulSet, or leaves it alone.                      *)
LEMMA WritesMove ==
  ASSUME TypeOK, FollowerInv, Writes
  PROVE  /\ PassMoves
         /\ \/ LeavesAlone
            \/ Applies /\ (sts' = sts \/ sts'.rv = sts.rv + 1)
         /\ UNCHANGED <<cr, crCache, stsCache, behind, now>>
<1>. USE DEF cacheVars
<1>1. ASSUME EndPass, UNCHANGED <<cr, sts, pods, progressAt>>
      PROVE  PassMoves /\ LeavesAlone
  BY <1>1 DEF PassMoves, Ends, LeavesAlone
<1>2. CASE CreateStatefulSet
  <2>1. CASE EndPass /\ UNCHANGED <<cr, sts, pods, progressAt>>
    BY <1>1, <1>2, <2>1 DEF CreateStatefulSet
  <2>2. CASE /\ Applies
             /\ sts.rv = 0 /\ sts'.rv = 1
             /\ pc' = "status" /\ foundSts' = NoSts
             /\ instance' = instance
    BY <1>2, <2>2 DEF CreateStatefulSet, PassMoves, GoesOn, Early, Applies
  <2>. QED
    BY <1>2, <2>1, <2>2, CreateApplies
<1>3. ASSUME NEW found \in {stsCache, foundSts},
             Exists(found), ~ IsStale(instance, found), pc \in Early,
             WriteStatefulSet(found), UNCHANGED <<cr, pods, progressAt>>
      PROVE  /\ PassMoves
             /\ \/ LeavesAlone
                \/ Applies /\ (sts' = sts \/ sts'.rv = sts.rv + 1)
  <2>1. CASE EndPass /\ UNCHANGED <<cr, sts, pods, progressAt>>
    BY <1>1, <2>1
  <2>2. CASE /\ Applies
             /\ sts' = sts \/ sts'.rv = sts.rv + 1
             /\ pc' = "upgrade" /\ foundSts' = sts'
             /\ instance'.rv = instance.rv /\ instance'.spec = instance.spec
             /\ instance'.status.conditions = instance.status.conditions
    BY <1>3, <2>2 DEF PassMoves, GoesOn, Early
  <2>. QED
    BY <1>3, <2>1, <2>2, WriteApplies
<1>4. CASE UpdateSameSize
  BY <1>3, <1>4 DEF UpdateSameSize, FoundStatefulSet, Early
<1>5. CASE UpdateNewSize
  BY <1>3, <1>5 DEF UpdateNewSize, Early, FollowerInv, LabelVouches
<1>. QED
  BY <1>2, <1>4, <1>5 DEF Writes, CreateStatefulSet, UpdateSameSize, UpdateNewSize

(* The other calls of a pass, and the steps that only move copies.         *)
Calls ==
  \/ BeginPass \/ CallFails \/ RecoverFailedUpgrade \/ StayFailed
  \/ RefuseStaleness \/ MetadataMissing \/ UpdateClusterSize
  \/ InitUpgrading \/ StartUpgrade \/ NoUpgrade \/ CompleteUpgrade
  \/ ReportProgress \/ FailUpgrade \/ AwaitProgress
  \/ SkipClusterStatus \/ CreateParentNode \/ CreateNode
  \/ WriteClusterStatus \/ ClusterStatusConflict

LEMMA CallsMove ==
  ASSUME TypeOK, Calls
  PROVE  PassMoves /\ LeavesAlone
         /\ UNCHANGED <<crCache, stsCache, behind, now>>
<1>. USE DEF apiVars, cacheVars, Unaffected, LeavesAlone
<1>1. ASSUME NEW zs, StatusUpdate(zs, "status"), Unaffected
      PROVE  PassMoves /\ LeavesAlone
  BY <1>1, StatusUpdateMeans DEF PassMoves, Ends, Saves, Early
<1>2. ASSUME NEW zs, ClearUpgradeStatus(zs), UNCHANGED cr,
             UNCHANGED <<sts, pods, progressAt>>
      PROVE  PassMoves /\ LeavesAlone
  BY <1>2, ClearUpgradeStatusMeans DEF PassMoves, Ends, Saves, Early
<1>3. ASSUME NEW next, NEW x, Continue(next, x, NoSts), next \notin Early,
             x.rv = instance.rv, x.spec = instance.spec, pc # "idle",
             UNCHANGED <<cr, sts, pods, progressAt>>
      PROVE  PassMoves /\ LeavesAlone
  BY <1>3 DEF PassMoves, GoesOn, Continue
<1>4. CASE BeginPass
  BY <1>4 DEF BeginPass, PassMoves, Begins, Continue
<1>5. CASE \/ CallFails \/ StayFailed \/ RefuseStaleness \/ MetadataMissing
           \/ SkipClusterStatus \/ ClusterStatusConflict
  BY <1>5
  DEF CallFails, StayFailed, RefuseStaleness, MetadataMissing,
      SkipClusterStatus, ClusterStatusConflict, PassMoves, Ends
<1>6. CASE RecoverFailedUpgrade
  BY <1>2, <1>6 DEF RecoverFailedUpgrade
<1>7. CASE CompleteUpgrade
  BY <1>2, <1>7 DEF CompleteUpgrade
<1>8. CASE UpdateClusterSize
  BY <1>8
  DEF UpdateClusterSize, FoundStatefulSet, Continue, PassMoves, GoesOn, Early
<1>9. CASE InitUpgrading
  <2>. DEFINE x == [instance EXCEPT !.status = SetUpgradingFalse(@, now)]
  <2>1. x.rv = instance.rv /\ x.spec = instance.spec
    BY DEF TypeOK, ClusterResource
  <2>2. Continue("status", x, NoSts) /\ pc # "idle"
    BY <1>9 DEF InitUpgrading, InUpgrade
  <2>. HIDE DEF x
  <2>. QED
    BY <1>3, <1>9, <2>1, <2>2 DEF InitUpgrading, Early
<1>10. CASE StartUpgrade \/ NoUpgrade \/ ReportProgress \/ FailUpgrade
  <2>1. PICK zs : StatusUpdate(zs, "status") /\ Unaffected
    BY <1>10, Zenon DEF StartUpgrade, NoUpgrade, ReportProgress, FailUpgrade
  <2>. QED
    BY <1>1, <2>1
<1>11. CASE AwaitProgress
  BY <1>3, <1>11 DEF AwaitProgress, UpgradeInProgress, InUpgrade, Early
<1>12. CASE CreateParentNode
  <2>1. CASE EndPass
    BY <1>12, <2>1 DEF CreateParentNode, PassMoves, Ends
  <2>2. CASE Continue("createNode", instance, NoSts)
    BY <1>3, <1>12, <2>2 DEF CreateParentNode, InClusterStatus, Early
  <2>. QED
    BY <1>12, <2>1, <2>2 DEF CreateParentNode
<1>13. CASE CreateNode
  <2>. DEFINE x == [instance EXCEPT !.status.metaRootCreated = TRUE]
  <2>1. x.rv = instance.rv /\ x.spec = instance.spec
    BY DEF TypeOK, ClusterResource
  <2>2. Continue("writeStatus", x, NoSts) /\ pc # "idle"
    BY <1>13 DEF CreateNode
  <2>. HIDE DEF x
  <2>. QED
    BY <1>3, <1>13, <2>1, <2>2 DEF CreateNode, Early
<1>14. CASE WriteClusterStatus
  BY <1>14 DEF WriteClusterStatus, PassMoves, Ends, TypeOK, ClusterResource
<1>15. UNCHANGED <<crCache, stsCache, behind, now>>
  BY DEF Calls, BeginPass, CallFails, RecoverFailedUpgrade, StayFailed,
         RefuseStaleness, MetadataMissing, UpdateClusterSize, InitUpgrading,
         StartUpgrade, NoUpgrade, CompleteUpgrade, ReportProgress,
         FailUpgrade, AwaitProgress, SkipClusterStatus, CreateParentNode,
         CreateNode, WriteClusterStatus, ClusterStatusConflict
<1>. QED
  BY <1>4, <1>5, <1>6, <1>7, <1>8, <1>9, <1>10, <1>11, <1>12, <1>13, <1>14,
     <1>15
  DEF Calls

CachesMove ==
  \/ UNCHANGED <<crCache, stsCache, behind>>
  \/ /\ UNCHANGED <<cr, sts>>
     /\ crCache' \in {crCache, behind.cr, cr}
     /\ behind'.cr \in {behind.cr, cr}
     /\ stsCache' \in {stsCache, behind.sts, sts}
     /\ behind'.sts \in {behind.sts, sts}

LEMMA CopiesMove ==
  ASSUME TypeOK,
         Crash \/ SyncCrCache \/ SyncStsCache \/ CatchUp \/ Tick \/ UNCHANGED vars
  PROVE  PassMoves /\ LeavesAlone /\ CachesMove /\ now' \in {now, now + 1}
<1>. USE DEF apiVars, cacheVars, operatorVars, LeavesAlone, PassMoves, Ends,
             Waits, CachesMove
<1>1. CASE Crash
  BY <1>1 DEF Crash
<1>2. CASE SyncCrCache
  BY <1>2 DEF SyncCrCache
<1>3. CASE SyncStsCache
  BY <1>3 DEF SyncStsCache
<1>4. CASE CatchUp
  BY <1>4 DEF CatchUp
<1>5. CASE Tick \/ UNCHANGED vars
  BY <1>5 DEF Tick, vars
<1>. QED
  BY <1>1, <1>2, <1>3, <1>4, <1>5

(* Every step is of one of the four kinds.                                 *)
LEMMA StepKinds ==
  ASSUME PatientUser, TypeOK, FollowerInv, RolloutInv, [Next]_vars
  PROVE  /\ PassMoves /\ CachesMove /\ now' \in {now, now + 1}
         /\ \/ LeavesAlone
            \/ Applies /\ (sts' = sts \/ sts'.rv = sts.rv + 1) /\ ~ Waits
            \/ Edits /\ Waits
            \/ MovesPods /\ Waits
<1>1. CASE Writes
  <2>1. pc' # pc
    BY <1>1
    DEF Writes, CreateStatefulSet, UpdateSameSize, UpdateNewSize,
        FoundStatefulSet, WriteStatefulSet, EndPass, Continue
  <2>. QED
    BY <1>1, <2>1, WritesMove DEF CachesMove, Waits
<1>2. CASE Calls
  BY <1>2, CallsMove DEF CachesMove
<1>3. CASE User \/ RollingRestart
  BY <1>3, UserEdits DEF CachesMove, PassMoves, Waits
<1>4. CASE StatefulSetController \/ PodBecomesReady \/ PodFails
  BY <1>4, PodsMove DEF RolloutInv, MovesPods, CachesMove, PassMoves, Waits
<1>5. CASE Crash \/ SyncCrCache \/ SyncStsCache \/ CatchUp \/ Tick
           \/ UNCHANGED vars
  BY <1>5, CopiesMove
<1>. QED
  BY <1>1, <1>2, <1>3, <1>4, <1>5 DEF Next, Pass, Writes, Calls

(* Copies are made of copies, or of what is written.                       *)
LEMMA CrCopiesMove ==
  ASSUME TypeOK, FollowerInv, ~ instance.spec.triggerRollingRestart,
         PassMoves, CachesMove
  PROVE  /\ \A c \in CrCopies' :
              \/ c.rv = cr'.rv /\ c.spec = cr'.spec
              \/ \E d \in CrCopies : c.rv = d.rv /\ c.spec = d.spec
         /\ ~ instance'.spec.triggerRollingRestart
<1>1. ~ InitialCr.spec.triggerRollingRestart
  BY DEF InitialCr, InitialSpec
<1>2. instance.rv = cr.rv => instance.spec = cr.spec
  BY DEF FollowerInv, CopiesAgree, CrCopies
<1>3. /\ \/ instance'.rv = cr'.rv /\ instance'.spec = cr'.spec
         \/ \E d \in CrCopies : instance'.rv = d.rv /\ instance'.spec = d.spec
      /\ ~ instance'.spec.triggerRollingRestart
  BY <1>1, <1>2
  DEF PassMoves, Ends, Waits, Begins, GoesOn, Saves, EndPass, CrCopies
<1>4. crCache' \in CrCopies /\ behind'.cr \in CrCopies
  BY DEF CachesMove, CrCopies
<1>. QED
  BY <1>3, <1>4 DEF CrCopies

-----------------------------------------------------------------------------
(* RolloutInv.                                                             *)

(* The numbers of the versions can be compared.                            *)
LEMMA VersionsAreNumbers ==
  ASSUME TypeOK, FollowerInv
  PROVE  /\ \A c \in CrCopies : c.rv \in Nat /\ c.rv <= cr.rv
         /\ \A s \in StsCopies : s.rv \in Nat /\ s.rv <= sts.rv
         /\ cr \in CrCopies /\ instance \in CrCopies
         /\ cr.rv \in Nat /\ sts.ownerRv \in Nat /\ sts.ownerRv <= cr.rv
         /\ sts.rv \in Nat
<1>1. cr \in CrCopies /\ instance \in CrCopies /\ sts \in StsCopies
  BY DEF CrCopies, StsCopies
<1>. QED
  BY <1>1, CopiesType DEF FollowerInv, CopiesAgree, LabelVouches

LEMMA AskedStays ==
  ASSUME TypeOK, FollowerInv, RolloutInv, PassMoves, CachesMove,
         UNCHANGED <<sts.ownerRv, sts.replicas, sts.template>>,
         cr'.spec = cr.spec, cr' = cr \/ cr'.rv = cr.rv + 1,
         Steady => Steady'
  PROVE  AskedInOrder'
<1>1. Held' = Held /\ Asked(cr)' = Asked(cr)
  BY DEF Held, Asked
<1>2. /\ \A c \in CrCopies' :
           \/ c.rv = cr'.rv /\ c.spec = cr'.spec
           \/ \E d \in CrCopies : c.rv = d.rv /\ c.spec = d.spec
      /\ ~ instance'.spec.triggerRollingRestart
  BY CrCopiesMove DEF RolloutInv, AskedInOrder
<1>3. \A c \in Writable' : \/ c.rv = cr'.rv /\ Asked(c) = Asked(cr)
                           \/ \E d \in Writable : /\ c.rv = d.rv
                                                  /\ Asked(c) = Asked(d)
  BY <1>2 DEF Writable, Asked
<1>4. \A c \in Writable' : Asked(c) \in {Held', Asked(cr)'}
  BY <1>1, <1>3 DEF RolloutInv, AskedInOrder
<1>5. ASSUME NEW c \in Writable', NEW d \in Writable', c.rv <= d.rv,
             Asked(c) = Asked(cr)'
      PROVE  Asked(d) = Asked(cr)'
  <2>1. CASE d.rv = cr'.rv /\ Asked(d) = Asked(cr)
    BY <1>1, <2>1
  <2>2. ASSUME NEW e \in Writable, d.rv = e.rv, Asked(d) = Asked(e)
        PROVE  Asked(d) = Asked(cr)'
    <3>1. e \in CrCopies /\ e.rv \in Nat /\ e.rv <= cr.rv /\ cr.rv \in Nat
      BY VersionsAreNumbers DEF Writable
    <3>2. CASE c.rv = cr'.rv /\ Asked(c) = Asked(cr)
      <4>1. e.rv = cr.rv
        BY <1>5, <2>2, <3>1, <3>2
      <4>2. e.spec = cr.spec
        BY <3>1, <4>1 DEF FollowerInv, CopiesAgree, CrCopies
      <4>. QED
        BY <1>1, <2>2, <4>2 DEF Asked
    <3>3. ASSUME NEW b \in Writable, c.rv = b.rv, Asked(c) = Asked(b)
          PROVE  Asked(d) = Asked(cr)'
      BY <1>1, <1>5, <2>2, <3>3 DEF RolloutInv, AskedInOrder
    <3>. QED
      BY <1>3, <3>2, <3>3
  <2>. QED
    BY <1>3, <2>1, <2>2
<1>. QED
  BY <1>1, <1>2, <1>4, <1>5 DEF RolloutInv, AskedInOrder

(* The write of a version that asks for what the CR asks for is the one    *)
(* write of a rollout.                                                     *)
LEMMA AskedApplied ==
  ASSUME TypeOK, FollowerInv, RolloutInv, PassMoves, CachesMove, Applies
  PROVE  /\ AskedInOrder'
         /\ Held' = Held \/ Steady
         /\ Held' = Held \/ sts'.replicas = sts.replicas
                         \/ sts'.template = sts.template
<1>1. instance \in Writable /\ instance \in CrCopies
  BY VersionsAreNumbers DEF Applies, Writable
<1>2. Held' \in {Held, Asked(cr)}
  BY <1>1 DEF Applies, RolloutInv, AskedInOrder
<1>3. /\ \A c \in CrCopies' :
           \E d \in CrCopies : c.rv = d.rv /\ c.spec = d.spec
      /\ ~ instance'.spec.triggerRollingRestart
  <2>1. cr \in CrCopies /\ cr' = cr
    BY DEF CrCopies, Applies
  <2>. QED
    BY <2>1, CrCopiesMove DEF RolloutInv, AskedInOrder
<1>4. \A c \in Writable' : \E d \in Writable : /\ c.rv = d.rv
                                               /\ c.rv >= instance.rv
                                               /\ Asked(c) = Asked(d)
  <2>1. ASSUME NEW c \in Writable'
        PROVE  \E d \in Writable : /\ c.rv = d.rv
                                   /\ c.rv >= instance.rv
                                   /\ Asked(c) = Asked(d)
    <3>1. c \in CrCopies' /\ c.rv >= instance.rv
      BY <2>1 DEF Writable, Applies
    <3>2. PICK d \in CrCopies : c.rv = d.rv /\ c.spec = d.spec
      BY <1>3, <3>1
    <3>3. d \in Writable
      BY <1>1, <3>1, <3>2, VersionsAreNumbers DEF Writable, Applies
    <3>. QED
      BY <3>1, <3>2, <3>3 DEF Asked
  <2>. QED
    BY <2>1
<1>5. Asked(cr)' = Asked(cr) /\ cr' = cr
  BY DEF Applies, Asked
<1>6. CASE Held' = Held
  <2>1. Steady' = Steady /\ sts'.replicas = sts.replicas
        /\ sts'.template = sts.template
    BY <1>6 DEF Steady, Held, Applies, CurrentRevision, UpdateRevision
  <2>. QED
    BY <1>3, <1>4, <1>5, <1>6, <2>1 DEF RolloutInv, AskedInOrder
<1>7. CASE Held' = Asked(cr) /\ Asked(cr) # Held
  <2>1. \A d \in Writable : d.rv >= instance.rv => Asked(d) = Asked(cr)
    <3>1. Asked(instance) = Asked(cr)
      BY <1>7 DEF Applies
    <3>2. \A d \in Writable : d.rv >= instance.rv => instance.rv <= d.rv
      BY <1>1, VersionsAreNumbers DEF Writable
    <3>. QED
      BY <1>1, <3>1, <3>2 DEF RolloutInv, AskedInOrder
  <2>2. \A c \in Writable' : Asked(c) = Asked(cr)'
    BY <1>4, <1>5, <2>1
  <2>3. /\ Steady /\ ~ cr.spec.triggerRollingRestart
        /\ \/ cr.spec.replicas = sts.replicas
           \/ TemplateOf(cr.spec) = sts.template
    BY <1>7 DEF RolloutInv, AskedInOrder
  <2>4. Held' = Asked(cr)' /\ ~ cr'.spec.triggerRollingRestart
    BY <1>5, <1>7, <2>3
  <2>5. AskedInOrder'
    BY <1>3, <2>2, <2>4 DEF AskedInOrder
  <2>6. sts'.replicas = sts.replicas \/ sts'.template = sts.template
    BY <1>7, <2>3 DEF Held, Asked
  <2>. QED
    BY <2>3, <2>5, <2>6
<1>. QED
  BY <1>2, <1>6, <1>7

LEMMA AskedEdited ==
  ASSUME TypeOK, FollowerInv, RolloutInv, Edits, Waits, CachesMove
  PROVE  AskedInOrder'
<1>1. /\ Held' = Held /\ Steady' /\ Steady /\ Asked(cr) = Held
      /\ sts' = sts
  BY DEF Edits, Held, Steady, CurrentRevision, UpdateRevision
<1>2. \A c \in CrCopies' : c = cr' \/ c \in CrCopies
  BY DEF CrCopies, Waits, CachesMove
<1>3. \A c \in Writable' : \/ c = cr'
                           \/ c \in Writable /\ Asked(c) = Held
  BY <1>1, <1>2 DEF Writable, RolloutInv, AskedInOrder
<1>4. ASSUME NEW c \in Writable', NEW d \in Writable', c.rv <= d.rv,
             Asked(c) = Asked(cr)'
      PROVE  Asked(d) = Asked(cr)'
  <2>1. d = cr' \/ c # cr'
    BY <1>3, <1>4, VersionsAreNumbers DEF Edits, Writable
  <2>. QED
    BY <1>3, <1>4, <2>1 DEF Asked
<1>5. ~ instance'.spec.triggerRollingRestart
  BY DEF Waits, RolloutInv, AskedInOrder
<1>6. /\ Asked(cr)' # Held' => \/ cr'.spec.replicas = sts'.replicas
                               \/ TemplateOf(cr'.spec) = sts'.template
      /\ cr'.spec.triggerRollingRestart => Asked(cr)' = Held'
  BY <1>1 DEF Edits, Asked, Held
<1>7. \A c \in Writable' : Asked(c) \in {Held', Asked(cr)'}
  BY <1>1, <1>3 DEF Asked
<1>. QED
  BY <1>1, <1>4, <1>5, <1>6, <1>7 DEF AskedInOrder

(* What the steps of Kubernetes leave true of the revisions.               *)
LEMMA RevisionsMove ==
  ASSUME TypeOK, RolloutInv, MovesPods
  PROVE  RevisionsInOrder' /\ (Steady => Steady')
<1>. DEFINE cur == CurrentRevision
            upd == UpdateRevision
<1>0. /\ sts.template # NoRevision /\ sts'.template = sts.template
      /\ sts'.replicas = sts.replicas
      /\ sts'.status = StatusOf(pods', CurrentRevision', UpdateRevision')
  BY TemplatesAreRevisions DEF MovesPods
<1>1. /\ upd \in {cur, sts.template}
      /\ cur = NoRevision => pods = <<>> /\ upd = NoRevision
      /\ \A i \in DOMAIN pods : pods[i].revision \in {cur, upd}
      /\ (upd # cur \/ upd \notin {sts.template, NoRevision})
           => Len(pods) = sts.replicas
  BY DEF RolloutInv, RevisionsInOrder
<1>2. CASE Observed
  <2>1. upd = cur /\ upd # sts.template
    BY <1>1, <1>2 DEF Observed
  <2>. QED
    BY <1>0, <1>1, <1>2, <2>1 DEF Observed, Steady, RevisionsInOrder
<1>3. CASE Resized
  <2>1. CurrentRevision' = cur /\ UpdateRevision' = upd
    BY <1>3 DEF Resized, SameRevisions, CurrentRevision, UpdateRevision
  <2>2. upd = cur /\ cur = sts.template
    BY <1>1, <1>3 DEF Resized
  <2>. QED
    BY <1>0, <1>1, <1>3, <2>1, <2>2 DEF Resized, Steady, RevisionsInOrder
<1>4. CASE Replaced
  <2>1. CurrentRevision' = cur /\ UpdateRevision' = upd
    BY <1>4 DEF Replaced, SameRevisions, CurrentRevision, UpdateRevision
  <2>. QED
    BY <1>0, <1>1, <1>4, <2>1 DEF Replaced, Steady, RevisionsInOrder
<1>5. CASE Completed
  <2>1. upd = sts.template
    BY <1>1, <1>5 DEF Completed
  <2>. QED
    BY <1>0, <1>1, <1>5, <2>1 DEF Completed, Steady, RevisionsInOrder
<1>. QED
  BY <1>2, <1>3, <1>4, <1>5 DEF MovesPods

(* Replacing pods by pods of the update revision does not lose updated     *)
(* pods.                                                                   *)
LEMMA UpdatedGrows ==
  ASSUME TypeOK, RolloutInv, MovesPods, Replaced
  PROVE  sts.status.updatedReplicas <= sts'.status.updatedReplicas
<1>. DEFINE before == {i \in DOMAIN pods : pods[i].revision = UpdateRevision}
            after  == {i \in DOMAIN pods' : pods'[i].revision = UpdateRevision}
<1>1. sts.status.updatedReplicas = Cardinality(before)
  BY DEF RolloutInv, RevisionsInOrder, StatusOf
<1>2. UpdateRevision' = UpdateRevision
  BY DEF Replaced, SameRevisions, UpdateRevision
<1>3. sts'.status.updatedReplicas = Cardinality(after)
  BY <1>2 DEF MovesPods, StatusOf
<1>4. DOMAIN pods' = 1 .. Len(pods) /\ DOMAIN pods = 1 .. Len(pods)
      /\ Len(pods) \in Nat
  BY TemplatesAreRevisions DEF Replaced
<1>5. before \subseteq after /\ after \subseteq 1 .. Len(pods)
  BY <1>4 DEF Replaced
<1>6. IsFiniteSet(after)
  <2>1. IsFiniteSet(1 .. Len(pods))
    BY <1>4, FS_Interval
  <2>. QED
    BY <1>5, <2>1, FS_Subset
<1>7. Cardinality(before) <= Cardinality(after)
  BY <1>5, <1>6, FS_Subset
<1>. QED
  BY <1>1, <1>3, <1>7

LEMMA ReadStaysWithPods ==
  ASSUME TypeOK, TypeOK', RolloutInv, MovesPods
  PROVE  ReadStays'
<1>1. /\ UNCHANGED <<pc, instance, foundSts, sts.ownerRv, sts.template>>
      /\ Found' = Found
  BY DEF MovesPods, Found
<1>2. SUFFICES ASSUME pc = "upgrade",
                      Found.updateRevision = sts.template,
                      UpdateRevision = sts.template
               PROVE  /\ UpdateRevision' = sts.template
                      /\ CurrentRevision = sts.template
                           => CurrentRevision' = sts.template
                      /\ CurrentRevision' # UpdateRevision'
                           => /\ CurrentRevision # UpdateRevision
                              /\ sts.status.updatedReplicas
                                   <= sts'.status.updatedReplicas
  <2>1. /\ sts.status.updatedReplicas \in Nat
        /\ sts'.status.updatedReplicas \in Nat
        /\ Found.updatedReplicas \in Nat
    BY DEF Found, TypeOK, StsResource, StsStatus
  <2>2. Found.updateRevision = sts.template /\ pc = "upgrade"
          => UpdateRevision = sts.template
    BY DEF RolloutInv, ReadStays
  <2>. QED
    BY <1>1, <1>2, <2>1, <2>2 DEF RolloutInv, ReadStays
<1>3. CASE Observed
  BY <1>2, <1>3 DEF Observed
<1>4. CASE Resized
  <2>1. UpdateRevision' = UpdateRevision /\ CurrentRevision' = CurrentRevision
    BY <1>4 DEF Resized, SameRevisions, CurrentRevision, UpdateRevision
  <2>2. CurrentRevision = UpdateRevision
    BY <1>4 DEF Resized, RolloutInv, RevisionsInOrder
  <2>. QED
    BY <1>2, <2>1, <2>2
<1>5. CASE Replaced
  <2>1. UpdateRevision' = UpdateRevision /\ CurrentRevision' = CurrentRevision
    BY <1>5 DEF Replaced, SameRevisions, CurrentRevision, UpdateRevision
  <2>. QED
    BY <1>2, <1>5, <2>1, UpdatedGrows
<1>6. CASE Completed
  BY <1>2, <1>6 DEF Completed
<1>. QED
  BY <1>3, <1>4, <1>5, <1>6 DEF MovesPods

(* A step that does not touch the pods: what is read is new, or stays.     *)
LEMMA ReadStaysWithPass ==
  ASSUME TypeOK', RevisionsInOrder', ReadStays, PassMoves,
         Waits => UNCHANGED sts
  PROVE  ReadStays'
<1>1. CASE Waits
  BY <1>1 DEF Waits, ReadStays, Found, UpdateRevision, CurrentRevision
<1>2. CASE pc' = "upgrade" /\ foundSts' = sts' /\ Applies /\ GoesOn
  <2>1. sts'.ownerRv = instance'.rv /\ Found' = sts'.status
    BY <1>2 DEF Applies, GoesOn, Found
  <2>2. sts'.status.updatedReplicas \in Nat
    BY DEF TypeOK, StsResource, StsStatus
  <2>. QED
    BY <2>1, <2>2 DEF ReadStays, RevisionsInOrder, UpdateRevision, CurrentRevision
<1>3. CASE pc' # "upgrade"
  BY <1>3 DEF ReadStays
<1>. QED
  BY <1>1, <1>2, <1>3
  DEF PassMoves, Ends, EndPass, Begins, GoesOn, Saves, Early

LEMMA RevisionsApplied ==
  ASSUME TypeOK, RevisionsInOrder, Applies,
         Held' = Held \/ Steady,
         \/ Held' = Held
         \/ sts'.replicas = sts.replicas
         \/ sts'.template = sts.template
  PROVE  RevisionsInOrder'
<1>1. /\ UpdateRevision' = UpdateRevision /\ CurrentRevision' = CurrentRevision
      /\ pods' = pods /\ sts'.status = sts.status
  BY DEF Applies, UpdateRevision, CurrentRevision
<1>2. CASE sts'.replicas = sts.replicas /\ sts'.template = sts.template
  BY <1>1, <1>2 DEF RevisionsInOrder
<1>3. CASE Steady
  <2>1. sts.template # NoRevision
    BY TemplatesAreRevisions
  <2>. QED
    BY <1>1, <1>3, <2>1 DEF Steady, RevisionsInOrder, Held
<1>. QED
  BY <1>2, <1>3 DEF Held

(* Every step keeps RolloutInv.                                            *)
LEMMA NextRolloutInv ==
  ASSUME PatientUser, TypeOK, TypeOK', FollowerInv, RolloutInv, [Next]_vars
  PROVE  RolloutInv'
<1>1. /\ PassMoves /\ CachesMove
      /\ \/ LeavesAlone
         \/ Applies /\ ~ Waits
         \/ Edits /\ Waits
         \/ MovesPods /\ Waits
  BY StepKinds
<1>2. CASE LeavesAlone
  <2>1. AskedInOrder'
    BY <1>1, <1>2, AskedStays
    DEF LeavesAlone, Steady, CurrentRevision, UpdateRevision
  <2>2. RevisionsInOrder'
    BY <1>2 DEF LeavesAlone, RolloutInv, RevisionsInOrder, CurrentRevision,
                UpdateRevision
  <2>3. ReadStays'
    BY <1>1, <1>2, <2>2, ReadStaysWithPass DEF LeavesAlone, RolloutInv
  <2>. QED
    BY <2>1, <2>2, <2>3 DEF RolloutInv
<1>3. CASE Applies /\ ~ Waits
  <2>1. /\ AskedInOrder'
        /\ Held' = Held \/ Steady
        /\ \/ Held' = Held
           \/ sts'.replicas = sts.replicas
           \/ sts'.template = sts.template
    BY <1>1, <1>3, AskedApplied
  <2>2. RevisionsInOrder'
    BY <1>3, <2>1, RevisionsApplied DEF RolloutInv
  <2>3. ReadStays'
    BY <1>1, <1>3, <2>2, ReadStaysWithPass DEF RolloutInv
  <2>. QED
    BY <2>1, <2>2, <2>3 DEF RolloutInv
<1>4. CASE Edits /\ Waits
  <2>1. AskedInOrder'
    BY <1>1, <1>4, AskedEdited
  <2>2. RevisionsInOrder'
    BY <1>4 DEF Edits, RolloutInv, RevisionsInOrder, CurrentRevision,
                UpdateRevision
  <2>3. ReadStays'
    BY <1>1, <1>4, <2>2, ReadStaysWithPass DEF Edits, RolloutInv
  <2>. QED
    BY <2>1, <2>2, <2>3 DEF RolloutInv
<1>5. CASE MovesPods /\ Waits
  <2>1. RevisionsInOrder' /\ (Steady => Steady')
    BY <1>5, RevisionsMove
  <2>2. AskedInOrder'
    BY <1>1, <1>5, <2>1, AskedStays DEF MovesPods
  <2>3. ReadStays'
    BY <1>5, ReadStaysWithPods
  <2>. QED
    BY <2>1, <2>2, <2>3 DEF RolloutInv
<1>. QED
  BY <1>1, <1>2, <1>3, <1>4, <1>5

LEMMA InitRolloutInv ==
  ASSUME TypeOK, Init
  PROVE  RolloutInv
<1>1. /\ \A c \in CrCopies : c = InitialCr
      /\ cr = InitialCr /\ sts = NoSts /\ pods = <<>> /\ pc = "idle"
      /\ instance = InitialCr
  BY DEF Init, CrCopies
<1>2. Asked(InitialCr) = Held /\ ~ InitialCr.spec.triggerRollingRestart
  BY <1>1 DEF Asked, Held, InitialCr, InitialSpec, NoSts
<1>3. AskedInOrder
  BY <1>1, <1>2 DEF AskedInOrder, Writable
<1>4. /\ CurrentRevision = NoRevision /\ UpdateRevision = NoRevision
      /\ sts.status = StatusOf(pods, CurrentRevision, UpdateRevision)
  BY <1>1 DEF NoSts, StatusOf, CurrentRevision, UpdateRevision
<1>5. RevisionsInOrder
  BY <1>1, <1>4 DEF RevisionsInOrder
<1>. QED
  BY <1>1, <1>3, <1>5 DEF RolloutInv, ReadStays

(* One rollout at a time, of what the CR asks for, whatever the caches     *)
(* serve and wherever the operator crashes: at most two revisions of pods, *)
(* the second that of the StatefulSet's template.                          *)
THEOREM RolloutInvariant ==
  ASSUME PatientUser
  PROVE  Spec => []RolloutInv
<1>1. TypeOK /\ Init => RolloutInv
  BY InitRolloutInv
<1>2. TypeOK /\ TypeOK' /\ FollowerInv /\ RolloutInv /\ [Next]_vars
        => RolloutInv'
  BY NextRolloutInv
<1>. QED
  BY <1>1, <1>2, TypeCorrect, FollowerInvariant, PTL DEF Spec

-----------------------------------------------------------------------------
(* What a step does to the status of the CR.                               *)

Late == {"status", "createNode", "writeStatus"}

Upgrading(zs) == zs.conditions["Upgrading"]

Started ==
  /\ pc = "upgrade" /\ instance.rv = cr.rv /\ RollingOut
  /\ cr'.status.targetVersion = instance.spec.tag
  /\ Upgrading(cr'.status).reason # "Updating Zookeeper"

WentOn ==
  /\ IsUpgrading(cr.status)
  /\ cr'.status.targetVersion = cr.status.targetVersion
  /\ \/ Upgrading(cr'.status) = Upgrading(cr.status)
     \/ /\ pc = "upgrade" /\ instance.rv = cr.rv
        /\ Upgrading(cr'.status).message = Found.updatedReplicas
        /\ Upgrading(cr'.status).lastUpdate = now

Ended ==
  /\ WriteClusterStatus
  /\ ~ IsUpgrading(instance.status) /\ ~ IsUpgrading(cr'.status)

StatusMoves ==
  \/ cr'.status = cr.status
  \/ ~ IsUpgrading(cr.status) /\ ~ IsUpgrading(cr'.status)
  \/ Ended
  \/ IsUpgrading(cr'.status) /\ (Started \/ WentOn)

(* The condition that reports the progress of an upgrade.                  *)
LEMMA ProgressMeans ==
  ASSUME NEW zs \in ClusterStatusType, NEW message, NEW time,
         IsUpgrading(zs), message # Upgrading(zs).message
  PROVE  LET new == UpdateProgress(zs, message, time)
         IN  /\ IsUpgrading(new)
             /\ new.targetVersion = zs.targetVersion
             /\ Upgrading(new).message = message
             /\ Upgrading(new).lastUpdate = time
             /\ new.conditions["Error"] = zs.conditions["Error"]
<1>1. /\ "Upgrading" \in ConditionType /\ "Error" \in ConditionType
      /\ "Upgrading" # "Error" /\ "True" # "Absent"
  BY DEF ConditionType
<1>. QED
  BY <1>1
  DEF UpdateProgress, SetUpgradingTrue, SetCondition, ClusterStatusType,
      IsUpgrading, Upgrading

(* The local copy in upgradeStatefulSet has the conditions of the CR.      *)
LEMMA UpgradesAgree ==
  ASSUME TypeOK, StatusInv, CopiesExact, pc = "upgrade", instance.rv = cr.rv
  PROVE  /\ instance.status.conditions = cr.status.conditions
         /\ instance.status.targetVersion = cr.status.targetVersion
         /\ IsUpgrading(instance.status) <=> IsUpgrading(cr.status)
  BY DEF CopiesExact, StatusInv, VersionsAgree, SameUpgrade, UpgradeCompleted

LEMMA StartedMeans ==
  ASSUME TypeOK, FollowerInv, StartUpgrade, cr'.status # cr.status
  PROVE  IsUpgrading(cr'.status) /\ Started
<1>. DEFINE target  == [instance.status EXCEPT !.targetVersion = instance.spec.tag]
            unready == SetPodsReady(target, "False", now)
<1>0. "" # "Updating Zookeeper"
  OBVIOUS
<1>1. PICK reason :
        /\ StatusUpdate(SetUpgradingTrue(unready, reason, NoMessage, now),
                        "status")
        /\ reason # "Updating Zookeeper"
  BY <1>0, Zenon DEF StartUpgrade
<1>. DEFINE zs == SetUpgradingTrue(unready, reason, NoMessage, now)
<1>2. /\ target \in ClusterStatusType
      /\ target.targetVersion = instance.spec.tag
  BY StatusTypes DEF StatusCopies, ClusterStatusType, Version, TypeOK,
                     ClusterResource, ClusterSpec
<1>. HIDE DEF target
<1>3. /\ unready \in ClusterStatusType
      /\ unready.targetVersion = instance.spec.tag
  <2>1. unready \in ClusterStatusType /\ Kept(target, unready)
    BY <1>2, SettersType, SettersMean, StatusTypes
  <2>. QED
    BY <1>2, <2>1 DEF Kept
<1>. HIDE DEF unready
<1>4. /\ IsUpgrading(zs) /\ zs.targetVersion = instance.spec.tag
      /\ Upgrading(zs).reason = reason
  BY <1>3, SetConditionMeans
  DEF SetUpgradingTrue, IsUpgrading, Kept, Upgrading, ConditionType
<1>. HIDE DEF zs
<1>5. instance.rv = cr.rv /\ cr'.status = zs
  BY <1>1, StatusUpdateMeans DEF zs
<1>. QED
  BY <1>1, <1>4, <1>5 DEF StartUpgrade, InUpgrade, UpgradeDetected, Started

(* The steps that write the status, one by one.                            *)
LEMMA StatusWrites ==
  ASSUME TypeOK, FollowerInv, StatusInv, CopiesExact,
         \/ StartUpgrade \/ NoUpgrade \/ ReportProgress \/ FailUpgrade
         \/ WriteClusterStatus
  PROVE  StatusMoves
<1>0. instance.status \in ClusterStatusType
  BY StatusTypes DEF StatusCopies
<1>1. CASE StartUpgrade
  BY <1>1, StartedMeans DEF StatusMoves
<1>2. CASE NoUpgrade
  <2>1. pc = "upgrade" /\ ~ IsUpgrading(instance.status)
    BY <1>2 DEF NoUpgrade, InUpgrade, IsUpgrading
  <2>2. StatusUpdate(instance.status, "status")
    BY <1>2 DEF NoUpgrade
  <2>. QED
    BY <2>1, <2>2, StatusUpdateMeans, UpgradesAgree DEF StatusMoves
<1>3. CASE ReportProgress
  <2>. DEFINE n  == Found.updatedReplicas
              zs == UpdateProgress(instance.status, n, now)
  <2>1. /\ pc = "upgrade" /\ IsUpgrading(instance.status)
        /\ n # Upgrading(instance.status).message
        /\ StatusUpdate(zs, "status")
    BY <1>3 DEF ReportProgress, UpgradeInProgress, InUpgrade, IsUpgrading,
                ReportedProgress, Found, Upgrading
  <2>2. /\ IsUpgrading(zs)
        /\ zs.targetVersion = instance.status.targetVersion
        /\ Upgrading(zs).message = n /\ Upgrading(zs).lastUpdate = now
    BY <1>0, <2>1, ProgressMeans
  <2>. HIDE DEF zs, n
  <2>3. CASE instance.rv = cr.rv /\ cr'.status = zs
    BY <2>1, <2>2, <2>3, UpgradesAgree DEF StatusMoves, WentOn, n
  <2>. QED
    BY <2>1, <2>3, StatusUpdateMeans DEF StatusMoves
<1>4. CASE FailUpgrade
  <2>. DEFINE zs == SetErrorTrue(instance.status, now)
  <2>1. /\ pc = "upgrade" /\ IsUpgrading(instance.status)
        /\ StatusUpdate(zs, "status")
    BY <1>4 DEF FailUpgrade, UpgradeInProgress, InUpgrade, IsUpgrading
  <2>2. /\ zs.targetVersion = instance.status.targetVersion
        /\ Upgrading(zs) = Upgrading(instance.status)
        /\ IsUpgrading(zs)
    <3>1. "Error" \in ConditionType /\ "Upgrading" \in ConditionType \ {"Error"}
      BY DEF ConditionType
    <3>. QED
      BY <1>0, <2>1, <3>1, SetConditionMeans
      DEF SetErrorTrue, Kept, Upgrading, IsUpgrading
  <2>. HIDE DEF zs
  <2>3. CASE instance.rv = cr.rv /\ cr'.status = zs
    BY <2>1, <2>2, <2>3, UpgradesAgree DEF StatusMoves, WentOn, Upgrading
  <2>. QED
    BY <2>1, <2>3, StatusUpdateMeans DEF StatusMoves
<1>5. CASE WriteClusterStatus
  <2>1. ~ IsUpgrading(instance.status) /\ ~ IsUpgradeFailed(instance.status)
    BY <1>5 DEF WriteClusterStatus, InClusterStatus, StatusInv, PassKnows
  <2>2. ~ IsUpgrading(ReportedStatus)
    BY <2>1, ReportedStatusMeans
  <2>3. cr'.status = ReportedStatus
    <3>. DEFINE zs == ReportedStatus
    <3>1. cr' = IF zs = cr.status THEN cr
                ELSE [cr EXCEPT !.rv = @ + 1, !.status = zs]
      BY <1>5 DEF WriteClusterStatus
    <3>. HIDE DEF zs
    <3>. QED
      BY <3>1 DEF TypeOK, ClusterResource, zs
  <2>. QED
    BY <1>5, <2>1, <2>2, <2>3 DEF StatusMoves, Ended
<1>. QED
  BY <1>1, <1>2, <1>3, <1>4, <1>5

LEMMA StepStatusMoves ==
  ASSUME PatientUser, TypeOK, FollowerInv, RolloutInv, StatusInv, CopiesExact,
         [Next]_vars
  PROVE  /\ StatusMoves
         /\ LeavesAlone \/ cr'.status = cr.status
<1>1. CASE \/ StartUpgrade \/ NoUpgrade \/ ReportProgress \/ FailUpgrade
           \/ WriteClusterStatus
  BY <1>1, StatusWrites, CallsMove DEF Calls
<1>2. CASE Writes
  BY <1>2, WritesMove DEF StatusMoves
<1>3. CASE User \/ RollingRestart
  BY <1>3, UserEdits DEF StatusMoves, Edits
<1>4. CASE StatefulSetController \/ PodBecomesReady \/ PodFails
  BY <1>4, PodsMove DEF RolloutInv, MovesPods, StatusMoves
<1>5. CASE \/ Crash \/ SyncCrCache \/ SyncStsCache \/ CatchUp \/ Tick
           \/ UNCHANGED vars
  BY <1>5
  DEF Crash, SyncCrCache, SyncStsCache, CatchUp, Tick, vars, apiVars,
      StatusMoves
<1>6. CASE \/ BeginPass \/ CallFails \/ RecoverFailedUpgrade \/ StayFailed
           \/ RefuseStaleness \/ MetadataMissing \/ UpdateClusterSize
           \/ InitUpgrading \/ CompleteUpgrade \/ AwaitProgress
           \/ SkipClusterStatus \/ CreateParentNode \/ CreateNode
           \/ ClusterStatusConflict
  BY <1>6
  DEF BeginPass, CallFails, RecoverFailedUpgrade, StayFailed,
      RefuseStaleness, MetadataMissing, UpdateClusterSize, InitUpgrading,
      CompleteUpgrade, AwaitProgress, SkipClusterStatus, CreateParentNode,
      CreateNode, ClusterStatusConflict, apiVars, StatusMoves
<1>. QED
  BY <1>1, <1>2, <1>3, <1>4, <1>5, <1>6 DEF Next, Pass, Writes

-----------------------------------------------------------------------------
(* UpgradeInv, part by part.                                               *)

(* What StepKinds says of a step.                                          *)
AKind ==
  /\ PassMoves /\ CachesMove /\ now' \in {now, now + 1}
  /\ \/ LeavesAlone
     \/ Applies /\ (sts' = sts \/ sts'.rv = sts.rv + 1) /\ ~ Waits
     \/ Edits /\ Waits
     \/ MovesPods /\ Waits

(* A write of an object gives it a new version.                            *)
LEMMA WritesCount ==
  ASSUME TypeOK, FollowerInv, AKind
  PROVE  /\ cr' = cr \/ cr'.rv = cr.rv + 1
         /\ sts' = sts \/ sts'.rv = sts.rv + 1
         /\ cr.rv \in Nat /\ sts.rv \in Nat
<1>1. cr.rv \in Nat /\ sts.rv \in Nat
  BY VersionsAreNumbers
<1>. QED
  BY <1>1 DEF AKind, LeavesAlone, Applies, Edits, MovesPods

LEMMA CopiesStayExact ==
  ASSUME TypeOK, FollowerInv, FollowerInv', CopiesExact, AKind
  PROVE  CopiesExact'
<1>1. /\ cr' = cr \/ cr'.rv = cr.rv + 1
      /\ sts' = sts \/ sts'.rv = sts.rv + 1
      /\ cr.rv \in Nat /\ sts.rv \in Nat
  BY WritesCount
<1>2. /\ \A c \in {crCache, behind.cr, instance} : c.rv \in Nat /\ c.rv <= cr.rv
      /\ \A s \in {stsCache, behind.sts, foundSts} :
           s.rv \in Nat /\ s.rv <= sts.rv
  BY VersionsAreNumbers DEF CrCopies, StsCopies
<1>3. /\ \A c \in {crCache, behind.cr} : c.rv = cr'.rv => c = cr'
      /\ \A s \in {stsCache, behind.sts, foundSts} : s.rv = sts'.rv => s = sts'
  BY <1>1, <1>2 DEF CopiesExact
<1>4. \A c \in {crCache', behind'.cr} : c.rv = cr'.rv => c = cr'
  BY <1>3 DEF AKind, CachesMove
<1>5. \A s \in {stsCache', behind'.sts} : s.rv = sts'.rv => s = sts'
  BY <1>3 DEF AKind, CachesMove
<1>6. foundSts'.rv = sts'.rv => foundSts' = sts'
  <2>1. foundSts' \in {NoSts, foundSts, stsCache, sts'}
    BY DEF AKind, PassMoves, Ends, EndPass, Waits, Begins, GoesOn, Saves
  <2>2. NoSts.rv = sts'.rv => NoSts = sts'
    BY DEF FollowerInv, LabelVouches, Exists, NoSts
  <2>. QED
    BY <1>3, <2>1, <2>2
<1>7. ASSUME pc' \in Early, instance'.rv = cr'.rv
      PROVE  instance'.status.conditions = cr'.status.conditions
  <2>1. CASE Waits
    <3>1. instance.rv = cr.rv /\ cr' = cr
      BY <1>1, <1>2, <1>7, <2>1 DEF Waits
    <3>. QED
      BY <1>7, <2>1, <3>1 DEF Waits, CopiesExact, Early
  <2>2. CASE Begins
    BY <1>7, <2>2 DEF Begins, CopiesExact
  <2>3. CASE GoesOn
    BY <1>7, <2>3 DEF GoesOn, CopiesExact, Early
  <2>. QED
    BY <1>7, <2>1, <2>2, <2>3
    DEF AKind, PassMoves, Ends, EndPass, Saves, Early
<1>. QED
  BY <1>4, <1>5, <1>6, <1>7 DEF CopiesExact, Early

(* The StatefulSet holds what the CR asks for when the pass that has just  *)
(* written it has a current copy.                                          *)
LEMMA CurrentPassApplied ==
  ASSUME TypeOK, FollowerInv, RolloutInv, pc = "upgrade", instance.rv = cr.rv
  PROVE  /\ Asked(cr) = Held /\ instance.spec = cr.spec
         /\ ~ cr.spec.triggerRollingRestart
<1>1. instance.spec = cr.spec /\ cr \in CrCopies /\ cr.rv > 0
  BY DEF FollowerInv, CopiesAgree, CrCopies, TypeOK, ClusterResource
<1>2. sts.ownerRv = cr.rv
  BY DEF RolloutInv, ReadStays
<1>3. Exists(sts)
  BY <1>1, <1>2 DEF FollowerInv, LabelVouches, NoSts
<1>4. AppliedTo(cr.spec)
  BY <1>1, <1>2, <1>3 DEF FollowerInv, LabelVouches
<1>. QED
  BY <1>1, <1>4 DEF AppliedTo, Asked, Held, RolloutInv, AskedInOrder

LEMMA RolloutStays ==
  ASSUME TypeOK, FollowerInv, RolloutInv, UpgradeIsRollout, AKind, StatusMoves,
         LeavesAlone \/ cr'.status = cr.status
  PROVE  UpgradeIsRollout'
<1>1. CASE cr'.status = cr.status /\ IsUpgrading(cr.status)
  <2>0. /\ ~ cr.spec.triggerRollingRestart
        /\ cr.status.targetVersion = cr.spec.tag
        /\ Asked(cr) = Held
        /\ UpdateRevision = sts.template
    BY <1>1 DEF UpgradeIsRollout
  <2>1. CASE LeavesAlone
    BY <1>1, <2>0, <2>1
    DEF LeavesAlone, UpgradeIsRollout, Asked, Held, UpdateRevision
  <2>2. CASE Applies
    <3>1. Held' = Held /\ Asked(cr)' = Asked(cr) /\ UNCHANGED cr
      BY <2>0, <2>2, VersionsAreNumbers
      DEF Applies, Writable, RolloutInv, AskedInOrder, Asked
    <3>. QED
      BY <1>1, <2>0, <2>2, <3>1
      DEF Applies, UpgradeIsRollout, Held, UpdateRevision
  <2>3. CASE Edits
    BY <1>1, <2>0, <2>3 DEF Edits
  <2>4. CASE MovesPods
    <3>1. /\ UNCHANGED <<sts.replicas, sts.template, cr>>
          /\ Observed \/ Resized \/ Replaced \/ Completed
      BY <2>4 DEF MovesPods
    <3>2. UpdateRevision' = UpdateRevision
      BY <2>0, <3>1
      DEF Observed, Resized, Replaced, Completed, SameRevisions,
          UpdateRevision
    <3>. QED
      BY <1>1, <2>0, <3>1, <3>2 DEF UpgradeIsRollout, Asked, Held
  <2>. QED
    BY <2>1, <2>2, <2>3, <2>4 DEF AKind
<1>2. CASE ~ IsUpgrading(cr'.status)
  BY <1>2 DEF UpgradeIsRollout
<1>3. ASSUME LeavesAlone,
             /\ ~ cr.spec.triggerRollingRestart
             /\ cr'.status.targetVersion = cr.spec.tag
             /\ Asked(cr) = Held
             /\ UpdateRevision = sts.template
      PROVE  UpgradeIsRollout'
  BY <1>3 DEF LeavesAlone, UpgradeIsRollout, Asked, Held, UpdateRevision
<1>4. CASE Started /\ LeavesAlone
  <2>1. Found.updateRevision = sts.template
    BY <1>4 DEF Started, RollingOut, Found, RolloutInv, ReadStays
  <2>2. UpdateRevision = sts.template
    BY <1>4, <2>1 DEF Started, RolloutInv, ReadStays
  <2>. QED
    BY <1>3, <1>4, <2>2, CurrentPassApplied DEF Started
<1>5. CASE WentOn /\ LeavesAlone
  BY <1>3, <1>5 DEF WentOn, UpgradeIsRollout
<1>. QED
  BY <1>1, <1>2, <1>4, <1>5 DEF StatusMoves, Ended

(* In an upgrade, only the pass that finds equal revisions goes on with a  *)
(* current copy in which the upgrade is over.                              *)
Concludes ==
  /\ UNCHANGED <<cr, sts>> /\ instance.rv = cr.rv
  /\ \/ pc \in Late /\ ~ IsUpgrading(instance.status)
     \/ pc = "upgrade" /\ ~ RollingOut
     \/ CurrentRevision = UpdateRevision

LEMMA ClearedMeans ==
  ASSUME TypeOK, NEW zs, ClearUpgradeStatus(zs), pc' \in Late
  PROVE  instance.rv = cr.rv
  BY DEF ClearUpgradeStatus, EndPass, Late

LEMMA PassConcludes ==
  ASSUME TypeOK, FollowerInv, StatusInv, CopiesExact, Writes \/ Calls,
         pc' \in Late, instance'.rv = cr'.rv,
         IsUpgrading(cr'.status), ~ IsUpgrading(instance'.status)
  PROVE  Concludes
<1>. USE DEF apiVars, Unaffected, Late
<1>0. pc' \notin Early /\ pc' # "idle" /\ instance' # cr'
  BY DEF Early
<1>1. CASE Writes
  <2>1. /\ pc = "statefulSet" /\ instance' = instance /\ cr' = cr
    BY <1>0, <1>1, CreateApplies
    DEF Writes, CreateStatefulSet, UpdateSameSize, UpdateNewSize,
        WriteStatefulSet, EndPass, Continue
  <2>. QED
    BY <2>1 DEF CopiesExact, IsUpgrading
<1>2. CASE StartUpgrade \/ NoUpgrade \/ ReportProgress \/ FailUpgrade
  <2>1. PICK zs : StatusUpdate(zs, "status")
    BY <1>2, Zenon DEF StartUpgrade, NoUpgrade, ReportProgress, FailUpgrade
  <2>. QED
    BY <1>0, <2>1 DEF StatusUpdate, Continue, EndPass
<1>3. CASE RecoverFailedUpgrade
  <2>1. PICK zs : ClearUpgradeStatus(zs)
    BY <1>3, Zenon DEF RecoverFailedUpgrade
  <2>2. instance.rv = cr.rv
    BY <2>1, ClearedMeans
  <2>. QED
    BY <1>3, <2>2
    DEF RecoverFailedUpgrade, Concludes, CurrentRevision, UpdateRevision
<1>4. CASE CompleteUpgrade
  <2>1. PICK zs : ClearUpgradeStatus(zs)
    BY <1>4, Zenon DEF CompleteUpgrade
  <2>2. instance.rv = cr.rv
    BY <2>1, ClearedMeans
  <2>3. pc = "upgrade" /\ IsUpgrading(instance.status)
    BY <1>4 DEF CompleteUpgrade, InUpgrade, IsUpgrading
  <2>4. ~ RollingOut
    BY <1>4, <2>3
    DEF CompleteUpgrade, UnknownTarget, StatusInv, StatusCopies, Coherent
  <2>. QED
    BY <1>4, <2>2, <2>3, <2>4 DEF CompleteUpgrade, Concludes
<1>5. CASE InitUpgrading
  <2>1. /\ pc = "upgrade" /\ ~ IsUpgrading(instance.status)
        /\ cr' = cr /\ instance'.rv = instance.rv
    BY <1>5 DEF InitUpgrading, InUpgrade, IsUpgrading, Continue, TypeOK,
                ClusterResource
  <2>. QED
    BY <2>1 DEF CopiesExact, IsUpgrading
<1>6. CASE AwaitProgress
  BY <1>6
  DEF AwaitProgress, UpgradeInProgress, InUpgrade, IsUpgrading, Continue
<1>7. CASE CreateParentNode
  BY <1>0, <1>7
  DEF CreateParentNode, InClusterStatus, Continue, EndPass, Concludes
<1>8. CASE CreateNode
  <2>. DEFINE x == [instance EXCEPT !.status.metaRootCreated = TRUE]
  <2>1. x.rv = instance.rv /\ x.status.conditions = instance.status.conditions
    BY DEF TypeOK, ClusterResource, ClusterStatusType
  <2>2. instance' = x /\ pc = "createNode" /\ UNCHANGED <<cr, sts>>
    BY <1>8 DEF CreateNode, Continue
  <2>. HIDE DEF x
  <2>. QED
    BY <2>1, <2>2 DEF Concludes, IsUpgrading
<1>9. CASE \/ BeginPass \/ CallFails \/ StayFailed \/ RefuseStaleness
           \/ MetadataMissing \/ UpdateClusterSize \/ SkipClusterStatus
           \/ WriteClusterStatus \/ ClusterStatusConflict
  BY <1>0, <1>9
  DEF BeginPass, CallFails, StayFailed, RefuseStaleness, MetadataMissing,
      UpdateClusterSize, SkipClusterStatus, WriteClusterStatus,
      ClusterStatusConflict, EndPass, Continue
<1>. QED
  BY <1>1, <1>2, <1>3, <1>4, <1>5, <1>6, <1>7, <1>8, <1>9 DEF Calls

(* Steps other than those of a pass.                                       *)
LEMMA OthersWait ==
  ASSUME PatientUser, TypeOK, FollowerInv, RolloutInv, [Next]_vars, ~ Waits,
         pc' \in Late
  PROVE  Writes \/ Calls
<1>1. CASE User \/ RollingRestart
  BY <1>1, UserEdits DEF Waits
<1>2. CASE StatefulSetController \/ PodBecomesReady \/ PodFails
  BY <1>2, PodsMove DEF RolloutInv, MovesPods, Waits
<1>3. CASE \/ Crash \/ SyncCrCache \/ SyncStsCache \/ CatchUp \/ Tick
           \/ UNCHANGED vars
  BY <1>3
  DEF Crash, SyncCrCache, SyncStsCache, CatchUp, Tick, vars, operatorVars,
      EndPass, Late, Waits
<1>. QED
  BY <1>1, <1>2, <1>3 DEF Next, Pass, Writes, Calls

LEMMA EndStays ==
  ASSUME PatientUser, TypeOK, FollowerInv, RolloutInv, StatusInv,
         CopiesExact, UpgradeIsRollout, EndIsEnd, AKind, [Next]_vars
  PROVE  EndIsEnd'
<1>1. SUFFICES ASSUME instance'.rv = cr'.rv, IsUpgrading(cr'.status)
               PROVE  /\ pc' = "upgrade"
                           => foundSts'.status.updateRevision = sts'.template
                      /\ pc' \in Late /\ ~ IsUpgrading(instance'.status)
                           => CurrentRevision' = sts'.template
  BY DEF EndIsEnd, Late, Found
<1>2. CASE Waits
  <2>1. UNCHANGED <<pc, instance, foundSts, cr>> /\ instance.rv = cr.rv
    <3>1. cr' = cr \/ cr'.rv = cr.rv + 1
      BY WritesCount
    <3>2. instance.rv \in Nat /\ cr.rv \in Nat /\ instance.rv <= cr.rv
      BY VersionsAreNumbers
    <3>. QED
      BY <1>1, <1>2, <3>1, <3>2 DEF Waits
  <2>2. UNCHANGED sts.template
    BY <1>2, <2>1, VersionsAreNumbers
    DEF AKind, LeavesAlone, Edits, MovesPods
  <2>3. CurrentRevision = sts.template => CurrentRevision' = sts.template
    <3>1. CASE UNCHANGED sts
      BY <3>1 DEF CurrentRevision
    <3>2. CASE MovesPods
      <4>1. UpdateRevision = sts.template
        BY <1>1, <2>1 DEF UpgradeIsRollout
      <4>. QED
        BY <3>2, <4>1
        DEF MovesPods, Observed, Resized, Replaced, Completed, SameRevisions,
            CurrentRevision
    <3>. QED
      BY <1>2, <3>1, <3>2 DEF AKind, LeavesAlone, Edits
  <2>. QED
    BY <1>1, <2>1, <2>2, <2>3 DEF EndIsEnd, Late, Found
<1>3. CASE ~ Waits /\ pc' = "upgrade"
  <2>1. /\ foundSts' = sts' /\ Applies
        /\ instance'.rv = instance.rv /\ UNCHANGED cr
    BY <1>3
    DEF AKind, PassMoves, Ends, EndPass, Begins, GoesOn, Saves, Early
  <2>2. /\ Asked(cr) = Held /\ UpdateRevision = sts.template
        /\ instance.spec = cr.spec
    BY <1>1, <2>1 DEF UpgradeIsRollout, FollowerInv, CopiesAgree, CrCopies
  <2>3. sts'.template = sts.template
    BY <2>1, <2>2 DEF Applies, Asked, Held
  <2>. QED
    BY <1>3, <2>1, <2>2, <2>3 DEF Applies, UpdateRevision, Late
<1>4. CASE ~ Waits /\ pc' \in Late /\ ~ IsUpgrading(instance'.status)
  <2>1. Concludes
    BY <1>1, <1>4, OthersWait, PassConcludes
  <2>2. IsUpgrading(cr.status) /\ instance.rv = cr.rv /\ UNCHANGED sts
    BY <1>1, <2>1 DEF Concludes
  <2>3. UpdateRevision = sts.template
    BY <2>2 DEF UpgradeIsRollout
  <2>4. CurrentRevision = sts.template
    <3>1. CASE pc \in Late /\ ~ IsUpgrading(instance.status)
      BY <2>2, <3>1 DEF EndIsEnd, Late
    <3>2. CASE pc = "upgrade" /\ ~ RollingOut
      BY <2>2, <3>2 DEF EndIsEnd, RollingOut, RolloutInv, ReadStays, Found
    <3>. QED
      BY <2>1, <2>3, <3>1, <3>2 DEF Concludes
  <2>. QED
    BY <1>4, <2>2, <2>4 DEF CurrentRevision, Late
<1>. QED
  BY <1>2, <1>3, <1>4

(* As long as the rollout goes on no step loses an updated pod, and each   *)
(* that updates one is as late as can be.                                  *)
LEMMA ProgressStays ==
  ASSUME TypeOK, TypeOK', FollowerInv, RolloutInv, StatusInv, UpgradeInv,
         AKind, StatusMoves, LeavesAlone \/ cr'.status = cr.status
  PROVE  ProgressReported'
<1>. DEFINE reported == Upgrading(cr.status)
<1>1. SUFFICES ASSUME IsUpgrading(cr'.status),
                      Upgrading(cr'.status).reason = "Updating Zookeeper",
                      CurrentRevision' # UpdateRevision'
               PROVE  /\ Upgrading(cr'.status).lastUpdate # Never
                      /\ Upgrading(cr'.status).message
                           <= sts'.status.updatedReplicas
                      /\ Upgrading(cr'.status).message
                           = sts'.status.updatedReplicas
                           => progressAt' <= Upgrading(cr'.status).lastUpdate
  BY DEF ProgressReported, Upgrading
<1>2. /\ sts.status.updatedReplicas \in Nat
      /\ sts'.status.updatedReplicas \in Nat
      /\ reported.message \in Nat \cup {NoMessage}
      /\ NoMessage \in Int
  <2>1. cr.status.conditions["Upgrading"] \in Condition
    BY DEF TypeOK, ClusterResource, ClusterStatusType, ConditionType
  <2>2. \A c \in Condition : c.message \in Nat \cup {NoMessage}
    BY Zenon DEF Condition
  <2>3. NoMessage \in Int
    BY DEF NoMessage
  <2>. QED
    BY <2>1, <2>2, <2>3 DEF TypeOK, StsResource, StsStatus, Upgrading
<1>3. ASSUME IsUpgrading(cr.status), Upgrading(cr'.status) = reported,
             UNCHANGED <<sts.status, progressAt>>
      PROVE  /\ Upgrading(cr'.status).lastUpdate # Never
             /\ Upgrading(cr'.status).message <= sts'.status.updatedReplicas
             /\ Upgrading(cr'.status).message = sts'.status.updatedReplicas
                  => progressAt' <= Upgrading(cr'.status).lastUpdate
  BY <1>1, <1>3
  DEF UpgradeInv, ProgressReported, Upgrading, CurrentRevision, UpdateRevision
<1>4. CASE cr'.status = cr.status
  <2>1. CASE LeavesAlone \/ Applies \/ Edits
    BY <1>1, <1>3, <1>4, <2>1 DEF LeavesAlone, Applies, Edits
  <2>2. CASE MovesPods
    <3>1. CurrentRevision # UpdateRevision /\ Replaced
      <4>1. UpdateRevision = sts.template
        BY <1>1, <1>4 DEF UpgradeInv, UpgradeIsRollout
      <4>2. ~ Observed /\ ~ Completed
        BY <1>1, <4>1 DEF Observed, Completed
      <4>3. ~ Resized
        BY <1>1, <4>1
        DEF Resized, RolloutInv, RevisionsInOrder, SameRevisions,
            CurrentRevision, UpdateRevision
      <4>4. Replaced
        BY <2>2, <4>2, <4>3 DEF MovesPods
      <4>. QED
        BY <1>1, <4>4
        DEF Replaced, SameRevisions, CurrentRevision, UpdateRevision
    <3>2. sts.status.updatedReplicas <= sts'.status.updatedReplicas
      BY <2>2, <3>1, UpdatedGrows
    <3>3. /\ reported.lastUpdate # Never
          /\ reported.message <= sts.status.updatedReplicas
          /\ reported.message = sts.status.updatedReplicas
               => progressAt <= reported.lastUpdate
      BY <1>1, <1>4, <3>1 DEF UpgradeInv, ProgressReported, Upgrading
    <3>4. progressAt' = IF sts'.status.updatedReplicas
                             = sts.status.updatedReplicas
                        THEN progressAt ELSE now
      BY <2>2 DEF MovesPods
    <3>. QED
      BY <1>2, <1>4, <3>2, <3>3, <3>4
  <2>. QED
    BY <2>1, <2>2 DEF AKind
<1>5. CASE Started
  BY <1>1, <1>5 DEF Started
<1>6. CASE WentOn /\ LeavesAlone
  <2>1. CASE Upgrading(cr'.status) = reported
    BY <1>3, <1>6, <2>1 DEF WentOn, LeavesAlone
  <2>2. CASE /\ pc = "upgrade" /\ instance.rv = cr.rv
             /\ Upgrading(cr'.status).message = Found.updatedReplicas
             /\ Upgrading(cr'.status).lastUpdate = now
    <3>1. Found.updateRevision = sts.template
      BY <1>6, <2>2 DEF WentOn, UpgradeInv, EndIsEnd
    <3>2. /\ sts' = sts /\ progressAt' = progressAt
          /\ CurrentRevision # UpdateRevision
      BY <1>1, <1>6 DEF LeavesAlone, CurrentRevision, UpdateRevision
    <3>3. Found.updatedReplicas <= sts.status.updatedReplicas
      BY <2>2, <3>1, <3>2 DEF RolloutInv, ReadStays
    <3>4. now # Never /\ progressAt <= now
      BY DEF UpgradeInv, Never, TypeOK
    <3>. QED
      BY <2>2, <3>2, <3>3, <3>4
  <2>. QED
    BY <1>6, <2>1, <2>2 DEF WentOn
<1>. QED
  BY <1>1, <1>4, <1>5, <1>6 DEF StatusMoves, Ended

(* Every step keeps UpgradeInv.                                            *)
LEMMA NextUpgradeInv ==
  ASSUME PatientUser, TypeOK, TypeOK', FollowerInv, FollowerInv', StatusInv,
         RolloutInv, UpgradeInv, [Next]_vars
  PROVE  UpgradeInv'
<1>1. AKind
  BY StepKinds DEF AKind
<1>2. StatusMoves /\ (LeavesAlone \/ cr'.status = cr.status)
  BY StepStatusMoves DEF UpgradeInv
<1>3. CopiesExact' /\ UpgradeIsRollout' /\ EndIsEnd'
  BY <1>1, <1>2, CopiesStayExact, RolloutStays, EndStays DEF UpgradeInv
<1>4. Never < now' /\ progressAt' <= now'
  BY <1>1
  DEF UpgradeInv, AKind, LeavesAlone, Applies, Edits, MovesPods, TypeOK, Never
<1>. QED
  BY <1>1, <1>2, <1>3, <1>4, ProgressStays DEF UpgradeInv

LEMMA InitUpgradeInv ==
  ASSUME Init
  PROVE  UpgradeInv
<1>1. ~ IsUpgrading(cr.status)
  BY EmptyStatusMeans DEF Init, InitialCr
<1>2. CopiesExact
  BY DEF Init, CopiesExact
<1>3. Never < now /\ progressAt <= now
  BY DEF Init, Never
<1>. QED
  BY <1>1, <1>2, <1>3
  DEF UpgradeInv, UpgradeIsRollout, EndIsEnd, ProgressReported

(* An upgrade is to the version the StatefulSet rolls out, and what the    *)
(* operator reports about it is not older than what it is based on.        *)
THEOREM UpgradeInvariant ==
  ASSUME PatientUser
  PROVE  Spec => []UpgradeInv
<1>1. TypeOK /\ TypeOK' /\ FollowerInv /\ FollowerInv' /\ StatusInv
        /\ RolloutInv /\ UpgradeInv /\ [Next]_vars
        => UpgradeInv'
  BY NextUpgradeInv
<1>. QED
  BY <1>1, InitUpgradeInv, TypeCorrect, FollowerInvariant, StatusInvariant,
     RolloutInvariant, PTL
  DEF Spec

-----------------------------------------------------------------------------
(* The end of an upgrade, in success and in failure.                       *)

LEMMA EndedRuns ==
  ASSUME TypeOK, FollowerInv, StatusInv, RolloutInv, UpgradeInv, Ended,
         IsUpgrading(cr.status)
  PROVE  PodsRun(cr'.status.currentVersion)
<1>1. /\ pc \in {"status", "writeStatus"} /\ instance.rv = cr.rv
      /\ ~ IsUpgrading(instance.status) /\ ~ IsUpgradeFailed(instance.status)
  BY DEF Ended, WriteClusterStatus, InClusterStatus, StatusInv, PassKnows
<1>2. CurrentRevision = sts.template /\ UpdateRevision = sts.template
  BY <1>1 DEF UpgradeInv, EndIsEnd, UpgradeIsRollout
<1>3. \A i \in DOMAIN pods : pods[i].revision = sts.template
  BY <1>2 DEF RolloutInv, RevisionsInOrder
<1>4. sts.template.tag = cr.spec.tag
  <2>1. sts.template = TemplateOf(cr.spec)
    BY DEF UpgradeInv, UpgradeIsRollout, Asked, Held
  <2>. QED
    BY <2>1 DEF TemplateOf
<1>5. instance.status.currentVersion = cr.spec.tag /\ cr.spec.tag # NoTag
  BY <1>1, StatusTypes
  DEF StatusInv, VersionsAgree, SameUpgrade, UpgradeCompleted, UpgradeInv,
      UpgradeIsRollout
<1>6. ReportedStatus.currentVersion = cr.spec.tag
  BY <1>1, <1>5, ReportedStatusMeans
<1>7. cr'.status.currentVersion = cr.spec.tag
  <2>. DEFINE zs == ReportedStatus
  <2>1. cr' = IF zs = cr.status THEN cr
              ELSE [cr EXCEPT !.rv = @ + 1, !.status = zs]
    BY DEF Ended, WriteClusterStatus
  <2>. HIDE DEF zs
  <2>2. cr'.status = zs
    BY <2>1 DEF TypeOK, ClusterResource
  <2>. QED
    BY <1>6, <2>2 DEF zs
<1>. QED
  BY <1>3, <1>4, <1>7 DEF PodsRun

(* When the operator reports that an upgrade is complete every pod runs    *)
(* the version it reports: no cache and no crash makes it take an earlier  *)
(* rollout, or a rollout that has not begun, for the end of this one       *)
(* (upgradeStatefulSet compares revisions it read before).                 *)
THEOREM UpgradesComplete ==
  ASSUME PatientUser
  PROVE  Spec => CompletedUpgradeRuns
<1>1. TypeOK /\ FollowerInv /\ StatusInv /\ RolloutInv /\ UpgradeInv
        /\ [Next]_vars
        => [IsUpgrading(cr.status) /\ ~ IsUpgrading(cr'.status)
              => PodsRun(cr'.status.currentVersion)]_vars
  <2>1. SUFFICES ASSUME TypeOK, FollowerInv, StatusInv, RolloutInv,
                        UpgradeInv, [Next]_vars,
                        IsUpgrading(cr.status), ~ IsUpgrading(cr'.status)
                 PROVE  PodsRun(cr'.status.currentVersion)
    OBVIOUS
  <2>2. StatusMoves
    BY <2>1, StepStatusMoves DEF UpgradeInv
  <2>3. Ended
    BY <2>1, <2>2 DEF StatusMoves, IsUpgrading
  <2>. QED
    BY <2>1, <2>3, EndedRuns
<1>. QED
  BY <1>1, TypeCorrect, FollowerInvariant, StatusInvariant,
     RolloutInvariant, UpgradeInvariant, PTL
  DEF Spec, CompletedUpgradeRuns

(* The status says that the upgrade failed only after FailUpgrade.         *)
LEMMA OnlyFailUpgradeFails ==
  ASSUME TypeOK, FollowerInv, StatusInv, CopiesExact, [Next]_vars,
         ~ IsUpgradeFailed(cr.status), IsUpgradeFailed(cr'.status)
  PROVE  FailUpgrade /\ instance.rv = cr.rv
<1>0. /\ instance.status \in ClusterStatusType /\ now \in Nat
      /\ instance.spec.tag \in Version
  BY StatusTypes DEF StatusCopies, TypeOK, ClusterResource, ClusterSpec, Version
<1>1. ASSUME NEW zs, StatusUpdate(zs, "status")
      PROVE  cr'.status = zs /\ instance.rv = cr.rv
  BY <1>1, StatusUpdateMeans
<1>2. pc = "upgrade" /\ instance.rv = cr.rv => ~ IsUpgradeFailed(instance.status)
  BY UpgradesAgree DEF IsUpgradeFailed
<1>3. ~ StartUpgrade
  <2>. SUFFICES ASSUME StartUpgrade PROVE FALSE
    OBVIOUS
  <2>. DEFINE target  == [instance.status EXCEPT
                            !.targetVersion = instance.spec.tag]
              unready == SetPodsReady(target, "False", now)
  <2>1. PICK reason :
          StatusUpdate(SetUpgradingTrue(unready, reason, NoMessage, now),
                       "status")
    BY Zenon DEF StartUpgrade
  <2>2. target \in ClusterStatusType
        /\ (IsUpgradeFailed(target) <=> IsUpgradeFailed(instance.status))
    BY <1>0 DEF ClusterStatusType, IsUpgradeFailed
  <2>. HIDE DEF target
  <2>3. /\ unready \in ClusterStatusType
        /\ IsUpgradeFailed(unready) <=> IsUpgradeFailed(target)
    BY <1>0, <2>2, SettersType, SettersMean
  <2>. HIDE DEF unready
  <2>. DEFINE zs == SetUpgradingTrue(unready, reason, NoMessage, now)
  <2>4. IsUpgradeFailed(zs) <=> IsUpgradeFailed(unready)
    BY <2>3, SettersMean
  <2>. HIDE DEF zs
  <2>5. cr'.status = zs /\ instance.rv = cr.rv
    BY <1>1, <2>1 DEF zs
  <2>6. pc = "upgrade"
    BY DEF StartUpgrade, InUpgrade
  <2>. QED
    BY <1>2, <2>2, <2>3, <2>4, <2>5, <2>6
<1>4. ~ NoUpgrade
  BY <1>1, <1>2 DEF NoUpgrade, InUpgrade
<1>5. ~ ReportProgress
  <2>. SUFFICES ASSUME ReportProgress PROVE FALSE
    OBVIOUS
  <2>. DEFINE n  == Found.updatedReplicas
              zs == UpdateProgress(instance.status, n, now)
  <2>1. /\ pc = "upgrade" /\ IsUpgrading(instance.status)
        /\ n # Upgrading(instance.status).message
        /\ StatusUpdate(zs, "status")
    BY DEF ReportProgress, UpgradeInProgress, InUpgrade, IsUpgrading,
           ReportedProgress, Found, Upgrading
  <2>2. zs.conditions["Error"] = instance.status.conditions["Error"]
    BY <1>0, <2>1, ProgressMeans
  <2>. HIDE DEF zs
  <2>. QED
    BY <1>1, <1>2, <2>1, <2>2 DEF IsUpgradeFailed
<1>6. ~ WriteClusterStatus
  <2>. SUFFICES ASSUME WriteClusterStatus PROVE FALSE
    OBVIOUS
  <2>1. ~ IsUpgrading(instance.status) /\ ~ IsUpgradeFailed(instance.status)
    BY DEF WriteClusterStatus, InClusterStatus, StatusInv, PassKnows
  <2>. DEFINE zs == ReportedStatus
  <2>2. ~ IsUpgradeFailed(zs)
    BY <2>1, ReportedStatusMeans DEF Coherent
  <2>3. cr' = IF zs = cr.status THEN cr
              ELSE [cr EXCEPT !.rv = @ + 1, !.status = zs]
    BY DEF WriteClusterStatus
  <2>. HIDE DEF zs
  <2>. QED
    BY <2>2, <2>3 DEF TypeOK, ClusterResource
<1>7. ~ Writes
  BY WritesMove
<1>8. ~ RollingRestart /\ ~ User
  BY DEF RollingRestart, User, EditReplicas, EditTag, RequestRestart, EditSpec,
         TypeOK, ClusterResource
<1>9. ~ (StatefulSetController \/ PodBecomesReady \/ PodFails)
  BY DEF StatefulSetController, ObserveTemplate, PodCreated, PodDeleted,
         PodReplaced, RolloutCompletes, PodBecomesReady, PodFails, SetPods
<1>10. cr' # cr
  OBVIOUS
<1>11. FailUpgrade
  BY <1>3, <1>4, <1>5, <1>6, <1>7, <1>8, <1>9, <1>10
  DEF Next, Pass, Writes, BeginPass, CallFails, RecoverFailedUpgrade,
      StayFailed, RefuseStaleness, MetadataMissing, UpdateClusterSize,
      InitUpgrading, CompleteUpgrade, AwaitProgress, SkipClusterStatus,
      CreateParentNode, CreateNode, ClusterStatusConflict, Crash,
      SyncCrCache, SyncStsCache, CatchUp, Tick, vars, apiVars
<1>. QED
  BY <1>1, <1>11 DEF FailUpgrade

(* An upgrade is declared failed only when the number of updated pods has  *)
(* not changed for longer than the deadline, although the operator may     *)
(* have been down, late, or served by old caches meanwhile                 *)
(* (checkSyncTimeout compares the last report with what it read).          *)
THEOREM FailuresAreTimely ==
  ASSUME PatientUser
  PROVE  Spec => NoPrematureFailure
<1>1. TypeOK /\ FollowerInv /\ StatusInv /\ RolloutInv /\ UpgradeInv
        /\ [Next]_vars
        => [~ IsUpgradeFailed(cr.status) /\ IsUpgradeFailed(cr'.status)
                /\ foundSts.rv = sts.rv
              => now > progressAt + Deadline]_vars
  <2>1. SUFFICES ASSUME TypeOK, FollowerInv, StatusInv, RolloutInv,
                        UpgradeInv, [Next]_vars,
                        ~ IsUpgradeFailed(cr.status),
                        IsUpgradeFailed(cr'.status), foundSts.rv = sts.rv
                 PROVE  now > progressAt + Deadline
    OBVIOUS
  <2>2. FailUpgrade /\ instance.rv = cr.rv
    BY <2>1, OnlyFailUpgradeFails DEF UpgradeInv
  <2>3. foundSts = sts
    BY <2>1 DEF UpgradeInv, CopiesExact
  <2>4. /\ pc = "upgrade" /\ RollingOut
        /\ Upgrading(instance.status).message = sts.status.updatedReplicas
        /\ IsUpgrading(instance.status)
        /\ Upgrading(instance.status).reason = "Updating Zookeeper"
        /\ \/ Upgrading(instance.status).lastUpdate = Never
           \/ now > Upgrading(instance.status).lastUpdate + Deadline
    BY <2>2, <2>3
    DEF FailUpgrade, UpgradeInProgress, InUpgrade, SyncTimedOut,
        ReportedProgress, Upgrading
  <2>5. /\ Upgrading(cr.status) = Upgrading(instance.status)
        /\ IsUpgrading(cr.status) /\ CurrentRevision # UpdateRevision
    BY <2>1, <2>2, <2>3, <2>4, UpgradesAgree
    DEF UpgradeInv, Upgrading, RollingOut, CurrentRevision, UpdateRevision
  <2>6. /\ Upgrading(cr.status).lastUpdate # Never
        /\ progressAt <= Upgrading(cr.status).lastUpdate
    BY <2>1, <2>4, <2>5 DEF UpgradeInv, ProgressReported, Upgrading
  <2>7. \A c \in Condition : c.lastUpdate \in Nat
    BY Zenon DEF Condition
  <2>8. Upgrading(cr.status).lastUpdate \in Nat
    BY <2>1, <2>7
    DEF TypeOK, ClusterResource, ClusterStatusType, ConditionType, Upgrading
  <2>9. progressAt \in Nat /\ now \in Nat
    BY <2>1 DEF TypeOK
  <2>. DEFINE reported == Upgrading(cr.status).lastUpdate
  <2>10. now > reported + Deadline
    BY <2>4, <2>5, <2>6
  <2>. HIDE DEF reported
  <2>11. reported \in Nat /\ progressAt <= reported
    BY <2>6, <2>8 DEF reported
  <2>. QED
    BY <2>9, <2>10, <2>11, DeadlineAssumption
<1>. QED
  BY <1>1, TypeCorrect, FollowerInvariant, StatusInvariant,
     RolloutInvariant, UpgradeInvariant, PTL
  DEF Spec, NoPrematureFailure

-----------------------------------------------------------------------------
(* The order of the sizes: what the operator promises the members of the   *)
(* ensemble.                                                               *)

Premises == PatientUser /\ ~ LostWrites /\ ~ StaleRestarts

SizesContext ==
  /\ TypeOK /\ FollowerInv /\ StatusInv /\ RolloutInv /\ UpgradeInv
  /\ SizeInv /\ SizesInOrder

(* What a step does to the three sizes.                                    *)
SizesStep == SizesInOrder' /\ [Sizes!Next]_(Sizes!vars)

(* The numbers that the order is about.                                    *)
LEMMA SizesAreNumbers ==
  ASSUME TypeOK, FollowerInv
  PROVE  /\ {cr.rv, crCache.rv, instance.rv, sts.ownerRv} \subseteq Nat
         /\ crCache.rv <= cr.rv /\ instance.rv <= cr.rv
         /\ sts.ownerRv <= cr.rv
         /\ instance.spec.replicas \in Size /\ cr.spec.replicas \in Size
         /\ NoSize \notin Size
<1>1. {crCache, instance} \subseteq CrCopies
  BY DEF CrCopies
<1>2. instance.spec.replicas \in Size /\ cr.spec.replicas \in Size
  BY DEF TypeOK, ClusterResource, ClusterSpec
<1>. QED
  BY <1>1, <1>2, VersionsAreNumbers, SizeAssumption DEF NoSize

(* The three sizes stay, and the pass waits, ends, begins or goes on.      *)
LEMMA SizesKept ==
  ASSUME SizesContext,
         cr'.spec.replicas = cr.spec.replicas,
         UNCHANGED <<sts.ownerRv, sts.replicas, znode.size>>,
         znode.parent => znode'.parent,
         crCache' \in {crCache, cr},
         \/ UNCHANGED <<pc, instance>>
         \/ pc' \in {"idle", "writeStatus"}
         \/ pc' = "statefulSet" /\ instance' = crCache /\ crCache' = crCache
         \/ pc' = "status" /\ instance'.spec.replicas = sts.replicas
         \/ /\ pc = "status" /\ pc' = "createNode"
            /\ instance' = instance /\ znode.size = NoSize
  PROVE  SizesStep
<1>1. /\ {cr.rv, crCache.rv, instance.rv, sts.ownerRv} \subseteq Nat
      /\ instance.rv <= cr.rv /\ sts.ownerRv <= cr.rv
  BY SizesAreNumbers DEF SizesContext
<1>2. SizesInOrder
  BY DEF SizesContext
<1>3. crCache'.rv >= sts'.ownerRv
  BY <1>1, <1>2 DEF SizesInOrder
<1>4. pc' \in {"statefulSet", "updateSts"} =>
        sts'.ownerRv <= instance'.rv /\ instance'.rv <= crCache'.rv
  BY <1>1, <1>2, <1>3 DEF SizesInOrder
<1>5. znode'.size \notin {NoSize, sts'.replicas} =>
        /\ znode'.size = cr'.spec.replicas
        /\ crCache'.spec.replicas = znode'.size
        /\ pc' \in {"statefulSet", "updateSts"}
             => instance'.spec.replicas = znode'.size
  BY <1>2 DEF SizesInOrder
<1>6. /\ znode'.size = NoSize => cr'.spec.replicas = sts'.replicas
      /\ pc' \in {"upgrade", "status", "createNode"}
           => instance'.spec.replicas = sts'.replicas
      /\ pc' = "createNode" => znode'.size = NoSize
      /\ ~ znode'.parent => znode'.size = NoSize
  BY <1>2 DEF SizesInOrder
<1>7. SizesInOrder'
  BY <1>3, <1>4, <1>5, <1>6 DEF SizesInOrder
<1>. QED
  BY <1>7 DEF SizesStep, Sizes!vars

(* The local copy of a pass that may still write asks for the size of the  *)
(* StatefulSet, or for the one that the CR and its cache ask for.          *)
LEMMA PassesAsk ==
  ASSUME SizesContext, pc \in {"statefulSet", "updateSts"},
         instance.spec.replicas # sts.replicas
  PROVE  /\ cr.spec.replicas = instance.spec.replicas
         /\ crCache.spec.replicas = instance.spec.replicas
<1>1. /\ sts.ownerRv <= instance.rv /\ instance.rv <= crCache.rv
      /\ sts.ownerRv <= crCache.rv
  BY DEF SizesContext, SizesInOrder
<1>2. instance \in Writable /\ crCache \in Writable
  BY <1>1, SizesAreNumbers DEF SizesContext, Writable, CrCopies
<1>3. Asked(instance) \in {Held, Asked(cr)}
  BY <1>2 DEF SizesContext, RolloutInv, AskedInOrder
<1>4. Asked(instance) = Asked(cr)
  BY <1>3 DEF Asked, Held
<1>5. Asked(crCache) = Asked(cr)
  BY <1>1, <1>2, <1>4 DEF SizesContext, RolloutInv, AskedInOrder
<1>. QED
  BY <1>4, <1>5 DEF Asked

(* A pass announces the size it asks for.                                  *)
LEMMA SizesAnnounced ==
  ASSUME Premises, SizesContext, UpdateClusterSize
  PROVE  SizesStep
<1>. DEFINE n == instance.spec.replicas
<1>1. /\ pc = "statefulSet" /\ pc' = "updateSts" /\ instance' = instance
      /\ znode.size # NoSize
      /\ znode'.size = n /\ znode'.parent = znode.parent
      /\ UNCHANGED <<cr, sts, crCache>>
  BY DEF Premises, SizesContext, UpdateClusterSize, FoundStatefulSet,
         Continue, TypeOK, apiVars, cacheVars
<1>2. SizesInOrder /\ n \in Size /\ NoSize \notin Size
  BY SizesAreNumbers DEF SizesContext
<1>3. n # sts.replicas => cr.spec.replicas = n /\ crCache.spec.replicas = n
  BY <1>1, PassesAsk
<1>4. SizesInOrder'
  BY <1>1, <1>2, <1>3 DEF SizesInOrder
<1>5. CASE znode.size = sts.replicas /\ n # sts.replicas
  <2>1. Sizes!Announce
    BY <1>1, <1>3, <1>5 DEF Sizes!Announce
  <2>. QED
    BY <1>4, <2>1 DEF SizesStep, Sizes!Next
<1>6. CASE znode.size = sts.replicas /\ n = sts.replicas
  BY <1>1, <1>4, <1>6 DEF SizesStep, Sizes!vars
<1>7. CASE znode.size # sts.replicas
  <2>1. n = znode.size
    BY <1>1, <1>2, <1>7 DEF SizesInOrder
  <2>. QED
    BY <1>1, <1>4, <2>1 DEF SizesStep, Sizes!vars
<1>. QED
  BY <1>5, <1>6, <1>7

(* The first size is announced when the StatefulSet has it.                *)
LEMMA SizesIntroduced ==
  ASSUME SizesContext, CreateNode
  PROVE  SizesStep
<1>1. /\ pc = "createNode" /\ pc' = "writeStatus"
      /\ znode'.size = instance.spec.replicas
      /\ znode'.parent = znode.parent
      /\ UNCHANGED <<cr, sts, crCache>>
  BY DEF SizesContext, CreateNode, Continue, TypeOK, apiVars, cacheVars
<1>2. SizesInOrder /\ instance.spec.replicas \in Size /\ NoSize \notin Size
  BY SizesAreNumbers DEF SizesContext
<1>3. /\ znode.size = NoSize /\ instance.spec.replicas = sts.replicas
      /\ cr.spec.replicas = sts.replicas
  BY <1>1, <1>2 DEF SizesInOrder
<1>4. znode'.parent
  BY <1>1 DEF SizesContext, StatusInv, PassKnows
<1>5. SizesInOrder'
  BY <1>1, <1>2, <1>3, <1>4 DEF SizesInOrder
<1>6. Sizes!Introduce
  BY <1>1, <1>3 DEF Sizes!Introduce
<1>. QED
  BY <1>5, <1>6 DEF SizesStep, Sizes!Next

(* The StatefulSet gets the size announced, or keeps its size.             *)
LEMMA SizesApplied ==
  ASSUME SizesContext, Applies,
         pc \in {"statefulSet", "updateSts"}, pc' \in {"upgrade", "status"},
         instance'.spec = instance.spec, UNCHANGED <<znode, crCache>>,
         \/ instance.spec.replicas = sts.replicas
         \/ instance.spec.replicas = znode.size
  PROVE  SizesStep
<1>. DEFINE n == instance.spec.replicas
<1>1. /\ UNCHANGED cr /\ sts'.ownerRv = instance.rv /\ sts'.replicas = n
  BY DEF Applies, Held, Asked
<1>2. SizesInOrder /\ n \in Size /\ NoSize \notin Size
  BY SizesAreNumbers DEF SizesContext
<1>3. n # sts.replicas => cr.spec.replicas = n /\ crCache.spec.replicas = n
  BY PassesAsk
<1>4. /\ crCache'.rv >= sts'.ownerRv
      /\ pc' \notin {"statefulSet", "updateSts", "createNode"}
      /\ instance'.spec.replicas = sts'.replicas
      /\ ~ znode'.parent => znode'.size = NoSize
  <2>1. instance.rv <= crCache.rv /\ {instance.rv, crCache.rv} \subseteq Nat
    BY <1>2, SizesAreNumbers DEF SizesContext, SizesInOrder
  <2>. QED
    BY <1>1, <1>2, <2>1 DEF SizesInOrder
<1>5. CASE n = sts.replicas
  <2>1. SizesInOrder'
    BY <1>1, <1>2, <1>4, <1>5 DEF SizesInOrder
  <2>. QED
    BY <1>1, <1>5, <2>1 DEF SizesStep, Sizes!vars
<1>6. CASE n # sts.replicas
  <2>1. znode'.size = n /\ znode'.size = sts'.replicas /\ n # NoSize
    BY <1>1, <1>2, <1>6
  <2>2. SizesInOrder'
    BY <1>4, <2>1 DEF SizesInOrder
  <2>3. Sizes!Apply
    BY <1>1, <1>3, <1>6, <2>1 DEF Sizes!Apply
  <2>. QED
    BY <2>2, <2>3 DEF SizesStep, Sizes!Next
<1>. QED
  BY <1>5, <1>6

LEMMA SizesWritten ==
  ASSUME SizesContext, Writes
  PROVE  SizesStep
<1>. USE DEF cacheVars
<1>1. ASSUME EndPass, UNCHANGED <<cr, sts, znode, crCache>>
      PROVE  SizesStep
  BY <1>1, SizesKept DEF EndPass
<1>2. ASSUME NEW found \in {stsCache, foundSts},
             Exists(found), ~ IsStale(instance, found),
             WriteStatefulSet(found),
             UNCHANGED <<cr, pods, progressAt, znode, crCache>>,
             pc \in {"statefulSet", "updateSts"},
             \/ found.rv = sts.rv => instance.spec.replicas = sts.replicas
             \/ instance.spec.replicas = znode.size
      PROVE  SizesStep
  <2>1. CASE found.rv # sts.rv
    BY <1>1, <1>2, <2>1 DEF WriteStatefulSet
  <2>2. CASE found.rv = sts.rv
    <3>1. pc' = "upgrade"
      BY <1>2, <2>2 DEF WriteStatefulSet, Continue
    <3>2. Applies /\ instance'.spec = instance.spec
      BY <1>2, <3>1, WriteApplies DEF SizesContext, EndPass
    <3>. QED
      BY <1>2, <2>2, <3>1, <3>2, SizesApplied
  <2>. QED
    BY <2>1, <2>2
<1>3. CASE CreateStatefulSet
  <2>1. CASE EndPass /\ UNCHANGED <<cr, sts, pods, progressAt>>
    BY <1>1, <1>3, <2>1 DEF CreateStatefulSet
  <2>2. CASE /\ Applies
             /\ sts.rv = 0 /\ sts'.rv = 1
             /\ pc' = "status" /\ foundSts' = NoSts
             /\ instance' = instance
    <3>1. sts = NoSts
      BY <2>2 DEF SizesContext, FollowerInv, LabelVouches, Exists
    <3>2. CurrentRevision # sts.template
      BY <3>1, TemplatesAreRevisions
      DEF SizesContext, CurrentRevision, NoSts, StatusOf
    <3>3. Asked(cr) = Held
      BY <3>2 DEF SizesContext, RolloutInv, AskedInOrder, Steady
    <3>4. instance \in Writable
      BY <2>2, SizesAreNumbers
      DEF SizesContext, Applies, Writable, CrCopies
    <3>5. Asked(instance) = Held
      BY <3>3, <3>4 DEF SizesContext, RolloutInv, AskedInOrder
    <3>6. instance.spec.replicas = sts.replicas
      BY <3>5 DEF Asked, Held
    <3>. QED
      BY <1>3, <2>2, <3>6, SizesApplied DEF CreateStatefulSet
  <2>. QED
    BY <1>3, <2>1, <2>2, CreateApplies DEF SizesContext
<1>4. CASE UpdateSameSize
  <2>1. stsCache.rv = sts.rv => instance.spec.replicas = sts.replicas
    BY <1>4 DEF UpdateSameSize, SizesContext, SizeInv, SizesAgree
  <2>. QED
    BY <1>2, <1>4, <2>1 DEF UpdateSameSize, FoundStatefulSet
<1>5. CASE UpdateNewSize
  <2>1. /\ pc = "updateSts" /\ znode.size = instance.spec.replicas
        /\ Exists(foundSts) /\ ~ IsStale(instance, foundSts)
    BY <1>5
    DEF UpdateNewSize, SizesContext, SizeInv, Announced, FollowerInv,
        LabelVouches
  <2>. QED
    BY <1>2, <1>5, <2>1 DEF UpdateNewSize
<1>. QED
  BY <1>3, <1>4, <1>5 DEF Writes

(* The other calls of a pass.                                              *)
LEMMA SizesOfCalls ==
  ASSUME Premises, SizesContext, Calls
  PROVE  SizesStep
<1>. USE DEF apiVars, cacheVars, Unaffected
<1>0. /\ SizesInOrder /\ TypeOK
      /\ instance.rv = cr.rv => instance.spec = cr.spec
      /\ pc \in {"upgrade", "status"} => instance.spec.replicas = sts.replicas
  BY DEF SizesContext, SizesInOrder, FollowerInv, CopiesAgree, CrCopies
<1>1. ASSUME UNCHANGED <<sts, znode, crCache>>, cr'.spec = cr.spec,
             \/ EndPass
             \/ pc' = "status" /\ instance'.spec.replicas = sts.replicas
      PROVE  SizesStep
  BY <1>1, SizesKept DEF EndPass
<1>2. ASSUME NEW zs, StatusUpdate(zs, "status"), Unaffected, pc = "upgrade"
      PROVE  SizesStep
  <2>1. \/ EndPass /\ cr' = cr
        \/ /\ instance.rv = cr.rv /\ cr'.spec = cr.spec
           /\ instance' = cr' /\ pc' = "status"
    BY <1>0, <1>2, StatusUpdateMeans
  <2>. QED
    BY <1>0, <1>1, <1>2, <2>1
<1>3. ASSUME NEW zs, ClearUpgradeStatus(zs), UNCHANGED <<cr, sts, znode, crCache>>,
             instance.rv = cr.rv => cr.spec.replicas = sts.replicas
      PROVE  SizesStep
  <2>1. \/ EndPass
        \/ /\ instance.rv = cr.rv /\ instance'.spec = cr.spec
           /\ pc' = "status"
    BY <1>0, <1>3, ClearUpgradeStatusMeans
  <2>. QED
    BY <1>1, <1>3, <2>1
<1>4. CASE BeginPass
  BY <1>4, SizesKept DEF BeginPass, Continue
<1>5. CASE \/ CallFails \/ StayFailed \/ RefuseStaleness \/ MetadataMissing
           \/ SkipClusterStatus \/ ClusterStatusConflict
  BY <1>1, <1>5
  DEF CallFails, StayFailed, RefuseStaleness, MetadataMissing,
      SkipClusterStatus, ClusterStatusConflict
<1>6. CASE RecoverFailedUpgrade
  <2>1. pc = "statefulSet" /\ IsUpgradeFailed(instance.status)
    BY <1>6 DEF RecoverFailedUpgrade
  <2>2. instance.rv = cr.rv => SameUpgrade(cr.status, instance.status)
    BY <2>1 DEF SizesContext, StatusInv, VersionsAgree
  <2>3. IsUpgrading(instance.status)
    BY <2>1 DEF SizesContext, StatusInv, StatusCopies, Coherent
  <2>4. instance.rv = cr.rv => cr.spec.replicas = sts.replicas
    BY <2>2, <2>3
    DEF SameUpgrade, SizesContext, UpgradeInv, UpgradeIsRollout, Asked, Held
  <2>. QED
    BY <1>3, <1>6, <2>4 DEF RecoverFailedUpgrade
<1>7. CASE CompleteUpgrade
  BY <1>0, <1>3, <1>7 DEF CompleteUpgrade, InUpgrade
<1>8. CASE InitUpgrading
  <2>1. /\ pc = "upgrade" /\ pc' = "status"
        /\ instance'.spec = instance.spec
    BY <1>0, <1>8
    DEF InitUpgrading, InUpgrade, Continue, TypeOK, ClusterResource
  <2>. QED
    BY <1>0, <1>1, <1>8, <2>1 DEF InitUpgrading
<1>9. CASE StartUpgrade \/ NoUpgrade \/ ReportProgress \/ FailUpgrade
  <2>1. PICK zs : StatusUpdate(zs, "status") /\ Unaffected
    BY <1>9, Zenon DEF StartUpgrade, NoUpgrade, ReportProgress, FailUpgrade
  <2>2. pc = "upgrade"
    BY <1>9
    DEF StartUpgrade, NoUpgrade, ReportProgress, FailUpgrade,
        UpgradeInProgress, InUpgrade
  <2>. QED
    BY <1>2, <2>1, <2>2
<1>10. CASE AwaitProgress
  BY <1>0, <1>1, <1>10
  DEF AwaitProgress, UpgradeInProgress, InUpgrade, Continue
<1>11. CASE CreateParentNode
  <2>1. CASE znode.parent
    BY <1>1, <1>11, <2>1 DEF CreateParentNode
  <2>2. CASE ~ znode.parent
    <3>1. /\ pc = "status" /\ pc' = "createNode" /\ instance' = instance
          /\ znode'.size = znode.size
          /\ UNCHANGED <<cr, sts, crCache>>
      BY <1>0, <1>11, <2>2
      DEF CreateParentNode, InClusterStatus, Continue, TypeOK
    <3>2. znode.size = NoSize
      BY <1>0, <2>2 DEF SizesInOrder
    <3>. QED
      BY <2>2, <3>1, <3>2, SizesKept
  <2>. QED
    BY <2>1, <2>2
<1>12. CASE WriteClusterStatus
  <2>1. cr'.spec = cr.spec
    BY <1>0, <1>12 DEF WriteClusterStatus, TypeOK, ClusterResource
  <2>. QED
    BY <1>1, <1>12, <2>1 DEF WriteClusterStatus
<1>. QED
  BY <1>4, <1>5, <1>6, <1>7, <1>8, <1>9, <1>10, <1>11, <1>12,
     SizesAnnounced, SizesIntroduced
  DEF Calls

(* A patient user edits the size when the last one has been applied.       *)
LEMMA SizesEdited ==
  ASSUME Premises, SizesContext, User \/ RollingRestart
  PROVE  SizesStep
<1>. USE DEF apiVars, cacheVars, operatorVars
<1>0. cr \in ClusterResource /\ cr.spec \in ClusterSpec /\ SizesInOrder
  BY DEF SizesContext, TypeOK, ClusterResource
<1>1. CASE EditReplicas
  <2>1. PICK n \in Size \ {cr.spec.replicas} :
          EditSpec([cr.spec EXCEPT !.replicas = n])
    BY <1>1 DEF EditReplicas
  <2>2. /\ cr'.spec.replicas = n
        /\ UNCHANGED <<sts, znode, crCache, pc, instance>>
    BY <1>0, <2>1 DEF EditSpec, ClusterResource, ClusterSpec
  <2>3. IsReady(cr.status) /\ cr.spec.replicas = sts.replicas
    BY <2>1 DEF EditSpec, UserMayEdit, RolledOut, Premises
  <2>4. znode.size # NoSize
    BY <2>3 DEF SizesContext, StatusInv, StatusCopies, Honest
  <2>5. znode.size = sts.replicas
    BY <1>0, <2>3, <2>4 DEF SizesInOrder
  <2>6. SizesInOrder'
    BY <1>0, <2>2, <2>4, <2>5 DEF SizesInOrder
  <2>7. Sizes!Edit
    BY <2>2, <2>3, <2>5 DEF Sizes!Edit
  <2>. QED
    BY <2>6, <2>7 DEF SizesStep, Sizes!Next
<1>2. CASE EditTag \/ RequestRestart
  <2>1. PICK spec : /\ EditSpec(spec)
                    /\ spec.replicas = cr.spec.replicas
    <3>1. \A t : [cr.spec EXCEPT !.tag = t].replicas = cr.spec.replicas
      BY <1>0 DEF ClusterSpec
    <3>2. [cr.spec EXCEPT !.triggerRollingRestart = TRUE].replicas
            = cr.spec.replicas
      BY <1>0 DEF ClusterSpec
    <3>3. CASE EditTag
      <4>1. PICK t \in Tag : EditSpec([cr.spec EXCEPT !.tag = t])
        BY <3>3 DEF EditTag
      <4>. QED
        BY <3>1, <4>1
    <3>4. CASE RequestRestart
      BY <3>2, <3>4 DEF RequestRestart
    <3>. QED
      BY <1>2, <3>3, <3>4
  <2>2. /\ cr'.spec.replicas = cr.spec.replicas
        /\ UNCHANGED <<sts, znode, crCache, pc, instance>>
    BY <1>0, <2>1 DEF EditSpec, ClusterResource
  <2>. QED
    BY <2>2, SizesKept
<1>3. CASE RollingRestart
  <2>1. /\ cr'.spec.replicas = cr.spec.replicas
        /\ UNCHANGED <<sts, znode, crCache, pc, instance>>
    BY <1>0, <1>3, RestartAnswers
    DEF RollingRestart, SizesContext, ClusterResource, ClusterSpec
  <2>. QED
    BY <2>1, SizesKept
<1>. QED
  BY <1>1, <1>2, <1>3 DEF User

LEMMA NextSizes ==
  ASSUME Premises, SizesContext, [Next]_vars
  PROVE  SizesStep
<1>. USE DEF apiVars, cacheVars, operatorVars
<1>1. CASE StatefulSetController \/ PodBecomesReady \/ PodFails
  <2>1. PICK ps, current, update : SetPods(ps, current, update)
    BY <1>1
    DEF StatefulSetController, ObserveTemplate, PodCreated, PodDeleted,
        PodReplaced, RolloutCompletes, PodBecomesReady, PodFails
  <2>2. /\ UNCHANGED <<sts.ownerRv, sts.replicas>>
        /\ UNCHANGED <<cr, znode, crCache, pc, instance>>
    BY <2>1 DEF SetPods, SizesContext, TypeOK, StsResource
  <2>. QED
    BY <2>2, SizesKept
<1>2. CASE SyncCrCache \/ SyncStsCache \/ CatchUp \/ Tick \/ UNCHANGED vars
  <2>1. /\ UNCHANGED <<cr, sts, znode, pc, instance>>
        /\ crCache' \in {crCache, cr}
    BY <1>2 DEF SyncCrCache, SyncStsCache, CatchUp, Tick, vars
  <2>. QED
    BY <2>1, SizesKept
<1>3. CASE Crash
  <2>1. /\ UNCHANGED <<cr, sts, znode>> /\ crCache' = cr /\ pc' = "idle"
    BY <1>3 DEF Premises, Crash, EndPass
  <2>. QED
    BY <2>1, SizesKept
<1>. QED
  BY <1>1, <1>2, <1>3, SizesWritten, SizesOfCalls, SizesEdited
  DEF Next, Pass, Writes, Calls

(* When no restart lists from a replica that lags, no pass works with a CR *)
(* older than the StatefulSet, and once a pass has announced a size all    *)
(* passes ask for it until it is applied, also the pass that follows one   *)
(* that failed or was lost with a crash between the two writes             *)
(* (updateStatefulSet runs after UpdateNode; the informer's copies only    *)
(* get newer).                                                             *)
THEOREM SizesInvariant ==
  ASSUME PatientUser, ~ LostWrites, ~ StaleRestarts
  PROVE  Spec => [](SizesInOrder /\ SizeInv)
<1>. Premises
  BY DEF Premises
<1>1. Init => SizeInv /\ SizesInOrder
  <2>1. /\ InitialCr.rv = 1 /\ InitialCr.spec.replicas = InitialSize
        /\ NoSts.ownerRv = 0 /\ NoSts.replicas = InitialSize
    BY DEF InitialCr, InitialSpec, NoSts
  <2>. QED
    BY <2>1 DEF Init, SizeInv, SizesAgree, Announced, SizesInOrder
<1>2. SizesContext /\ [Next]_vars => SizesInOrder'
  BY NextSizes DEF SizesStep
<1>3. TypeOK /\ FollowerInv /\ SizeInv /\ [Next]_vars => SizeInv'
  BY StepSizeInv
<1>. QED
  BY <1>1, <1>2, <1>3, TypeCorrect, FollowerInvariant, StatusInvariant,
     RolloutInvariant, UpgradeInvariant, PTL
  DEF Spec, SizesContext

(* The operator of a patient user implements SizeProtocol, whatever its    *)
(* caches serve, whichever calls fail and wherever it crashes, except that *)
(* the write whose error is dropped succeeds and a restart lists what is   *)
(* current: the next size is announced only when the last one is applied,  *)
(* and only a size that is still asked for is announced or applied         *)
(* (reconcileStatefulSet).                                                 *)
THEOREM ImplementsSizeProtocol ==
  ASSUME PatientUser, ~ LostWrites, ~ StaleRestarts
  PROVE  Spec => AnnouncesSizes
<1>. Premises
  BY DEF Premises
<1>1. Init => Sizes!Init
  <2>1. /\ InitialCr.spec.replicas = InitialSize
        /\ NoSts.replicas = InitialSize
    BY DEF InitialCr, InitialSpec, NoSts
  <2>. QED
    BY <2>1, SizeAssumption DEF Init, Sizes!Init
<1>2. SizesContext /\ [Next]_vars => [Sizes!Next]_(Sizes!vars)
  BY NextSizes DEF SizesStep
<1>. QED
  BY <1>1, <1>2, SizesInvariant, TypeCorrect, FollowerInvariant,
     StatusInvariant, RolloutInvariant, UpgradeInvariant, PTL
  DEF Spec, AnnouncesSizes, Sizes!Spec, SizesContext

(* Under the same premises a pod that stays is never told that it is being *)
(* removed: at no moment is there a pod that the cluster keeps beyond the  *)
(* size in ZooKeeper, with which the teardown script compares its MYID.    *)
THEOREM RemovalsArePermanent ==
  ASSUME PatientUser, ~ LostWrites, ~ StaleRestarts
  PROVE  Spec => RemovalIsPermanent
<1>1. ASSUME SizesContext, NEW i \in DOMAIN pods, znode.size # NoSize
      PROVE  znode.size >= i \/ cr.spec.replicas < i
  <2>1. /\ znode.size \in Nat /\ cr.spec.replicas \in Nat
        /\ Len(pods) \in Nat /\ i \in 1 .. Len(pods)
    <3>1. pods \in Seq(Pod)
      BY <1>1 DEF SizesContext, TypeOK
    <3>2. znode.size \in Size
      BY <1>1 DEF SizesContext, TypeOK
    <3>3. cr.spec.replicas \in Size
      BY <1>1, SizesAreNumbers DEF SizesContext
    <3>4. Len(pods) \in Nat /\ i \in 1 .. Len(pods)
      BY <1>1, <3>1
    <3>5. znode.size \in Nat /\ cr.spec.replicas \in Nat
      BY <3>2, <3>3, SizeAssumption
    <3>. QED
      BY <3>4, <3>5
  <2>2. znode.size = sts.replicas \/ znode.size = cr.spec.replicas
    BY <1>1 DEF SizesContext, SizesInOrder
  <2>3. CASE znode.size = cr.spec.replicas
    BY <2>1, <2>3
  <2>4. CASE znode.size = sts.replicas /\ cr.spec.replicas # sts.replicas
    <3>1. Asked(cr) # Held
      BY <2>4 DEF Asked, Held
    <3>2. Len(pods) = sts.replicas
      BY <1>1, <3>1 DEF SizesContext, RolloutInv, AskedInOrder, Steady
    <3>. QED
      BY <2>1, <2>4, <3>2
  <2>. QED
    BY <2>2, <2>3, <2>4
<1>2. SizesContext /\ [Next]_vars
        => [\A i \in DOMAIN pods \cap DOMAIN pods' :
              pods[i].revision # pods'[i].revision /\ znode.size # NoSize
                => \/ znode.size >= i
                   \/ cr.spec.replicas < i]_vars
  BY <1>1
<1>. QED
  BY <1>2, SizesInvariant, TypeCorrect, FollowerInvariant, StatusInvariant,
     RolloutInvariant, UpgradeInvariant, PTL
  DEF Spec, RemovalIsPermanent, SizesContext
=============================================================================
