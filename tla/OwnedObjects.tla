----------------------------- MODULE OwnedObjects -----------------------------
(***************************************************************************)
(* The objects that the operator makes out of a ZookeeperCluster and keeps *)
(* in line with it: config map, service account, StatefulSet, services and *)
(* disruption budget (the pipeline of Reconcile with pkg/zk/generators.go  *)
(* and pkg/zk/synchronizers.go), and the defaults it saves before.         *)
(*                                                                         *)
(* An object is what its generator reads of the spec: a part that every    *)
(* pass writes again, and a part, written when it is created, that no      *)
(* later pass touches.  Each action is one call to the API server.         *)
(*                                                                         *)
(* The CR is read from a cache.  The owned objects are read from caches    *)
(* too, but each is written right after with the resourceVersion that was  *)
(* read: a copy that is out of date only makes the call fail (CallFails).  *)
(* The size in ZooKeeper, the upgrade and the conditions of the status are *)
(* ZookeeperClusterController's, the volumes are PvcReclaim's.             *)
(***************************************************************************)
EXTENDS Integers, Functions, SpecDefaults

CONSTANTS
  Choices,       \* for the fields the user edits, the values the user writes
  MaxEvents      \* bound on edits of the spec, changes of the status, owned
                 \* objects that somebody deletes, crashes and failed calls

(* Other storage types count as persistence and are overwritten when its   *)
(* section is completed.                                                   *)
ASSUME ChoicesAssumption ==
  /\ DOMAIN Choices \subseteq Field
  /\ "storageType" \in DOMAIN Choices
       => Choices["storageType"] \subseteq {"ephemeral", "persistence", Unset}
  /\ "tickTime" \in DOMAIN Choices
       => Choices["tickTime"] \subseteq Int \cup {Unset}
  /\ "labels" \in DOMAIN Choices
       => \A l \in Choices["labels"] : "owner-rv" \notin l
ASSUME MaxEventsAssumption == MaxEvents \in Nat

VARIABLES
  cr,       \* the ZookeeperCluster in the API server
  crCache,  \* the CR as the operator's informer knows it
  behind,   \* an earlier CR, which a lagging API server still serves
  objects,  \* the owned objects in the API server
  pc,       \* the call the pass makes next
  instance, \* Reconcile's local copy of the CR
  events,   \* how many of the events that MaxEvents bounds have happened
  crashed   \* history: whether the operator has crashed

vars == <<cr, crCache, behind, objects, pc, instance, events, crashed>>

Service == {"clientService", "headlessService", "adminServerService"}

Kind == Service \cup {"configMap", "serviceAccount", "statefulSet",
                      "disruptionBudget"}

ObjectLabel == {"labels"} \cup DOMAIN LabelDefault

(* What the generators read of the spec: zoo.cfg and env.sh, ...           *)
ConfigFields ==
  DOMAIN ConfDefault \cup SessionField \cup DOMAIN PortDefault
    \cup {"replicas", "maxCnxns", "quorumListenOnAllIPs", "additionalConfig",
          "kubernetesClusterDomain"}

(* ... the template of the pods, ...                                       *)
PodFields ==
  DOMAIN ImageDefault \cup DOMAIN PortDefault \cup ObjectLabel
    \cup DOMAIN PodDefault \cup DOMAIN ProbesDefault
    \cup {"podPolicy", "containers", "storageType", "ephemeral"}

(* ... the claims of their volumes ...                                     *)
ClaimFields == ObjectLabel \cup {"storageType", "storageSize"}

(* ... and the disruption budget.                                          *)
BudgetFields == ObjectLabel \cup {"maxUnavailableReplicas"}

(* The fields in the part of an object that every pass writes.             *)
Live ==
  [configMap          |-> ConfigFields,
   serviceAccount     |-> {"imagePullSecrets"},
   statefulSet        |-> PodFields \cup {"replicas"},
   clientService      |-> {"client", "annotations"},
   headlessService    |-> DOMAIN PortDefault \cup {"annotations", "domainName"},
   adminServerService |-> {"adminServer", "annotations", "external"},
   disruptionBudget   |-> {}]

(* The fields in the part that only the creation writes.                   *)
Fixed ==
  [k \in Kind |->
     CASE k = "serviceAccount"   -> {}
       [] k = "statefulSet"      -> ClaimFields
       [] k = "disruptionBudget" -> BudgetFields
       [] OTHER                  -> ObjectLabel]

(* from: the resourceVersion of the CR it was written from; the label      *)
(* owner-rv of the StatefulSet, history in the other objects.              *)
NoObject == [live |-> <<>>, fixed |-> <<>>, from |-> 0]

Exists(k) == objects[k] # NoObject

Made(k, zk) == [live |-> Restrict(zk.spec, Live[k]),
                fixed |-> Restrict(zk.spec, Fixed[k]), from |-> zk.rv]

(* Mutant: of the StatefulSet only the size is copied, not the template.   *)
SyncedReplicas(k, zk) ==
  [live |-> [f \in Live[k] |-> IF k = "statefulSet" /\ f # "replicas"
                               THEN objects[k].live[f] ELSE zk.spec[f]],
   fixed |-> objects[k].fixed, from |-> zk.rv]

(* SyncService, SyncConfigMap, SyncStatefulSet.                            *)
Synced(k, zk) == [live |-> Restrict(zk.spec, Live[k]),
                  fixed |-> objects[k].fixed, from |-> zk.rv]

InitialCr ==
  [rv |-> 1,
   spec |-> [f \in Field |-> IF f = "labels" THEN {} ELSE Unset]]

Init ==
  /\ cr = InitialCr
  /\ crCache = InitialCr
  /\ behind = InitialCr
  /\ objects = [k \in Kind |-> NoObject]
  /\ pc = "idle"
  /\ instance = InitialCr
  /\ events = 0
  /\ crashed = FALSE

Happens ==
  /\ events < MaxEvents
  /\ events' = events + 1

-----------------------------------------------------------------------------
(* The pass.                                                               *)

(* Mutant: the StatefulSet is written before the config map.               *)
FollowingStatefulSetFirst(step) ==
  [statefulSet |-> "configMap", configMap |-> "serviceAccount",
   serviceAccount |-> "clientService",
   clientService |-> "headlessService",
   headlessService |-> "adminServerService",
   adminServerService |-> "disruptionBudget",
   disruptionBudget |-> "status", begin |-> "statefulSet"][step]

Following(step) ==
  [begin |-> "configMap", configMap |-> "serviceAccount",
   serviceAccount |-> "statefulSet", statefulSet |-> "clientService",
   clientService |-> "headlessService",
   headlessService |-> "adminServerService",
   adminServerService |-> "disruptionBudget",
   disruptionBudget |-> "status"][step]

EndPass ==
  /\ pc' = "idle"
  /\ instance' = InitialCr

Advance == pc' = Following(pc)

BeginPass ==
  /\ pc = "idle"
  /\ instance' = [rv |-> crCache.rv, spec |-> WithDefaults(crCache.spec)]
  /\ pc' = IF Incomplete(crCache.spec) THEN "saveDefaults"
           ELSE Following("begin")
  /\ UNCHANGED <<cr, crCache, behind, objects, events, crashed>>

(* Mutant: the defaults are written whatever the CR has become.            *)
SaveDefaultsBlindly ==
  /\ pc = "saveDefaults"
  /\ cr' = [rv |-> cr.rv + 1, spec |-> instance.spec]
  /\ EndPass
  /\ UNCHANGED <<crCache, behind, objects, events, crashed>>

(* The update is refused when the CR has changed; either way the pass ends *)
(* and the next one starts over.                                           *)
SaveDefaults ==
  /\ pc = "saveDefaults"
  /\ cr' = IF instance.rv = cr.rv
           THEN [rv |-> cr.rv + 1, spec |-> instance.spec] ELSE cr
  /\ EndPass
  /\ UNCHANGED <<crCache, behind, objects, events, crashed>>

Write(k, object) == objects' = [objects EXCEPT ![k] = object]

WriteConfigMapOrService ==
  /\ pc \in Service \cup {"configMap"}
  /\ Write(pc, IF Exists(pc) THEN Synced(pc, instance) ELSE Made(pc, instance))
  /\ Advance
  /\ UNCHANGED <<cr, crCache, behind, instance, events, crashed>>

(* The account named default is not the operator's.                        *)
WriteServiceAccount ==
  /\ pc = "serviceAccount"
  /\ IF instance.spec["serviceAccountName"] = "default"
     THEN UNCHANGED objects
     ELSE Write(pc, Made(pc, instance))
  /\ Advance
  /\ UNCHANGED <<cr, crCache, behind, instance, events, crashed>>

(* The labels of the new StatefulSet are the map of instance.Spec.Labels   *)
(* itself, so the label owner-rv is added to both.                         *)
CreateStatefulSet ==
  /\ pc = "statefulSet"
  /\ ~ Exists(pc)
  /\ Write(pc, Made(pc, instance))
  /\ instance' = [rv |-> instance.rv,
                  spec |-> [instance.spec EXCEPT
                              !["labels"] = @ \cup {"owner-rv"}]]
  /\ Advance
  /\ UNCHANGED <<cr, crCache, behind, events, crashed>>

(* The API server refuses a template whose container mounts the volume     *)
(* "data" when neither the template nor a claim template has it.           *)
HasDataVolume(sts) ==
  IsEphemeral(sts.fixed) => IsEphemeral(sts.live)

Refused ==
  \/ instance.rv < objects["statefulSet"].from
  \/ ~ HasDataVolume(Synced("statefulSet", instance))

(* Mutant: no check of staleness before the StatefulSet is updated.        *)
UpdateStatefulSetUnchecked ==
  /\ pc = "statefulSet"
  /\ Exists(pc)
  /\ HasDataVolume(Synced(pc, instance))
  /\ Write(pc, Synced(pc, instance))
  /\ Advance
  /\ UNCHANGED <<cr, crCache, behind, instance, events, crashed>>

UpdateStatefulSet ==
  /\ pc = "statefulSet"
  /\ Exists(pc)
  /\ ~ Refused
  /\ Write(pc, Synced(pc, instance))
  /\ Advance
  /\ UNCHANGED <<cr, crCache, behind, instance, events, crashed>>

RefuseStatefulSet ==
  /\ pc = "statefulSet"
  /\ Exists(pc)
  /\ Refused
  /\ EndPass
  /\ UNCHANGED <<cr, crCache, behind, objects, events, crashed>>

(* A budget that exists, or that the cache still has, is left as it is.    *)
EnsureBudget ==
  /\ pc = "disruptionBudget"
  /\ \/ /\ Exists(pc)
        /\ UNCHANGED <<objects, events>>
     \/ /\ ~ Exists(pc)
        /\ Write(pc, Made(pc, instance))
        /\ UNCHANGED events
     \/ /\ ~ Exists(pc)
        /\ Happens
        /\ UNCHANGED objects
  /\ Advance
  /\ UNCHANGED <<cr, crCache, behind, instance, crashed>>

(* Mutant: the whole CR is written, not its status alone.                  *)
WriteStatusAndSpec ==
  /\ pc = "status"
  /\ \/ UNCHANGED <<cr, events>>
     \/ /\ instance.rv = cr.rv
        /\ Happens
        /\ cr' = [rv |-> cr.rv + 1, spec |-> instance.spec]
  /\ EndPass
  /\ UNCHANGED <<crCache, behind, objects, crashed>>

(* The status is unchanged, or its update is refused, or it is written.    *)
WriteStatus ==
  /\ pc = "status"
  /\ \/ UNCHANGED <<cr, events>>
     \/ /\ instance.rv = cr.rv
        /\ Happens
        /\ cr' = [rv |-> cr.rv + 1, spec |-> cr.spec]
  /\ EndPass
  /\ UNCHANGED <<crCache, behind, objects, crashed>>

CallFails ==
  /\ pc # "idle"
  /\ Happens
  /\ EndPass
  /\ UNCHANGED <<cr, crCache, behind, objects, crashed>>

-----------------------------------------------------------------------------
(* The informer of the CR, crashes, and those who write to the API server. *)

SyncCrCache ==
  /\ crCache # cr
  /\ crCache' = cr
  /\ UNCHANGED <<cr, behind, objects, pc, instance, events, crashed>>

CatchUp ==
  /\ events < MaxEvents
  /\ behind # cr
  /\ behind' = cr
  /\ UNCHANGED <<cr, crCache, objects, pc, instance, events, crashed>>

Crash ==
  /\ Happens
  /\ EndPass
  /\ crCache' \in {cr, behind}
  /\ crashed' = TRUE
  /\ UNCHANGED <<cr, behind, objects>>

EditSpec ==
  /\ Happens
  /\ \E f \in DOMAIN Choices : \E v \in Choices[f] :
       /\ cr.spec[f] # v
       /\ cr' = [rv |-> cr.rv + 1, spec |-> [cr.spec EXCEPT ![f] = v]]
  /\ UNCHANGED <<crCache, behind, objects, pc, instance, crashed>>

DeleteObject ==
  \E k \in Kind :
    /\ Exists(k)
    /\ Happens
    /\ Write(k, NoObject)
    /\ UNCHANGED <<cr, crCache, behind, pc, instance, crashed>>

Pass ==
  \/ BeginPass \/ SaveDefaults
  \/ WriteConfigMapOrService \/ WriteServiceAccount
  \/ CreateStatefulSet \/ UpdateStatefulSet \/ RefuseStatefulSet
  \/ EnsureBudget \/ WriteStatus

Next ==
  \/ Pass \/ CallFails
  \/ SyncCrCache \/ CatchUp \/ Crash
  \/ EditSpec \/ DeleteObject

Spec == Init /\ [][Next]_vars

(* Passes follow each other and the watch of the CR delivers.              *)
FairSpec == Spec /\ WF_vars(Pass) /\ WF_vars(SyncCrCache)

-----------------------------------------------------------------------------
(* A pod never starts from a new template with an older configuration:     *)
(* while the operator lives, the config map that the pods mount is at      *)
(* least as new as the StatefulSet.  After a crash a pass on an old CR may *)
(* put an old config map back, which unlike the StatefulSet has no         *)
(* owner-rv to refuse it by.                                               *)
ConfigBeforeTemplate ==
  ~ crashed /\ Exists("configMap") /\ Exists("statefulSet")
    => objects["configMap"].from >= objects["statefulSet"].from

(* The StatefulSet, and with it the pods, never goes back to an older CR,  *)
(* whatever the caches hold ("check whether zookeeperCluster is updated    *)
(* before updating the sts", controller:240).                              *)
TemplateMovesForward ==
  [][Exists("statefulSet") /\ objects'["statefulSet"] # NoObject
       => objects["statefulSet"].from <= objects'["statefulSet"].from]_vars

(* The label owner-rv, which changes with every version of the CR, stays   *)
(* out of the spec and out of the pod template, where each new value would *)
(* restart the pods.                                                       *)
OwnerRvContained ==
  /\ "owner-rv" \notin cr.spec["labels"]
  /\ Exists("statefulSet")
       => "owner-rv" \notin objects["statefulSet"].live["labels"]

(* What the user has written into the spec stays: the operator only fills  *)
(* in what is missing, also when the user edits during a pass.             *)
UserChoicesKept ==
  [][pc' # pc => \A f \in Field :
       cr.spec[f] # Unset => cr'.spec[f] = cr.spec[f]]_vars

Filled(part) ==
  \A f \in DOMAIN part \ OptionalField :
    part[f] = Unset =>
      f \in StorageField /\ f \notin DOMAIN (IF IsEphemeral(part)
                                            THEN EphemeralDefault
                                            ELSE PersistenceDefault)

(* No object is made from a spec that lacks a default: the generators take *)
(* the probes, the ports and the volume for granted.  A crash, a refused   *)
(* write or a lagging cache between the saving of the defaults and the     *)
(* pass that uses them makes no difference.                                *)
MadeFromCompleteSpec ==
  \A k \in Kind :
    Exists(k) => Filled(objects[k].live) /\ Filled(objects[k].fixed)

InLine(k) ==
  /\ Exists(k)
  /\ objects[k].live = Restrict(cr.spec, Live[k])

(* A StatefulSet made without a claim template cannot get persistent       *)
(* storage any more.                                                       *)
Deployable ==
  Exists("statefulSet") /\ IsEphemeral(objects["statefulSet"].fixed)
    => IsEphemeral(cr.spec)

(* When the user stops editing, the defaults are saved and every object    *)
(* exists and follows the spec: "Recreate any missing resources every      *)
(* 'ReconcileTime'" (controller:117).                                      *)
EventuallyInLine ==
  <>[](Deployable =>
         /\ ~ Incomplete(cr.spec)
         /\ \A k \in Kind \ {"serviceAccount"} : InLine(k)
         /\ cr.spec["serviceAccountName"] # "default"
              => InLine("serviceAccount"))
=============================================================================
