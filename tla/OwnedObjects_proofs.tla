------------------------- MODULE OwnedObjects_proofs -------------------------
(***************************************************************************)
(* Proofs about OwnedObjects, for all choices of the user and any number   *)
(* of events.  The inductive invariant OwnedInv says of each place that    *)
(* holds a version of the CR what that version can be: the caches, the     *)
(* copy of the pass and the objects made from it.                          *)
(*                                                                         *)
(* Before that, about SpecDefaults: WithDefaults fills in what is missing, *)
(* keeps the rest and needs to run only once, for every spec.  Reconcile   *)
(* saves the result and starts over as long as WithDefaults reports a      *)
(* change, so a default that is never final would keep it from ever making *)
(* an object.                                                              *)
(***************************************************************************)
EXTENDS OwnedObjects, TLAPS

IsSpec(s) ==
  /\ s = [f \in Field |-> s[f]]
  /\ s["tickTime"] \in Int \cup {Unset}

LEMMA StorageTypeIsField == "storageType" \in Field
BY DEF Field, OptionalField

LEMMA PersistenceFields ==
  DOMAIN PersistenceDefault = {"reclaimPolicy", "storageSize"}
BY DEF PersistenceDefault

LEMMA EphemeralFields == DOMAIN EphemeralDefault = {"ephemeral"}
BY DEF EphemeralDefault

(* Defaulting never moves a cluster between the two types of storage.      *)
LEMMA StorageTypeStays ==
  ASSUME NEW s
  PROVE  IsEphemeral(WithDefaults(s)) <=> IsEphemeral(s)
<1>1. WithDefaults(s)["storageType"] = StorageTypeOf(s)
  BY StorageTypeIsField DEF WithDefaults
<1>2. StorageTypeOf(s) = "ephemeral" <=> s["storageType"] = "ephemeral"
  BY DEF StorageTypeOf, IsEphemeral
<1> QED
  BY <1>1, <1>2 DEF IsEphemeral

LEMMA SessionDefaultIsInt ==
  ASSUME NEW s, IsSpec(s), NEW f
  PROVE  SessionDefault(s, f) \in Int
<1>1. ConfDefault.tickTime = 2000
  BY DEF ConfDefault
<1> QED
  BY <1>1 DEF SessionDefault, IsSpec

(* What WithDefaults leaves out it would leave out again.                  *)
LEMMA MissingStaysMissing ==
  ASSUME NEW s, IsSpec(s), NEW f \in Field \ {"storageType"},
         WithDefaults(s)[f] = Unset
  PROVE  DefaultOf(WithDefaults(s), f) = Unset
<1> DEFINE t == WithDefaults(s)
<1>1. DefaultOf(s, f) = Unset
  BY DEF WithDefaults
<1>2. f \notin SessionField
  BY <1>1, SessionDefaultIsInt, UnsetAssumption DEF DefaultOf
<1>3. StorageDefault(t, f) = StorageDefault(s, f)
  BY StorageTypeStays DEF StorageDefault
<1> QED
  BY <1>1, <1>2, <1>3 DEF DefaultOf

(* A complete persistence section names no storage type any more.          *)
LEMMA StorageTypeFinal ==
  ASSUME NEW s, IsSpec(s)
  PROVE  StorageTypeOf(WithDefaults(s)) = WithDefaults(s)["storageType"]
<1> DEFINE t == WithDefaults(s)
<1>1. CASE IsEphemeral(s)
  BY <1>1, StorageTypeStays DEF StorageTypeOf
<1>2. CASE ~ IsEphemeral(s)
  <2>1. ASSUME NEW f \in DOMAIN PersistenceDefault
        PROVE  t[f] # Unset
    <3>1. f \in Field /\ f \in StorageField /\ f # "storageType"
      BY PersistenceFields DEF Field, StorageField
    <3>2. f \notin SessionField
      BY PersistenceFields DEF SessionField
    <3>3. PersistenceDefault[f] # Unset
      BY UnsetAssumption
    <3>4. DefaultOf(s, f) = PersistenceDefault[f]
      BY <1>2, <3>1, <3>2 DEF DefaultOf, StorageDefault
    <3>5. t[f] = IF s[f] = Unset THEN DefaultOf(s, f) ELSE s[f]
      BY <3>1 DEF WithDefaults
    <3> QED
      BY <3>3, <3>4, <3>5
  <2> QED
    BY <2>1 DEF StorageTypeOf
<1> QED
  BY <1>1, <1>2

(* What the user has written stays, in every field; only the storage type  *)
(* is overwritten, when the persistence section is completed.              *)
THEOREM DefaultsKeepChoices ==
  ASSUME NEW s, NEW f \in Field, s[f] # Unset, f # "storageType"
  PROVE  WithDefaults(s)[f] = s[f]
BY DEF WithDefaults

(* One run of WithDefaults is enough: the result is complete, so the pass  *)
(* after the one that saved it goes on to the objects.                     *)
THEOREM DefaultsAreFinal ==
  ASSUME NEW s, IsSpec(s)
  PROVE  ~ Incomplete(WithDefaults(s))
<1> DEFINE t == WithDefaults(s)
<1>1. t = [f \in Field |-> t[f]]
  BY DEF WithDefaults
<1>2. ASSUME NEW f \in Field
      PROVE  WithDefaults(t)[f] = t[f]
  <2>1. CASE f = "storageType"
    BY <2>1, StorageTypeFinal, StorageTypeIsField DEF WithDefaults
  <2>2. CASE f # "storageType" /\ t[f] = Unset
    BY <2>2, MissingStaysMissing DEF WithDefaults
  <2>3. CASE f # "storageType" /\ t[f] # Unset
    BY <2>3, DefaultsKeepChoices
  <2> QED
    BY <2>1, <2>2, <2>3
<1>3. WithDefaults(t) = [f \in Field |-> WithDefaults(t)[f]]
  BY DEF WithDefaults
<1>4. WithDefaults(t) = t
  BY <1>1, <1>2, <1>3
<1> QED
  BY <1>4 DEF Incomplete

-----------------------------------------------------------------------------
(* The inductive invariant.                                                *)

(* Every version of the CR that somebody holds is one the API server has   *)
(* had, and two holders of the same version agree.                         *)
IsCopy(c) ==
  /\ c.rv \in Nat
  /\ c.rv <= cr.rv
  /\ c.rv = cr.rv => c.spec = cr.spec

WellFormed(s) ==
  /\ s = [f \in Field |-> s[f]]
  /\ s["storageType"] \in {Unset, "ephemeral", "persistence"}
  /\ "owner-rv" \notin s["labels"]

CrInv ==
  /\ IsCopy(cr) /\ IsCopy(crCache) /\ IsCopy(behind)
  /\ WellFormed(cr.spec) /\ WellFormed(crCache.spec) /\ WellFormed(behind.spec)

(* The copy of the pass, until the StatefulSet is created from it.         *)
BeforeStatefulSet == {"saveDefaults", "configMap", "serviceAccount",
                      "statefulSet"}

PassInv ==
  /\ pc \in Kind \cup {"idle", "saveDefaults", "status"}
  /\ instance.rv \in Nat
  /\ pc # "idle" => instance.rv <= cr.rv
  /\ pc \in BeforeStatefulSet => WellFormed(instance.spec)
  /\ pc = "saveDefaults" /\ instance.rv = cr.rv =>
       instance.spec = WithDefaults(cr.spec)

Version(k) == objects[k].from

ObjectsInv ==
  /\ objects = [k \in Kind |-> objects[k]]
  /\ \A k \in Kind : Version(k) \in Nat
  /\ Exists("statefulSet")
       => "owner-rv" \notin objects["statefulSet"].live["labels"]

(* Until the operator crashes, no object is newer than the cached CR.      *)
NoneAhead ==
  ~ crashed =>
    \A k \in {"configMap", "statefulSet"} :
      /\ Version(k) <= crCache.rv
      /\ pc # "idle" => Version(k) <= instance.rv /\ instance.rv <= crCache.rv

ConfigInv ==
  /\ pc \in {"serviceAccount", "statefulSet"} /\ Exists("configMap")
       => Version("configMap") >= instance.rv
  /\ ConfigBeforeTemplate

OwnedInv == CrInv /\ PassInv /\ ObjectsInv /\ NoneAhead /\ ConfigInv

-----------------------------------------------------------------------------
(* The fields, the kinds and the order of the pass.                        *)

LEMMA FieldNames ==
  /\ {"labels", "storageType"} \subseteq Field
  /\ "labels" \notin SessionField \cup StorageField
  /\ "labels" \in OptionalField
BY PersistenceFields, EphemeralFields
   DEF Field, OptionalField, SessionField, StorageField

LEMMA KindNames ==
  Kind = {"clientService", "headlessService", "adminServerService",
          "configMap", "serviceAccount", "statefulSet", "disruptionBudget"}
BY DEF Kind, Service

LEMMA Order ==
  /\ Following("begin") = "configMap"
  /\ Following("configMap") = "serviceAccount"
  /\ Following("serviceAccount") = "statefulSet"
  /\ Following("statefulSet") = "clientService"
  /\ Following("clientService") = "headlessService"
  /\ Following("headlessService") = "adminServerService"
  /\ Following("adminServerService") = "disruptionBudget"
  /\ Following("disruptionBudget") = "status"
BY DEF Following

LEMMA StatefulSetHasLabels == "labels" \in Live["statefulSet"]
BY DEF Live, PodFields, ObjectLabel

LEMMA DefaultsWellFormed ==
  ASSUME NEW s, WellFormed(s)
  PROVE  WellFormed(WithDefaults(s))
<1>1. WithDefaults(s) = [f \in Field |-> WithDefaults(s)[f]]
  BY DEF WithDefaults
<1>2. WithDefaults(s)["storageType"] \in {Unset, "ephemeral", "persistence"}
  BY FieldNames DEF WithDefaults, StorageTypeOf, WellFormed
<1>3. WithDefaults(s)["labels"] = s["labels"]
  BY FieldNames DEF WithDefaults, DefaultOf
<1> QED
  BY <1>1, <1>2, <1>3 DEF WellFormed

(* Of the values a user writes, no default replaces any.                   *)
LEMMA DefaultsKeepAll ==
  ASSUME NEW s, WellFormed(s), NEW f \in Field, s[f] # Unset
  PROVE  WithDefaults(s)[f] = s[f]
<1>1. CASE f = "storageType"
  BY <1>1, FieldNames DEF WithDefaults, StorageTypeOf, WellFormed, IsEphemeral
<1>2. CASE f # "storageType"
  BY <1>2, DefaultsKeepChoices
<1> QED
  BY <1>1, <1>2

LEMMA EditWellFormed ==
  ASSUME NEW s, WellFormed(s), NEW f \in DOMAIN Choices, NEW v \in Choices[f]
  PROVE  WellFormed([s EXCEPT ![f] = v])
BY FieldNames, ChoicesAssumption DEF WellFormed

-----------------------------------------------------------------------------
(* Each part of the invariant.                                             *)

LEMMA InitOwned == Init => OwnedInv
<1> SUFFICES ASSUME Init PROVE OwnedInv
  OBVIOUS
<1> USE DEF Init, InitialCr
<1>1. WellFormed(cr.spec)
  BY FieldNames DEF WellFormed
<1>2. CrInv
  BY <1>1 DEF CrInv, IsCopy
<1>3. PassInv
  BY DEF PassInv, BeforeStatefulSet
<1>4. \A k \in Kind : objects[k] = NoObject
  OBVIOUS
<1>5. ObjectsInv
  BY <1>4, KindNames DEF ObjectsInv, Version, Exists, NoObject
<1>6. NoneAhead
  BY <1>4, KindNames DEF NoneAhead, Version, NoObject
<1>7. ConfigInv
  BY <1>4, KindNames DEF ConfigInv, ConfigBeforeTemplate, Exists
<1> QED
  BY <1>2, <1>3, <1>5, <1>6, <1>7 DEF OwnedInv

LEMMA CrStep == OwnedInv /\ [Next]_vars => CrInv'
<1> SUFFICES ASSUME OwnedInv, [Next]_vars PROVE CrInv'
  OBVIOUS
<1> USE DEF CrInv, IsCopy
<1>i. CrInv /\ PassInv
  BY DEF OwnedInv
<1>1. CASE UNCHANGED <<cr, crCache, behind>>
  BY <1>1, <1>i
<1>2. CASE SaveDefaults
  <2>1. WellFormed(instance.spec)
    BY <1>2, <1>i DEF SaveDefaults, PassInv, BeforeStatefulSet
  <2> QED
    BY <1>2, <1>i, <2>1 DEF SaveDefaults
<1>3. CASE WriteStatus
  BY <1>3, <1>i DEF WriteStatus
<1>4. CASE SyncCrCache \/ CatchUp
  BY <1>4, <1>i DEF SyncCrCache, CatchUp
<1>5. CASE Crash
  BY <1>5, <1>i DEF Crash
<1>6. CASE EditSpec
  <2>1. PICK f \in DOMAIN Choices : \E v \in Choices[f] :
          cr' = [rv |-> cr.rv + 1, spec |-> [cr.spec EXCEPT ![f] = v]]
    BY <1>6 DEF EditSpec
  <2>2. PICK v \in Choices[f] :
          cr' = [rv |-> cr.rv + 1, spec |-> [cr.spec EXCEPT ![f] = v]]
    BY <2>1
  <2>3. WellFormed(cr'.spec)
    BY <1>i, <2>2, EditWellFormed
  <2> QED
    BY <1>6, <1>i, <2>2, <2>3 DEF EditSpec
<1> QED
  BY <1>1, <1>2, <1>3, <1>4, <1>5, <1>6
     DEF Next, Pass, BeginPass, WriteConfigMapOrService, WriteServiceAccount,
         CreateStatefulSet, UpdateStatefulSet, RefuseStatefulSet,
         EnsureBudget, CallFails, DeleteObject, vars

LEMMA PassStep == OwnedInv /\ [Next]_vars => PassInv'
<1> SUFFICES ASSUME OwnedInv, [Next]_vars PROVE PassInv'
  OBVIOUS
<1> USE DEF PassInv
<1>i. CrInv /\ PassInv
  BY DEF OwnedInv
<1>e. EndPass => PassInv'
  BY DEF EndPass, BeforeStatefulSet, InitialCr
<1>1. CASE BeginPass
  <2>1. WellFormed(instance'.spec)
    BY <1>1, <1>i, DefaultsWellFormed DEF BeginPass, CrInv
  <2>2. instance'.rv = crCache.rv /\ instance'.rv <= cr'.rv
    BY <1>1, <1>i DEF BeginPass, CrInv, IsCopy
  <2>3. instance'.rv = cr'.rv => instance'.spec = WithDefaults(cr'.spec)
    BY <1>1, <1>i DEF BeginPass, CrInv, IsCopy
  <2>4. pc' \in {"saveDefaults", "configMap"}
    BY <1>1, Order DEF BeginPass
  <2> QED
    BY <1>i, <2>1, <2>2, <2>3, <2>4, KindNames DEF CrInv, IsCopy
<1>2. CASE Advance /\ cr' = cr /\ instance' = instance
           /\ pc \in Kind
  <2>1. pc' = Following(pc)
    BY <1>2 DEF Advance
  <2>2. pc' \in Kind \cup {"status"} /\ pc # "idle" /\ pc' # "saveDefaults"
    BY <1>2, <2>1, Order, KindNames
  <2>3. pc' \in BeforeStatefulSet => pc \in BeforeStatefulSet
    BY <1>2, <2>1, Order, KindNames DEF BeforeStatefulSet
  <2> QED
    BY <1>2, <1>i, <2>2, <2>3
<1>3. CASE WriteConfigMapOrService \/ WriteServiceAccount
             \/ UpdateStatefulSet \/ EnsureBudget
  BY <1>2, <1>3, KindNames
     DEF WriteConfigMapOrService, WriteServiceAccount, UpdateStatefulSet,
         EnsureBudget, Service
<1>4. CASE CreateStatefulSet
  <2>1. pc' = "clientService" /\ instance'.rv = instance.rv /\ cr' = cr
    BY <1>4, Order DEF CreateStatefulSet, Advance
  <2> QED
    BY <1>4, <1>i, <2>1, KindNames DEF CreateStatefulSet, BeforeStatefulSet
<1>5. CASE SaveDefaults \/ RefuseStatefulSet \/ WriteStatus \/ CallFails
             \/ Crash
  BY <1>5, <1>e DEF SaveDefaults, RefuseStatefulSet, WriteStatus, CallFails,
                    Crash
<1>6. CASE SyncCrCache \/ CatchUp \/ DeleteObject
  BY <1>6, <1>i DEF SyncCrCache, CatchUp, DeleteObject
<1>7. CASE EditSpec
  BY <1>7, <1>i DEF EditSpec, CrInv, IsCopy
<1>8. CASE UNCHANGED vars
  BY <1>8, <1>i DEF vars
<1> QED
  BY <1>1, <1>3, <1>4, <1>5, <1>6, <1>7, <1>8 DEF Next, Pass

(* A step writes at most one object.                                       *)
WriteOf(k) ==
  /\ k \in Kind
  /\ \A j \in Kind \ {k} : objects'[j] = objects[j]
  /\ objects' = [j \in Kind |-> objects'[j]]

LEMMA Writes ==
  ASSUME OwnedInv, NEW k \in Kind, NEW o, Write(k, o)
  PROVE  WriteOf(k) /\ objects'[k] = o
BY DEF OwnedInv, ObjectsInv, Write, WriteOf

(* What the pass writes: an object made from its copy of the CR.           *)
LEMMA PassWrites ==
  ASSUME OwnedInv,
         \/ WriteConfigMapOrService \/ WriteServiceAccount
         \/ CreateStatefulSet \/ UpdateStatefulSet \/ EnsureBudget
  PROVE  /\ pc \in Kind
         /\ \/ objects' = objects
            \/ /\ WriteOf(pc)
               /\ objects'[pc].from = instance.rv
               /\ objects'[pc].live = Restrict(instance.spec, Live[pc])
         /\ pc' = Following(pc)
         /\ instance'.rv = instance.rv
         /\ cr' = cr /\ crCache' = crCache /\ crashed' = crashed
<1>1. pc \in Kind
  BY KindNames
     DEF WriteConfigMapOrService, WriteServiceAccount, CreateStatefulSet,
         UpdateStatefulSet, EnsureBudget, Service
<1>2. \/ objects' = objects
      \/ Write(pc, Made(pc, instance))
      \/ Write(pc, Synced(pc, instance))
  BY DEF WriteConfigMapOrService, WriteServiceAccount, CreateStatefulSet,
         UpdateStatefulSet, EnsureBudget
<1>3. \/ objects' = objects
      \/ WriteOf(pc) /\ objects'[pc] = Made(pc, instance)
      \/ WriteOf(pc) /\ objects'[pc] = Synced(pc, instance)
  BY <1>1, <1>2, Writes
<1>4. /\ pc' = Following(pc)
      /\ instance'.rv = instance.rv
      /\ cr' = cr /\ crCache' = crCache /\ crashed' = crashed
  BY DEF WriteConfigMapOrService, WriteServiceAccount, CreateStatefulSet,
         UpdateStatefulSet, EnsureBudget, Advance
<1> QED
  BY <1>1, <1>3, <1>4 DEF Made, Synced

(* No step but those of the pass and a deletion touches an object.         *)
LEMMA OtherSteps ==
  ASSUME [Next]_vars,
         ~ (\/ WriteConfigMapOrService \/ WriteServiceAccount
            \/ CreateStatefulSet \/ UpdateStatefulSet \/ EnsureBudget)
  PROVE  objects' = objects \/ DeleteObject
BY DEF Next, Pass, BeginPass, SaveDefaults, RefuseStatefulSet, WriteStatus,
       CallFails, SyncCrCache, CatchUp, Crash, EditSpec, vars

LEMMA Deletes ==
  ASSUME OwnedInv, DeleteObject
  PROVE  /\ \E k \in Kind : WriteOf(k) /\ objects'[k] = NoObject
         /\ UNCHANGED <<cr, crCache, behind, pc, instance, crashed>>
BY Writes DEF DeleteObject

LEMMA ObjectsStep == OwnedInv /\ [Next]_vars => ObjectsInv'
<1> SUFFICES ASSUME OwnedInv, [Next]_vars PROVE ObjectsInv'
  OBVIOUS
<1> USE DEF ObjectsInv, Version, Exists
<1>i. ObjectsInv /\ PassInv
  BY DEF OwnedInv
<1>1. CASE objects' = objects
  BY <1>1, <1>i
<1>2. CASE DeleteObject
  <2>1. PICK k \in Kind : WriteOf(k) /\ objects'[k] = NoObject
    BY <1>2, Deletes
  <2>2. NoObject.from = 0
    BY DEF NoObject
  <2>3. \A j \in Kind : objects'[j] = NoObject \/ objects'[j] = objects[j]
    BY <2>1 DEF WriteOf
  <2>4. \A j \in Kind : objects'[j].from \in Nat
    BY <1>i, <2>2, <2>3
  <2>5. objects' = [j \in Kind |-> objects'[j]]
    BY <2>1 DEF WriteOf
  <2> QED
    BY <1>i, <2>3, <2>4, <2>5, KindNames
<1>3. CASE \/ WriteConfigMapOrService \/ WriteServiceAccount
           \/ CreateStatefulSet \/ UpdateStatefulSet \/ EnsureBudget
  <2>1. SUFFICES ASSUME WriteOf(pc), objects'[pc].from = instance.rv,
                        objects'[pc].live = Restrict(instance.spec, Live[pc])
                 PROVE  ObjectsInv'
    BY <1>1, <1>3, PassWrites
  <2>2. pc \in Kind /\ instance.rv \in Nat
    BY <1>3, <1>i, PassWrites DEF PassInv
  <2>3. ASSUME pc = "statefulSet"
        PROVE  "owner-rv" \notin objects'["statefulSet"].live["labels"]
    <3>1. "owner-rv" \notin instance.spec["labels"]
      BY <1>i, <2>3 DEF PassInv, BeforeStatefulSet, WellFormed
    <3> QED
      BY <2>1, <2>3, <3>1, StatefulSetHasLabels DEF Restrict
  <2> QED
    BY <1>i, <2>1, <2>2, <2>3, KindNames DEF WriteOf
<1> QED
  BY <1>1, <1>2, <1>3, OtherSteps

LEMMA NoneAheadStep == OwnedInv /\ [Next]_vars => NoneAhead'
<1> SUFFICES ASSUME OwnedInv, [Next]_vars, ~ crashed',
                    NEW k \in {"configMap", "statefulSet"}
             PROVE  /\ Version(k)' <= crCache'.rv
                    /\ pc' # "idle" => /\ Version(k)' <= instance'.rv
                                      /\ instance'.rv <= crCache'.rv
  BY DEF NoneAhead
<1> USE DEF Version
<1>i. CrInv /\ PassInv /\ ObjectsInv /\ NoneAhead
  BY DEF OwnedInv
<1>k. k \in Kind
  BY KindNames
<1>c. ~ crashed
  BY DEF Next, Pass, BeginPass, SaveDefaults, WriteConfigMapOrService,
         WriteServiceAccount, CreateStatefulSet, UpdateStatefulSet,
         RefuseStatefulSet, EnsureBudget, WriteStatus, CallFails, SyncCrCache,
         CatchUp, Crash, EditSpec, DeleteObject, vars
<1>t. /\ Version(k) \in Nat /\ crCache.rv \in Nat /\ cr.rv \in Nat
      /\ instance.rv \in Nat /\ crCache.rv <= cr.rv
  BY <1>i, <1>k DEF CrInv, PassInv, ObjectsInv, IsCopy
<1>n. /\ Version(k) <= crCache.rv
      /\ pc # "idle" => Version(k) <= instance.rv /\ instance.rv <= crCache.rv
  BY <1>i, <1>c DEF NoneAhead
<1>1. CASE \/ WriteConfigMapOrService \/ WriteServiceAccount
           \/ CreateStatefulSet \/ UpdateStatefulSet \/ EnsureBudget
  <2>1. pc # "idle" /\ instance'.rv = instance.rv /\ crCache' = crCache
    BY <1>1, PassWrites, KindNames
  <2>2. objects'[k].from \in {objects[k].from, instance.rv}
    BY <1>1, <1>k, PassWrites DEF WriteOf
  <2> QED
    BY <1>n, <1>t, <2>1, <2>2
<1>2. CASE DeleteObject
  <2>1. objects'[k].from \in {objects[k].from, 0}
    BY <1>2, <1>k, Deletes DEF WriteOf, NoObject
  <2>2. UNCHANGED <<crCache, pc, instance>>
    BY <1>2, Deletes
  <2> QED
    BY <1>n, <1>t, <2>1, <2>2
<1>3. CASE BeginPass
  BY <1>3, <1>n, <1>t DEF BeginPass
<1>4. CASE SyncCrCache
  BY <1>4, <1>n, <1>t DEF SyncCrCache
<1>5. CASE SaveDefaults \/ RefuseStatefulSet \/ WriteStatus \/ CallFails
  BY <1>5, <1>n DEF SaveDefaults, RefuseStatefulSet, WriteStatus, CallFails,
                    EndPass
<1>6. CASE CatchUp \/ EditSpec \/ UNCHANGED vars
  BY <1>6, <1>n DEF CatchUp, EditSpec, vars
<1>7. ~ Crash
  BY DEF Crash
<1> QED
  BY <1>1, <1>2, <1>3, <1>4, <1>5, <1>6, <1>7 DEF Next, Pass

LEMMA ConfigStep == OwnedInv /\ [Next]_vars => ConfigInv'
<1> SUFFICES ASSUME OwnedInv, [Next]_vars PROVE ConfigInv'
  OBVIOUS
<1> USE DEF ConfigInv, ConfigBeforeTemplate, Version, Exists
<1>i. PassInv /\ ObjectsInv /\ NoneAhead /\ ConfigInv
  BY DEF OwnedInv
<1>t. /\ objects["configMap"].from \in Nat
      /\ objects["statefulSet"].from \in Nat /\ instance.rv \in Nat
  BY <1>i, KindNames DEF ObjectsInv, PassInv
<1>1. CASE \/ WriteConfigMapOrService \/ WriteServiceAccount
           \/ CreateStatefulSet \/ UpdateStatefulSet \/ EnsureBudget
  <2> DEFINE written(k) == pc = k /\ objects'[k].from = instance.rv
  <2>1. /\ pc' = Following(pc) /\ instance'.rv = instance.rv
        /\ crashed' = crashed /\ pc \in Kind /\ pc # "idle"
    BY <1>1, PassWrites, KindNames
  <2>2. \A k \in Kind : objects'[k] = objects[k] \/ written(k)
    BY <1>1, PassWrites DEF WriteOf
  <2>3. ASSUME pc' \in {"serviceAccount", "statefulSet"}
        PROVE  pc \in {"configMap", "serviceAccount"}
    BY <2>1, <2>3, Order, KindNames
  <2>4. ASSUME pc = "configMap"
        PROVE  objects'["configMap"].from = instance.rv
    BY <2>4, <1>1, KindNames, Writes
       DEF WriteConfigMapOrService, WriteServiceAccount, CreateStatefulSet,
           UpdateStatefulSet, EnsureBudget, Made, Synced
  <2>5. ASSUME pc' \in {"serviceAccount", "statefulSet"},
               objects'["configMap"] # NoObject
        PROVE  objects'["configMap"].from >= instance'.rv
    BY <1>i, <1>t, <2>1, <2>2, <2>3, <2>4, <2>5, KindNames
  <2>6. ASSUME ~ crashed', objects'["configMap"] # NoObject,
               objects'["statefulSet"] # NoObject
        PROVE  objects'["configMap"].from >= objects'["statefulSet"].from
    <3>1. CASE written("configMap")
      <4>1. objects["statefulSet"].from <= instance.rv
        BY <1>i, <2>1, <2>6 DEF NoneAhead
      <4> QED
        BY <1>t, <2>2, <3>1, <4>1, KindNames
    <3>2. CASE objects'["configMap"] = objects["configMap"]
               /\ written("statefulSet")
      BY <1>i, <1>t, <2>6, <3>2
    <3>3. CASE /\ objects'["configMap"] = objects["configMap"]
               /\ objects'["statefulSet"] = objects["statefulSet"]
      BY <1>i, <2>1, <2>6, <3>3
    <3> QED
      BY <2>2, <3>1, <3>2, <3>3, KindNames
  <2> QED
    BY <2>5, <2>6
<1>2. CASE DeleteObject
  <2>1. \A k \in Kind : objects'[k] \in {objects[k], NoObject}
    BY <1>2, Deletes DEF WriteOf
  <2>2. UNCHANGED <<pc, instance, crashed>>
    BY <1>2, Deletes
  <2> QED
    BY <1>i, <2>1, <2>2, KindNames
<1>3. CASE objects' = objects /\ ~ DeleteObject
  <2>1. \/ /\ crashed => crashed'
           /\ \/ UNCHANGED <<pc, instance>>
              \/ pc' \notin {"serviceAccount", "statefulSet"}
        \/ WriteConfigMapOrService \/ WriteServiceAccount
        \/ CreateStatefulSet \/ UpdateStatefulSet \/ EnsureBudget
    BY <1>3, Order
       DEF Next, Pass, BeginPass, SaveDefaults, RefuseStatefulSet, WriteStatus,
           CallFails, SyncCrCache, CatchUp, Crash, EditSpec, EndPass, vars
  <2> QED
    BY <1>1, <1>3, <1>i, <2>1
<1> QED
  BY <1>1, <1>2, <1>3, OtherSteps

-----------------------------------------------------------------------------
(* The copies of the CR and the objects made from them are always what     *)
(* OwnedInv says.                                                          *)
THEOREM OwnedInvariant == Spec => []OwnedInv
<1>1. OwnedInv /\ [Next]_vars => OwnedInv'
  BY CrStep, PassStep, ObjectsStep, NoneAheadStep, ConfigStep DEF OwnedInv
<1> QED
  BY InitOwned, <1>1, PTL DEF Spec

(* While the operator lives, a pod that starts from a template finds a     *)
(* config map that is at least as new.                                     *)
THEOREM ConfigFirst == Spec => []ConfigBeforeTemplate
<1>1. OwnedInv => ConfigBeforeTemplate
  BY DEF OwnedInv, ConfigInv
<1> QED
  BY OwnedInvariant, <1>1, PTL

(* owner-rv reaches neither the spec nor the template, although the map of *)
(* the labels is shared.                                                   *)
THEOREM LabelContained == Spec => []OwnerRvContained
<1>1. OwnedInv => OwnerRvContained
  BY DEF OwnedInv, CrInv, ObjectsInv, WellFormed, OwnerRvContained
<1> QED
  BY OwnedInvariant, <1>1, PTL

(* Crashes and lagging caches included, no step puts the StatefulSet back  *)
(* to an older CR.                                                         *)
THEOREM ForwardOnly == Spec => TemplateMovesForward
<1> DEFINE A == Exists("statefulSet") /\ objects'["statefulSet"] # NoObject
                  => objects["statefulSet"].from <= objects'["statefulSet"].from
<1>1. OwnedInv /\ [Next]_vars => A
  <2> SUFFICES ASSUME OwnedInv, [Next]_vars, Exists("statefulSet"),
                      objects'["statefulSet"] # NoObject
               PROVE  objects["statefulSet"].from
                        <= objects'["statefulSet"].from
    OBVIOUS
  <2>t. objects["statefulSet"].from \in Nat /\ instance.rv \in Nat
    BY KindNames DEF OwnedInv, ObjectsInv, PassInv, Version
  <2>1. CASE UpdateStatefulSet
    <3>1. objects'["statefulSet"].from \in {objects["statefulSet"].from,
                                            instance.rv}
      BY <2>1, PassWrites, KindNames DEF WriteOf, UpdateStatefulSet
    <3> QED
      BY <2>1, <2>t, <3>1 DEF UpdateStatefulSet, Refused
  <2>2. CASE WriteConfigMapOrService \/ WriteServiceAccount \/ EnsureBudget
    <3>1. pc # "statefulSet"
      BY <2>2 DEF WriteConfigMapOrService, WriteServiceAccount, EnsureBudget,
                  Service
    <3> QED
      BY <2>2, <2>t, <3>1, PassWrites, KindNames DEF WriteOf
  <2>3. ~ CreateStatefulSet
    BY DEF CreateStatefulSet
  <2>4. CASE DeleteObject
    BY <2>4, <2>t, Deletes, KindNames DEF WriteOf
  <2>5. CASE objects' = objects
    BY <2>5, <2>t
  <2> QED
    BY <2>1, <2>2, <2>3, <2>4, <2>5, OtherSteps
<1>2. OwnedInv /\ [Next]_vars => [A]_vars
  BY <1>1
<1> QED
  BY OwnedInvariant, <1>2, PTL DEF Spec, TemplateMovesForward

(* Whatever the user writes and whenever, no step of the operator replaces *)
(* it by a default.                                                        *)
THEOREM ChoicesKept == Spec => UserChoicesKept
<1> DEFINE A == pc' # pc => \A f \in Field :
                  cr.spec[f] # Unset => cr'.spec[f] = cr.spec[f]
<1>1. OwnedInv /\ [Next]_vars => A
  <2> SUFFICES ASSUME OwnedInv, [Next]_vars, pc' # pc,
                      NEW f \in Field, cr.spec[f] # Unset
               PROVE  cr'.spec[f] = cr.spec[f]
    OBVIOUS
  <2>1. CASE SaveDefaults
    <3>1. cr' = cr \/ cr'.spec = WithDefaults(cr.spec)
      BY <2>1 DEF SaveDefaults, OwnedInv, PassInv
    <3> QED
      BY <3>1, DefaultsKeepAll DEF OwnedInv, CrInv
  <2>2. CASE cr'.spec = cr.spec
    BY <2>2
  <2> QED
    BY <2>1, <2>2
       DEF Next, Pass, BeginPass, WriteConfigMapOrService, WriteServiceAccount,
           CreateStatefulSet, UpdateStatefulSet, RefuseStatefulSet,
           EnsureBudget, WriteStatus, CallFails, SyncCrCache, CatchUp, Crash,
           EditSpec, DeleteObject, vars
<1>2. OwnedInv /\ [Next]_vars => [A]_vars
  BY <1>1
<1> QED
  BY OwnedInvariant, <1>2, PTL DEF Spec, UserChoicesKept

-----------------------------------------------------------------------------
(* MadeFromCompleteSpec.                                                   *)

TickTyped(s) == s["tickTime"] \in Int \cup {Unset}

CompleteInv ==
  /\ \A c \in {cr, crCache, behind} : TickTyped(c.spec)
  /\ pc # "idle" => /\ DOMAIN instance.spec = Field
                    /\ Filled(instance.spec)
                    /\ TickTyped(instance.spec)
  /\ MadeFromCompleteSpec

LEMMA SectionDefaultIsSet ==
  ASSUME NEW f \in UNION {DOMAIN d : d \in Sections}
  PROVE  SectionDefault(f) # Unset
<1>1. PICK d \in Sections : f \in DOMAIN d
  OBVIOUS
<1>2. (CHOOSE e \in Sections : f \in DOMAIN e) \in Sections
      /\ f \in DOMAIN (CHOOSE e \in Sections : f \in DOMAIN e)
  BY <1>1
<1> QED
  BY <1>2, UnsetAssumption DEF SectionDefault

LEMMA DefaultedIsFilled ==
  ASSUME NEW s, IsSpec(s)
  PROVE  Filled(WithDefaults(s))
<1> DEFINE t == WithDefaults(s)
<1> SUFFICES ASSUME NEW f \in Field \ OptionalField, t[f] = Unset
             PROVE  f \in StorageField
                    /\ f \notin DOMAIN (IF IsEphemeral(t)
                                        THEN EphemeralDefault
                                        ELSE PersistenceDefault)
  BY DEF Filled, WithDefaults
<1>1. f # "storageType"
  BY DEF OptionalField
<1>2. DefaultOf(s, f) = Unset
  BY <1>1 DEF WithDefaults
<1>3. f \notin SessionField
  BY <1>2, SessionDefaultIsInt, UnsetAssumption DEF DefaultOf
<1>4. f \in StorageField
  <2> SUFFICES ASSUME f \notin StorageField PROVE FALSE
    OBVIOUS
  <2>1. f \in UNION {DOMAIN d : d \in Sections}
    BY <1>3 DEF Field
  <2>2. DefaultOf(s, f) = SectionDefault(f)
    BY <1>3 DEF DefaultOf
  <2> QED
    BY <1>2, <2>1, <2>2, SectionDefaultIsSet
<1>5. StorageDefault(s, f) = Unset
  BY <1>2, <1>3, <1>4 DEF DefaultOf
<1>6. CASE IsEphemeral(s)
  BY <1>4, <1>5, <1>6, StorageTypeStays, UnsetAssumption DEF StorageDefault
<1>7. CASE ~ IsEphemeral(s)
  BY <1>4, <1>5, <1>7, StorageTypeStays, UnsetAssumption DEF StorageDefault
<1> QED
  BY <1>6, <1>7

LEMMA TickDefault ==
  ASSUME NEW s, TickTyped(s)
  PROVE  TickTyped(WithDefaults(s))
<1>1. /\ "tickTime" \in Field
      /\ "tickTime" \notin SessionField \cup StorageField \cup OptionalField
  BY PersistenceFields, EphemeralFields
     DEF Field, Sections, ConfDefault, SessionField, StorageField,
         OptionalField
<1>2. \A d \in Sections : "tickTime" \in DOMAIN d => d = ConfDefault
  BY DEF Sections, ImageDefault, PortDefault, LabelDefault, PodDefault,
         ProbesDefault, SizeDefault
<1>3. ConfDefault \in Sections /\ "tickTime" \in DOMAIN ConfDefault
      /\ ConfDefault["tickTime"] = 2000
  BY DEF Sections, ConfDefault
<1>4. SectionDefault("tickTime") = 2000
  BY <1>2, <1>3 DEF SectionDefault
<1> QED
  BY <1>1, <1>4 DEF TickTyped, WithDefaults, DefaultOf

(* The parts of objects name fields of the spec, and with a field of the   *)
(* storage the type of the storage.                                        *)
IsPart(S) ==
  S \subseteq Field /\ (S \cap StorageField # {} => "storageType" \in S)

LEMMA PartIsFilled ==
  ASSUME NEW s, DOMAIN s = Field, Filled(s), NEW S, IsPart(S)
  PROVE  Filled(Restrict(s, S))
<1> DEFINE part == Restrict(s, S)
<1>1. DOMAIN part = S /\ \A f \in S : part[f] = s[f]
  BY DEF Restrict
<1> SUFFICES ASSUME NEW f \in S \ OptionalField, s[f] = Unset
             PROVE  f \in StorageField
                    /\ f \notin DOMAIN (IF IsEphemeral(part)
                                        THEN EphemeralDefault
                                        ELSE PersistenceDefault)
  BY <1>1 DEF Filled
<1>2. f \in StorageField
      /\ f \notin DOMAIN (IF IsEphemeral(s) THEN EphemeralDefault
                          ELSE PersistenceDefault)
  BY DEF Filled, IsPart
<1>3. IsEphemeral(part) <=> IsEphemeral(s)
  BY <1>1, <1>2 DEF IsPart, IsEphemeral
<1> QED
  BY <1>2, <1>3

LEMMA SectionFields ==
  \A d \in Sections : DOMAIN d \subseteq Field
BY DEF Field

LEMMA StorageFields ==
  StorageField = {"reclaimPolicy", "storageSize", "ephemeral"}
BY PersistenceFields, EphemeralFields DEF StorageField

LEMMA Parts == \A k \in Kind : IsPart(Live[k]) /\ IsPart(Fixed[k])
<1>1. ObjectLabel \subseteq Field \ StorageField
  BY SectionFields, StorageFields
     DEF ObjectLabel, Sections, Field, OptionalField, LabelDefault
<1>2. ConfigFields \subseteq Field \ StorageField
  BY SectionFields, StorageFields
     DEF ConfigFields, Sections, Field, OptionalField, SessionField,
         ConfDefault, PortDefault, SizeDefault
<1>3. PodFields \subseteq Field /\ "storageType" \in PodFields
  BY SectionFields, StorageFields, <1>1
     DEF PodFields, Sections, Field, OptionalField
<1>4. IsPart(ClaimFields) /\ IsPart(BudgetFields)
  BY SectionFields, StorageFields, <1>1
     DEF IsPart, ClaimFields, BudgetFields, Sections, Field, OptionalField,
         SizeDefault
<1>5. DOMAIN PortDefault \subseteq Field \ StorageField
  BY SectionFields, StorageFields DEF Sections, PortDefault
<1>6. /\ {"imagePullSecrets", "client", "adminServer", "annotations",
          "domainName", "external", "replicas"} \subseteq Field \ StorageField
  BY SectionFields, StorageFields
     DEF Field, OptionalField, Sections, SizeDefault, PortDefault
<1>7. ASSUME NEW k \in Kind PROVE IsPart(Live[k])
  BY <1>2, <1>3, <1>5, <1>6, KindNames DEF Live, IsPart
<1>8. ASSUME NEW k \in Kind PROVE IsPart(Fixed[k])
  BY <1>1, <1>4, KindNames DEF Fixed, IsPart
<1> QED
  BY <1>7, <1>8

(* What the pass writes is made of parts of its spec; only the fixed part  *)
(* may be the one the object had.                                          *)
LEMMA PassWritesParts ==
  ASSUME OwnedInv,
         \/ WriteConfigMapOrService \/ WriteServiceAccount
         \/ CreateStatefulSet \/ UpdateStatefulSet \/ EnsureBudget
  PROVE  \A k \in Kind :
           \/ objects'[k] = objects[k]
           \/ /\ k = pc
              /\ objects'[k].live = Restrict(instance.spec, Live[k])
              /\ \/ objects'[k].fixed = Restrict(instance.spec, Fixed[k])
                 \/ Exists(k) /\ objects'[k].fixed = objects[k].fixed
<1>1. pc \in Kind
  BY PassWrites
<1>2. \/ objects' = objects
      \/ Write(pc, Made(pc, instance))
      \/ Exists(pc) /\ Write(pc, Synced(pc, instance))
  BY DEF WriteConfigMapOrService, WriteServiceAccount, CreateStatefulSet,
         UpdateStatefulSet, EnsureBudget
<1>3. CASE Write(pc, Made(pc, instance))
  BY <1>1, <1>3, Writes DEF WriteOf, Made
<1>4. CASE Exists(pc) /\ Write(pc, Synced(pc, instance))
  BY <1>1, <1>4, Writes DEF WriteOf, Synced
<1> QED
  BY <1>2, <1>3, <1>4

LEMMA CompleteStep ==
  OwnedInv /\ CompleteInv /\ [Next]_vars => CompleteInv'
<1> SUFFICES ASSUME OwnedInv, CompleteInv, [Next]_vars PROVE CompleteInv'
  OBVIOUS
<1> USE DEF CompleteInv
<1>1. (\A c \in {cr, crCache, behind} : TickTyped(c.spec))'
  <2>1. CASE UNCHANGED <<cr, crCache, behind>>
    BY <2>1
  <2>2. CASE SaveDefaults \/ WriteStatus
    BY <2>2 DEF SaveDefaults, WriteStatus
  <2>3. CASE SyncCrCache \/ CatchUp \/ Crash
    BY <2>3 DEF SyncCrCache, CatchUp, Crash
  <2>4. CASE EditSpec
    <3>1. PICK f \in DOMAIN Choices : \E v \in Choices[f] :
            cr' = [rv |-> cr.rv + 1, spec |-> [cr.spec EXCEPT ![f] = v]]
      BY <2>4 DEF EditSpec
    <3>2. PICK v \in Choices[f] :
            cr' = [rv |-> cr.rv + 1, spec |-> [cr.spec EXCEPT ![f] = v]]
      BY <3>1
    <3>3. cr'.spec["tickTime"] \in {cr.spec["tickTime"], v}
          /\ (f # "tickTime" => cr'.spec["tickTime"] = cr.spec["tickTime"])
      BY <3>2
    <3>4. TickTyped(cr'.spec)
      BY <3>3, ChoicesAssumption DEF TickTyped
    <3> QED
      BY <2>4, <3>4 DEF EditSpec
  <2> QED
    BY <2>1, <2>2, <2>3, <2>4
       DEF Next, Pass, BeginPass, WriteConfigMapOrService,
           WriteServiceAccount, CreateStatefulSet, UpdateStatefulSet,
           RefuseStatefulSet, EnsureBudget, CallFails, DeleteObject, vars
<1>2. pc' # "idle" => /\ DOMAIN instance'.spec = Field
                      /\ Filled(instance'.spec)
                      /\ TickTyped(instance'.spec)
  <2>1. CASE BeginPass
    <3>1. IsSpec(crCache.spec)
      BY DEF OwnedInv, CrInv, WellFormed, IsSpec, TickTyped
    <3>2. instance'.spec = WithDefaults(crCache.spec)
      BY <2>1 DEF BeginPass
    <3>3. Filled(instance'.spec) /\ TickTyped(instance'.spec)
      BY <3>1, <3>2, DefaultedIsFilled, TickDefault
    <3> QED
      BY <3>2, <3>3 DEF WithDefaults
  <2>2. CASE CreateStatefulSet
    <3>1. instance'.spec = [instance.spec EXCEPT !["labels"]
                                          = @ \cup {"owner-rv"}]
          /\ pc # "idle"
      BY <2>2 DEF CreateStatefulSet
    <3>2. /\ DOMAIN instance'.spec = DOMAIN instance.spec
          /\ \A f \in Field \ {"labels"} :
               instance'.spec[f] = instance.spec[f]
      BY <3>1
    <3>3. {"labels", "storageType"} \subseteq OptionalField
          /\ "labels" # "storageType"
          /\ {"tickTime", "storageType"} \subseteq Field \ {"labels"}
      BY SectionFields DEF Sections, ConfDefault, Field, OptionalField
    <3>4. IsEphemeral(instance'.spec) <=> IsEphemeral(instance.spec)
      BY <3>2, <3>3 DEF IsEphemeral
    <3>5. Filled(instance'.spec)
      BY <3>1, <3>2, <3>3, <3>4 DEF Filled
    <3> QED
      BY <3>1, <3>2, <3>3, <3>5 DEF TickTyped
  <2>3. CASE pc' = "idle"
    BY <2>3
  <2>4. CASE instance' = instance /\ pc # "idle"
    BY <2>4
  <2>5. CASE UNCHANGED <<instance, pc>>
    BY <2>5
  <2> QED
    BY <2>1, <2>2, <2>3, <2>4, <2>5, KindNames
       DEF Next, Pass, WriteConfigMapOrService, WriteServiceAccount,
           UpdateStatefulSet, RefuseStatefulSet, EnsureBudget, SaveDefaults,
           WriteStatus, CallFails, SyncCrCache, CatchUp, Crash, EditSpec,
           DeleteObject, EndPass, Service, vars
<1>3. MadeFromCompleteSpec'
  <2>1. CASE \/ WriteConfigMapOrService \/ WriteServiceAccount
             \/ CreateStatefulSet \/ UpdateStatefulSet \/ EnsureBudget
    <3>1. pc # "idle"
      BY <2>1, PassWrites, KindNames
    <3>2. \A k \in Kind : /\ Filled(Restrict(instance.spec, Live[k]))
                          /\ Filled(Restrict(instance.spec, Fixed[k]))
      BY <3>1, Parts, PartIsFilled
    <3> QED
      BY <2>1, <3>2, PassWritesParts DEF MadeFromCompleteSpec, Exists
  <2>2. CASE DeleteObject
    <3>1. \A k \in Kind : objects'[k] \in {objects[k], NoObject}
      BY <2>2, Deletes DEF WriteOf
    <3> QED
      BY <3>1 DEF MadeFromCompleteSpec, Exists
  <2>3. CASE objects' = objects
    BY <2>3 DEF MadeFromCompleteSpec, Exists
  <2> QED
    BY <2>1, <2>2, <2>3, OtherSteps
<1> QED
  BY <1>1, <1>2, <1>3

(* No object ever lacks a default, for any edits, crashes and failures.    *)
THEOREM ObjectsComplete == Spec => []MadeFromCompleteSpec
<1>1. Init => CompleteInv
  <2> SUFFICES ASSUME Init PROVE CompleteInv
    OBVIOUS
  <2>1. "tickTime" \in Field
    BY SectionFields DEF Sections, ConfDefault
  <2>2. \A c \in {cr, crCache, behind} : TickTyped(c.spec)
    BY <2>1 DEF Init, InitialCr, TickTyped
  <2>3. MadeFromCompleteSpec
    BY DEF Init, MadeFromCompleteSpec, Exists
  <2> QED
    BY <2>2, <2>3 DEF Init, CompleteInv
<1>2. CompleteInv => MadeFromCompleteSpec
  BY DEF CompleteInv
<1> QED
  BY <1>1, <1>2, CompleteStep, OwnedInvariant, PTL DEF Spec

=============================================================================
