----------------------------- MODULE SpecDefaults -----------------------------
(***************************************************************************)
(* WithDefaults: what the operator writes into the fields that the user    *)
(* left out of the spec of a ZookeeperCluster                              *)
(* (api/v1beta1/zookeepercluster_types.go).                                *)
(*                                                                         *)
(* A spec is a function on the fields.  A field that is empty, nil or zero *)
(* is Unset; the list of ports and the two maps of labels are a field for  *)
(* every name the code looks for in them, with the remaining labels in     *)
(* "labels".  A section of which the code reads nothing is one field.  The *)
(* access modes of a volume, which are always overwritten, are left out.   *)
(***************************************************************************)
EXTENDS Integers

CONSTANT Unset

ImageDefault == [repository |-> "ghcr.io/infonl/zookeeper", tag |-> "0.2.16",
                 pullPolicy |-> "Always"]

ConfDefault == [initLimit |-> 10, tickTime |-> 2000, syncLimit |-> 2,
                globalOutstandingLimit |-> 1000, preAllocSize |-> 65536,
                snapCount |-> 10000, commitLogCount |-> 500,
                snapSizeLimitInKb |-> 4194304, maxClientCnxns |-> 60,
                autoPurgeSnapRetainCount |-> 3, autoPurgePurgeInterval |-> 1]

PortDefault == [client |-> 2181, quorum |-> 2888, leaderElection |-> 3888,
                metrics |-> 7000, adminServer |-> 8080]

LabelDefault == [app |-> "name", release |-> "name"]

PodDefault == [podApp |-> "name", podRelease |-> "name",
               terminationGracePeriodSeconds |-> 30,
               serviceAccountName |-> "default", affinity |-> "spread"]

ProbesDefault == [readinessProbe |-> "10s", livenessProbe |-> "10s"]

SizeDefault == [replicas |-> 3, maxUnavailableReplicas |-> 1]

PersistenceDefault == [reclaimPolicy |-> "Retain", storageSize |-> "20Gi"]

EphemeralDefault == [ephemeral |-> "emptyDir"]

(* The sections whose defaults depend on nothing else.                     *)
Sections == {ImageDefault, ConfDefault, PortDefault, LabelDefault, PodDefault,
             ProbesDefault, SizeDefault}

ASSUME UnsetAssumption ==
  /\ Unset \notin Int
  /\ \A d \in Sections \cup {PersistenceDefault, EphemeralDefault} :
       \A f \in DOMAIN d : d[f] # Unset

SessionField == {"minSessionTimeout", "maxSessionTimeout"}

StorageField == DOMAIN PersistenceDefault \cup DOMAIN EphemeralDefault

(* Fields that have no default.                                            *)
OptionalField == {"storageType", "labels", "podPolicy", "containers",
                  "maxCnxns", "quorumListenOnAllIPs", "additionalConfig",
                  "external", "annotations", "domainName",
                  "kubernetesClusterDomain", "imagePullSecrets"}

Field == (UNION {DOMAIN d : d \in Sections}) \cup SessionField
           \cup StorageField \cup OptionalField

-----------------------------------------------------------------------------
IsEphemeral(s) == s["storageType"] = "ephemeral"

(* Mutant: one of the ports that are looked for is never added.            *)
SectionDefaultNoMetrics(f) ==
  IF f = "metrics" THEN Unset
  ELSE (CHOOSE d \in Sections : f \in DOMAIN d)[f]

SectionDefault(f) == (CHOOSE d \in Sections : f \in DOMAIN d)[f]

(* The session timeouts are multiples of the tick time, which has its      *)
(* default by then.                                                        *)
SessionDefault(s, f) ==
  LET tick == IF s["tickTime"] = Unset THEN ConfDefault.tickTime
              ELSE s["tickTime"]
  IN  IF f = "minSessionTimeout" THEN 2 * tick ELSE 20 * tick

(* Only the section of the storage type in use is filled in.               *)
StorageDefault(s, f) ==
  IF IsEphemeral(s)
  THEN IF f \in DOMAIN EphemeralDefault THEN EphemeralDefault[f] ELSE Unset
  ELSE IF f \in DOMAIN PersistenceDefault THEN PersistenceDefault[f] ELSE Unset

DefaultOf(s, f) ==
  IF f \in SessionField THEN SessionDefault(s, f)
  ELSE IF f \in StorageField THEN StorageDefault(s, f)
  ELSE IF f \in OptionalField THEN Unset
  ELSE SectionDefault(f)

(* Completing the persistence section names its storage type.              *)
StorageTypeOf(s) ==
  IF /\ ~ IsEphemeral(s)
     /\ \E f \in DOMAIN PersistenceDefault : s[f] = Unset
  THEN "persistence" ELSE s["storageType"]

WithDefaults(s) ==
  [f \in Field |-> IF f = "storageType" THEN StorageTypeOf(s)
                   ELSE IF s[f] = Unset THEN DefaultOf(s, f) ELSE s[f]]

(* The result of WithDefaults: whether it changed the spec.                *)
Incomplete(s) == WithDefaults(s) # s
=============================================================================
