# Verification of the ZooKeeper operator

TLA+ models of the operator in this repository, the TLC runs that check them on
small instances, and theorems about them that TLAPS checks for every instance.
`PROJECT.json` lists the components, runs, mutants, findings, hazards and
theorems, and maps every definition to the lines it models. In the text,
`controller:N` is line N of `controllers/zookeepercluster_controller.go`.

## 1. The system

The operator is a Kubernetes controller for one custom resource,
`ZookeeperCluster` (the CR). A user writes its spec: a number of replicas, an
image tag, a request for a rolling restart, a reclaim policy for the volumes.
The operator makes a StatefulSet, services, a config map and a disruption budget
out of it, keeps the size of the ensemble in a znode, and reports a status.

| Component | State | Operations | Interacts with |
|---|---|---|---|
| Reconciler (`controllers/`) | none of its own: a pass has local copies of the CR (`instance`) and of the StatefulSet (`foundSts`) | `Reconcile` and the functions of its pipeline | API server (reads through caches, writes directly), ZooKeeper, user, StatefulSet controller |
| Status (`api/v1beta1/status.go`) | conditions, current and target version, ready replicas, `MetaRootCreated` | `Init`, setters, `UpdateProgress`, predicates, `checkSyncTimeout` | written by the reconciler, read by later passes and users |
| Metadata in ZooKeeper (`pkg/zk/zookeeper_client.go`) | znode `/zookeeper-operator/<name>` with `CLUSTER_SIZE` | `CreateNode`, `NodeExists`, `UpdateNode` | written by the reconciler, read by the preStop script of a pod |
| Reclaiming (`reconcileFinalizers` and below) | the finalizer of the CR, the PVCs | add and remove the finalizer, delete orphans, delete all | StatefulSet controller, which makes the PVCs |
| Owned objects (`pkg/zk/generators.go`, `synchronizers.go`) | StatefulSet, services, config map, budget, service account | make, create or update | API server |
| Defaults (`api/v1beta1/zookeepercluster_types.go`) | the spec | `WithDefaults` | first step of a pass |
| Pod scripts and `zu` (`docker/`) | files on the pod's volume, the dynamic configuration of the ensemble | start, readiness probe, preStop | ZooKeeper, the znode |
| Leader lock (`pkg/utils/leader.go`, `main.go`) | a config map owned by the leader's pod | `BecomeLeader`, the check of a failed leader | API server |
| Exporter (`cmd/exporter`, `pkg/yamlexporter`) | files | generate YAML | none |

What is hard here:

* **Caches.** Every read of a pass comes from informers that lag behind the API
  server, and after a restart may even go back. Writes are guarded by
  resourceVersion (optimistic locking) and, for the StatefulSet, by the label
  `owner-rv`, the version of the CR it was last synchronized with.
* **A pass is not atomic.** Between any two of its calls the user edits, the
  StatefulSet controller writes a status, a call fails, or the operator dies.
* **Two stores.** The size is in the StatefulSet and in ZooKeeper, the fact that
  the znode exists is in the znode and in the status; nothing makes the pairs
  atomic.
* **Observation.** The operator learns of a rolling update only from the two
  revisions and the counters of a status somebody else writes, and status
  changes do not wake it (the event filter of controller:804); it looks every
  30 seconds.
* **Time.** An upgrade without progress for ten minutes is declared failed, by a
  clock kept in the update time of a condition.
* **Two calls that belong together.** Znodes and status, two deletions of a failed leader and
  its lock, `zu remove` and `zu add` of a promotion, config map and StatefulSet: each pair can be cut
  in the middle or entered by somebody else.

What makes each component correct is what section 4 states as properties; the
lines where each can go wrong are the hazards of `PROJECT.json`.

## 2. The modules

| Module | What it is |
|---|---|
| `ClusterStatus` | the status and its operations, as functions of a status record and the clock |
| `StatefulSet` | external: what Kubernetes does with the pods of a StatefulSet with OrderedReady pod management and RollingUpdate, as operators over a sequence of pods |
| `ZookeeperClusterController` | the reconciler with the API server, caches, ZooKeeper's znode, the StatefulSet controller, the user, crashes, failed calls and the clock; composes the two above |
| `SpecFollower` | the abstract specification of what the operator promises about the StatefulSet |
| `SizeProtocol` | the abstract specification of what the operator promises the members of the ensemble about the size |
| `PvcReclaim` | the reclaiming of volumes from the first pass to the deletion of the cluster |
| `ZkMembership` | the scripts of the pods: how a pod becomes a voter of the ensemble and how it leaves |
| `SpecDefaults` | `WithDefaults` as an operator on specs, field by field |
| `OwnedObjects` | the objects a pass makes and keeps in line with the spec, and the defaults it saves before; uses `SpecDefaults` |
| `LeaderLock` | how one of the operator's pods becomes the leader |
| `ZookeeperClusterController_proofs`, `UpgradeState_proofs`, `Rollout_proofs` (each extends the one before), `PvcReclaim_proofs`, `ZkMembership_proofs`, `OwnedObjects_proofs` (with `SpecDefaults`), `LeaderLock_proofs` | theorems and proofs |
| `Ensemble_proofs` | the operator beside the scripts, and what that composition keeps |
| `MCController`, `MCPvcReclaim`, `MCZkMembership`, `MCOwnedObjects` | instances for TLC; `LeaderLock` needs none |

The reconciler is cut by the state that its parts share. `ZookeeperClusterController` has what goes
through the StatefulSet, ZooKeeper and the status; `PvcReclaim` and `OwnedObjects` have the other parts
of the same pass with the objects they concern, and each keeps of the rest what its own part reads.
`ZkMembership` has of the operator only what the scripts see of it, and `LeaderLock`
is why there is one operator in all of them.

`SizeProtocol` joins the reconciler and the scripts. Each of the two modules has the size that the user wants, the one in
the znode and the one of the StatefulSet, and each implements `SizeProtocol` on these three: the controller with its passes, caches
and copies, although calls fail and the operator crashes, when the user waits; `ZkMembership` with its two steps
`AnnounceSize` and `Resize`, when the user waits. The votes need no more of an operator than that (`AnyOperatorWillDo`). So they are safe beside
the operator of the code: `Ensemble_proofs` has `Ensemble`, the conjunction of the controller and of the scripts beside any operator
(`OpenSpec`), which share the three sizes and move independently otherwise, and proves it (`VotesAreSafe`). Two failures are
excepted, for which the controller has a switch each: `LostWrites`, the failed write whose error is dropped, and
`StaleRestarts`, a restart that lists from a replica that lags. The list at the end of section 4 says what either of them, or an
impatient user, does to the promise. In `Ensemble` the pods that the controller counts and those that run the scripts are not tied to each
other, so the theorem covers every relative timing of the two; the user of `Ensemble` waits for both.

### ZookeeperClusterController

A pass of `Reconcile` is a sequence of calls; **one action is one call**, with the
computation before and after it, because nothing else of a pass can be observed.
`pc` names the next call, `instance` and `foundSts` are the local copies that the
code reads before a call and uses after it.

| Action | Code |
|---|---|
| `BeginPass`, `RollingRestart` | Get and the restart branch of `Reconcile` (controller:65-102) |
| `RecoverFailedUpgrade`, `StayFailed` | controller:162-192 |
| `CreateStatefulSet` | controller:227-237 |
| `RefuseStaleness`, `MetadataMissing`, `UpdateClusterSize` | controller:241-269 |
| `UpdateSameSize`, `UpdateNewSize` | `updateStatefulSet` (controller:278-291), from a cached copy or from the copy read before the call to ZooKeeper |
| `InitUpgrading`, `StartUpgrade`, `NoUpgrade`, `CompleteUpgrade`, `ReportProgress`, `FailUpgrade`, `AwaitProgress` | the branches of `upgradeStatefulSet` (controller:293-344) with `clearUpgradeStatus` and `checkSyncTimeout` |
| `SkipClusterStatus`, `CreateParentNode`, `CreateNode`, `WriteClusterStatus`, `ClusterStatusConflict` | `reconcileClusterStatus` (controller:553-617) and `CreateNode` of the ZooKeeper client, one action per znode |
| `CallFails` | any call returns an error, which ends the pass (controller:113-115); that `UpdateClusterSize` goes on after one (controller:268) depends on `LostWrites` |

An update through `Client.Update` or `Client.Status().Update` succeeds only when the
local copy has the current resourceVersion, leaves the resourceVersion alone when it
changes nothing, and replaces the local copy by the response. `ClearUpgradeStatus`
shows why that matters: the new status must be saved before an update of the CR,
whose response would overwrite it (controller:349).

The environment: informers deliver the current object or nothing (`SyncCrCache`,
`SyncStsCache`); `Crash` loses the pass and fills the caches from the API server or
from an older state of it (`behind`, moved by `CatchUp`; only if `StaleRestarts`); the user edits the size, the
tag, or asks for a restart; the StatefulSet controller observes a template, creates,
deletes and replaces pods one at a time and completes a rollout; pods become ready
and fail; the clock ticks.

`rv` is the resourceVersion as a number, which is also what `compareResourceVersion`
makes of it. `specRv`, the version of the last edit of the spec, and `progressAt`, when the
number of updated pods last changed, are history variables: no action of the code
reads them. A template is what of it users change: the image tag and the restart
annotation.

### PvcReclaim

The pass here is `reconcileFinalizers`, which ZookeeperClusterController leaves out
because it does nothing for a cluster with policy Retain, followed by the parts that
the volumes depend on: the size of the StatefulSet and `Status.ReadyReplicas`.

| Action | Code |
|---|---|
| `SkipFinalizers`, `AddFinalizer`, `RemoveFinalizer` | the branches of `reconcileFinalizers` (controller:701-726) |
| `CleanupOrphanPVCs`, `CleanUpAllPVCs`, `DeletePVC`, `OrphansDeleted` | controller:736-796; one call per PVC, in any order, from a list read from a cache (`claimCache`) |
| `SyncStatefulSet`, `StatefulSetFails` | `reconcileStatefulSet` as one step that takes effect, or ends the pass: the cached StatefulSet is not the current one (`stsKnown`), the CR is older than its label (`ownerRv`), or ZooKeeper does not take a new size, for lack of the znode or of a quorum |
| `CreateMetadata`, `WriteStatus` | `reconcileClusterStatus` (controller:588-616) |
| `CallFails` | any call returns an error, which ends the pass |

A policy is Delete, Retain or None, a spec without a section of persistence (ephemeral
storage), which the code sends through the branch of policy Delete (controller:702). A PVC in use
survives its deletion until its pod is gone, the rule of Kubernetes. The CR goes away with its
finalizer; the garbage collector then removes the StatefulSet. `Crash` and `StaleRestart` start the
operator again on the current state of the API server or on an older one (`behind`, moved by `CatchUp`); pods fail
and are evicted. A StatefulSet that has changed in any way is unknown to the operator until its informer
has delivered it (`stsKnown`), since a write from an older copy ends in a conflict.

### ZkMembership

Every pod of the StatefulSet runs three scripts of the image. A script is cut into
actions at its calls to ZooKeeper; what it does between two calls concerns files on its own
volume. `i` is the MYID of a pod, its ordinal plus one.

| Action | Code (`docker/bin`) |
|---|---|
| `FindEnsemble`, `MissEnsemble` | zookeeperStart.sh:37-142: files on disk, lookup of the headless service (right, or failing), bootstrap of the first member |
| `Register`, `RegisterCut`, `RegisterFails` | zookeeperStart.sh:144-152 with `zu add`: committed and written, committed only, refused |
| `Launch` | zookeeperStart.sh:154-175 |
| `ProbePasses`, `ProbeFails`, `Promote`, `AddPromoted`, `PromotionCut` | zookeeperReady.sh:23-91: an observer is removed, then added as a participant |
| `ReadSize`, `Leave`, `TeardownCut` | zookeeperTeardown.sh:21-50 with `zu sync` and `zu remove` |
| `EditSize` | external: the user edits spec.replicas (`wanted`) |
| `CreateMetadata`, `AnnounceSize`, `Resize`, `Reclaim` | the operator's writes of the size to the znode and to the StatefulSet, in the order of `SizeProtocol`, and its deletion of volumes, as in PvcReclaim |

ZooKeeper is external: `config` is the committed dynamic configuration; a reconfiguration needs a ready
pod behind the client service and a majority of the old and of the new voters; a running
server writes what is committed to its own file (`Learn`). `ready` is what DNS and the client
service know, because the headless service publishes only ready addresses. `lost` is a history
variable: members that were cut off at a point from which the code has no way back (a promotion cut
between remove and add, a pod that goes for good without its preStop hook, or that is gone at the moment when
`Resize` leaves no place for it). The list at the end of section 4 has the last case. `reused` is another one: members
whose pod came back to the files of a former life on its volume, which makes zookeeperStart.sh:123 skip the
registration (run `volume_kept`). `Reclaim` comes when all is ready, as in the code one pass or more after
the one that reports PodsReady, and the user does not wait for it.

Two assumptions about time: a probe, which comes every ten seconds, finds that its server has
heard of the last reconfiguration (`CaughtUp`), and a container takes longer to come up than the next
probe of the ones before it (`CreatePod`). Without the second TLC finds a deadlock: an observer that
passed its probe because no pod was ready (zookeeperReady.sh:28) is still an observer when a
later member is promoted and restarts; the two remaining voters have no majority to promote it,
its probe fails, and the StatefulSet will not start the missing pod before it. A hook beside an
unfinished start script is modelled as ending the script.

`zu remove` passes its second argument, the id of the server, as the name of the output file
(Main.kt:154), so it writes the configuration to a file of that name in the working directory; nothing
reads it and the scripts ignore the result, so the model does not have it.

### SpecDefaults and OwnedObjects

A spec is a function on its fields; an empty, nil or zero field is `Unset`. Sections whose defaults are
independent are records of defaults, and `WithDefaults` fills them in; session timeouts follow the tick
time, the storage section follows the storage type. `Incomplete` is what the code calls `changed`.

An owned object is `live`, the fields of the spec that every pass writes again, `fixed`, those that only
the creation writes, and `from`, the resourceVersion of the CR it was written from (the label `owner-rv` of
the StatefulSet; history in the others). Which field is in which part is read off the generators and
the synchronizers. Labels of config map and services, claim templates and the whole disruption budget
turn out to be fixed.

| Action | Code |
|---|---|
| `BeginPass`, `SaveDefaults` | Get, `WithDefaults` and the update (controller:65-102) |
| `WriteConfigMapOrService` | `reconcileConfigMap` and the three services, with `SyncConfigMap` and `SyncService` |
| `WriteServiceAccount` | `reconcileServiceAccount`; the account named default is skipped |
| `CreateStatefulSet`, `UpdateStatefulSet`, `RefuseStatefulSet` | `reconcileStatefulSet`: creation adds owner-rv to the map of labels that the object shares with `instance`; an older CR is refused, and so is by the API server a template without its volume |
| `EnsureBudget` | `reconcilePodDisruptionBudget`, which only creates |
| `WriteStatus`, `CallFails` | the end of the pass, and any call that fails |

The environment edits fields, deletes owned objects, crashes the operator onto an older state of the API
server, and changes the status, which moves the resourceVersion. One counter, `events`, bounds them together.

### LeaderLock

Every pod of the operator's Deployment runs the pre-check and then `leader.Become`; one action is one call.

| Action | Code |
|---|---|
| `ReadLock`, `ReadLeaderPod`, `PrecheckFails` | `precheckLeaderLock` (leader.go:28-113): the lock, its owner, the status of that pod; an error is only logged |
| `DeleteLeaderPod`, `DeleteLock` | `deleteLeader` (leader.go:115-132): two deletions by name that nothing ties together |
| `BecomeLeader`, `DeleteEvictedLeader`, `BecomeFails` | external, operator-lib's leader for life: create the lock, or wait for it, deleting a leader that was evicted |
| `Replace`, `Rollout`, `DeleteOldPod`, `RemovePod`, `CollectLock`, `NodeFails`, `Evict`, `Restart` | external: the Deployment with one replica, nodes, the garbage collector |

A pod whose status has the reason ProviderFailed or Evicted runs no process. `CalmRollouts` says that an update
of the Deployment and the failure of a node never coincide.

### SpecFollower

Publishers (user and operator) publish versions, some with a new spec. A follower
holds one version and what it asked for; it moves only forward, never past the latest
version, and when it moves to a version at or after the one that introduced the latest
spec it holds that spec. `Follower` in ZookeeperClusterController is the refinement
mapping: `version` is the resourceVersion of the CR, `applied` the label `owner-rv`,
`holding` the size and the template of the StatefulSet.

### SizeProtocol

The user edits the size only when the last one is applied; the operator introduces the znode with the size the cluster
began with, announces a new size in it, and then applies what it announced. The mapping is the identity on three
variables: `cr.spec.replicas`, `znode.size` and `sts.replicas` of the controller.

## 3. Bounds and fairness

The constants of a configuration bound how often the environment acts: edits of the
size and tag, restarts, crashes, failed calls, failing pods, ticks. A bound of 0
switches that part off, so each run has the part of the environment its question needs.
Nothing of the operator is bounded: it makes as many passes as it likes. The numbers
are those at which the interesting cases occur: two sizes (a scale-up, a scale-down), two
tags (one upgrade), one crash between any two calls onto a state of the API server
before or after any write, one failed call at any place. A single edit with caches that
lag without bound already has the old spec, the new spec and every mixture of cached
CR and cached StatefulSet in play; the theorems take over for any number of edits,
crashes and failures.

`PatientUser` is what the README asks of users: wait for PodsReady (README:134) and leave
the tag alone during an upgrade (README:287). `PromptCache` says that a pass starts when
the watch of the CR has delivered; runs about staleness switch it off, runs about
progress switch it on, because a pass that starts in the few milliseconds before the
watch delivers only postpones what the next one does. In PvcReclaim and ZkMembership too the patient user
waits until the pods are those of the size and all are ready, and not for the volumes of members
that left, of which no status tells.

Fairness, in `FairSpec`: passes follow each other, since the controller runtime requeues
after `ReconcileTime` or after an error with a backoff (controller:114-118); watches
deliver; the StatefulSet controller and the kubelets make progress. No fairness is given
to the user, crashes, failures, `CatchUp` or the clock. In ZkMembership the scripts go on, the kubelet
repeats probes and ends hooks that cannot succeed, servers hear of reconfigurations, and Kubernetes and
the operator act; nobody owes a restart, a kill or the failure of a command that can succeed. In OwnedObjects passes follow each other and the watch delivers. In
LeaderLock processes run and Kubernetes keeps the Deployment at its size and removes what is deleted.

`Reclaim.cfg` begins with one member and has two edits, so that a volume is needed, orphaned and reclaimed, one of
which may change the policy instead (`MaxPolicyEdits`), a deletion of the cluster, and one fault: a failed call, a failed pod, or a
restart, which may be onto a replica that lags (`MaxStaleRestarts`). `Owned.cfg`
has any three events of six kinds at any point: two of them are needed to get a pass on an old CR
past a crash, and the third is the edit that the old CR lacks. `UserChoices` in MCOwnedObjects picks the fields that other
fields depend on. `Leader.cfg` has five pods, enough for two nodes to fail, an eviction and an
update, each with a pod to replace the one it cost.

## 4. The runs

Runs that pass:

| Run | Question | Properties |
|---|---|---|
| `stale_caches` | lagging caches, a crash, a failed call and a scaling: can an old spec come back? | `LatestSpecApplied`: the label never vouches for a spec the StatefulSet does not carry. `NeverRollsBack`: once the last edit is applied only a new edit moves the StatefulSet. `FollowsSpec`: refinement of SpecFollower. `FollowerInv`: the inductive invariant of the proofs. `MetaRootExists`: the metadata is recorded only when it is there. `TypeOK` |
| `upgrade` | one upgrade of two members, a failing pod, a deadline that may expire | `UpgradeStateCoherent`, `VersionChangesByUpgrade`, `CompletedUpgradeRuns`: completion is written only when every pod runs the target, although it is concluded from a status read earlier. `NoPrematureFailure`: failure is declared only after the deadline without progress. `RolloutInv`, `UpgradeInv`: the inductive invariants of their proofs |
| `progress` | a patient user scales, upgrades and restarts, nothing fails | `EventuallySettled`, `UpgradeEnds`, `SizeAnnouncedFirst`: ZooKeeper knows a size before the StatefulSet has it |
| `reclaim` | scalings, a change of policy, a failed call, pod or operator, a restart onto a lagging replica, a deletion | `CurrentPassesWait`: no volume is deleted before the scale-down, except by a pass on a CR older than the StatefulSet's after a stale restart (see the list below). `EventuallyReclaimed`: orphans go in the end. `ClaimsGuarded`: no volume without the finalizer. `DeletionCompletes`: a deleted cluster goes, unless the policy became Retain after the finalizer was set. `TypeOK` |
| `membership` | two scalings by a user who waits, a restart, a kill, a failed or cut command | `VotersCanReturn`: a voter's volume always has the files to start from. `NoGhostVoters`: nobody votes without a pod after a scale-down. `StayingMembersStay`: no hook, probe or registration takes the vote of a member that stays. `FilesFollowEnsemble`: no second ensemble is bootstrapped. `SizesAsPromised`: refinement of SizeProtocol. `EventuallyMembersVote`: in the end exactly the pods of the StatefulSet vote, unless a member was cut off for good (`lost`) or came back to an old volume (`reused`). `TypeOK` |
| `size_protocol` | two scalings and a restart by a user who waits, caches that lag without bound, a failed call and a crash: does the operator keep its promise about sizes? | `AnnouncesSizes`: refinement of SizeProtocol. `SizesInOrder`: the inductive invariant of its proof. `RemovalIsPermanent`: no rolling update finds a znode that tells a member that stays to leave. `RestartKeepsEdits`: the answer to a request to restart, which replaces the whole spec by what a cache said, overwrites no edit and is given once |
| `owned_objects` | any three edits, status writes, deletions, crashes and failed calls | `ConfigBeforeTemplate`: pods never start from a template newer than their configuration, until the operator crashes. `TemplateMovesForward`: the StatefulSet never goes back to an older CR. `OwnerRvContained`: the label that changes with every version stays out of the spec and the template. `UserChoicesKept`: saving defaults overwrites no edit. `MadeFromCompleteSpec`: no object lacks a default. `EventuallyInLine`: in the end every object exists and follows the spec |
| `leader` | failing nodes, an eviction, an update, a restart, a failed call | `AtMostOneLeader`, `LockInv`: the inductive invariant of its proof. `EventuallyLed`: in the end somebody leads, unless a call failed |

`Deadline = 0` in `Upgrade.cfg` is the smallest deadline: the upgrade times out when the
clock has moved at all since the last progress, which with two ticks covers "at", "after"
and "moved in between".

Runs that end in a violation show a disagreement between the code and a text of the
repository; each has a finding in `PROJECT.json`.

| Run | What TLC finds |
|---|---|
| `metaroot_lost` | crash after `CreateNode` and before the status update: `CreateNode` fails for ever after, the cluster is never reported ready |
| `scale_down_while_unready` | the PVC of a running member is deleted before the scale-down |
| `volume_kept` | a member removed by a scale-down whose volume stays (Retain) never becomes a member again; with `KeepVolumes = FALSE` (Delete) the same run finds the same of a user who scales up after PodsReady and before the pass that reclaims the volume |
| `volumes_survive` | one failed deletion of a PVC, whose error is dropped, and the volume outlives the cluster |

Other disagreements were met while modelling, for which no run is kept:

* The error of the write of the size to the znode is dropped (controller:268) and the StatefulSet is resized all the same, after
  which the sizes agree and the write is never tried again. At the next rolling update the hook of a member that stays finds
  `CLUSTER_SIZE < MYID` and removes it, unlike zookeeperTeardown.sh:44, "this server is being permanantly removed"
  (`size_protocol` with `LostWrites = TRUE` violates `RemovalIsPermanent`).
* The znode is written before the StatefulSet, with the version read just before (controller:258-270), so nothing refuses the
  write of a pass whose CR is old. After a crash onto an API server that lags, the old CR and the old StatefulSet agree, the old
  size is written, and only the update of the StatefulSet fails; CR and StatefulSet then agree on the size and the
  znode stays wrong, with the same end (`size_protocol` with `StaleRestarts = TRUE`).
* A pod that restarts just before a scale-down has run its hook with the old size, and is not created again beyond the new
  one: no hook removes its member, which stays a voter without a server (`membership` with `MaxKills = 0` and `MaxFaults = 0`, when
  `Resize` leaves `lost` alone, violates `NoGhostVoters`).
* `reconcileFinalizers` (controller:104) comes before the staleness check (242), and the deletion of a PVC names no
  resourceVersion. After a restart onto a replica of the API server that lags, a pass on an old CR, whose size and ready
  replicas agree, deletes the volumes of members that a scale-up has added since, although the user
  waited, unlike the comment of controller:737 (`reclaim` with `OrphansAfterScaleDown` for `CurrentPassesWait`). The PVC is
  marked and goes with its pod.
* A hook reads the size and removes the member in two commands (zookeeperTeardown.sh:41, 45). A user who scales up again in
  between loses the member of a pod that stays (`membership` with `PatientUser = FALSE` violates `StayingMembersStay`).
* A size edited before the cluster was ready for the first time is never applied: the write of the size needs the
  znode, its error ends every pass at controller:262 while `types.go:94-95` calls the field the expected size
  (`progress` with `PatientUser = FALSE`).
* A rollout that begins and ends between two passes is never noticed, because an upgrade starts only when a
  pass sees two revisions (controller:307): the reported version stays the old one, unlike README.md:261.
  `UpgradeEnds` speaks only of upgrades that a pass has noticed.
* With the policy changed to Retain after the finalizer was set, nothing removes the finalizer (controller:702): the CR cannot
  be deleted, unlike charts/zookeeper/README.md:48. `DeletionCompletes` exempts this case.
* A pass goes on after it removed the finalizer (controller:719, 104-113). When the garbage collector was faster it creates the
  StatefulSet of a cluster that is gone, and its pods make new volumes (`volumes_survive` with `MaxFaults = 0`).
* The lock is deleted by its name (leader.go:122). If an update of the Deployment starts a second candidate while the first is
  between the two deletions, the garbage collector may remove the old lock, the second take a new one, and the
  first delete that and take one too: two leaders, unlike main.go:112 (`leader` with `CalmRollouts = FALSE`).
* Comments and code differ on defaults: `snapCount` is documented as 100,000 and set to 10000, `autoPurgePurgeInterval` as
  disabled and set to 1; a storage type other than the two is overwritten when its section is completed; changes of
  labels and of `maxUnavailableReplicas` never reach objects that exist (the `fixed` parts of OwnedObjects).

Deadlock is checked in all runs of MCController and MCOwnedObjects. In those of MCPvcReclaim it is not:
after the cluster is deleted and its pods are gone nothing is left to do; nor in those of
MCZkMembership and LeaderLock, where a settled ensemble or an elected leader may rest. In `Membership.cfg` three members are the least with a
majority that survives the loss of one, starting at two makes the first edit a scale-up or a scale-down, and one restart,
one kill and one fault may hit any pod between any two calls. `SizeProtocol.cfg` has the two sizes, the crash and the failed call of
`StaleCaches.cfg`, without the two failures that the sizes do not survive, and a second edit and a rolling restart, which is what asks the hooks.

## 5. The proofs

TLAPS checks the following for every value of the constants that the named assumptions allow. They say that
bounds are natural numbers, that tags and sizes are sets of the right kind, that the default values
differ from `Unset`, that the tick time is a number and the storage type one of the two, and that the user's own labels have
no `owner-rv`.

| Module | Theorem | What it states |
|---|---|---|
| `ZookeeperClusterController_proofs` | `TypeCorrect` | `Spec => []TypeOK` |
| | `FollowerInvariant`, `LabelNeverLies` | `[]FollowerInv`, `[]LatestSpecApplied` |
| | `ImplementsFollower`, `NoRollback` | `FollowsSpec` (the refinement), `NeverRollsBack` |
| | `RestartsKeepEdits` | `RestartKeepsEdits`, for any user |
| `UpgradeState_proofs` | `StatusInvariant` | `[]StatusInv`, the invariant of the next three |
| | `MetaRootIsThere`, `UpgradesCoherent` | `[]MetaRootExists`, `[]UpgradeStateCoherent` |
| | `VersionsChangeByUpgrade` | `VersionChangesByUpgrade` |
| | `SizesAreAnnounced` | `SizeAnnouncedFirst`, unless `LostWrites` |
| `Rollout_proofs` | `RolloutInvariant`, `UpgradeInvariant` | `[]RolloutInv`, `[]UpgradeInv`, when `PatientUser`, the invariants of the next two |
| | `UpgradesComplete`, `FailuresAreTimely` | `CompletedUpgradeRuns`, `NoPrematureFailure`, when `PatientUser` |
| | `SizesInvariant`, `ImplementsSizeProtocol`, `RemovalsArePermanent` | `[]SizesInOrder`, `AnnouncesSizes` (the refinement), `RemovalIsPermanent`, when `PatientUser`, unless `LostWrites` or `StaleRestarts` |
| `PvcReclaim_proofs` | `TypesCorrect`, `ClaimsAlwaysGuarded` | `[]TypeOK`, `[]ClaimsGuarded` |
| | `OrphansWait` | `CurrentPassesWait`, when `PatientUser` |
| `ZkMembership_proofs` | `TypesCorrect`, `OneEnsemble` | `[]TypeOK`, `FilesFollowEnsemble` |
| | `VoteInvariant` | `[]VoteInv`, when `PatientUser`, the invariant of the next three |
| | `VotersReturn`, `NoGhosts`, `MembersStay` | `[]VotersCanReturn`, `[]NoGhostVoters`, `StayingMembersStay`, when `PatientUser` |
| | `FollowsProtocol`, `OneOperator` | `SizesAsPromised` (the refinement) and `OpenSpec`, when `PatientUser`: the operator of `ZkMembership` is one of those of the next |
| | `AnyOperatorWillDo` | `OpenSpec` with `SizesAsPromised` has the four properties of the votes, when `PatientUser` |
| `Ensemble_proofs` | `VotesAreSafe` | `Ensemble` has the four properties of the votes, under the premises of `ImplementsSizeProtocol` |
| `OwnedObjects_proofs` | `DefaultsKeepChoices`, `DefaultsAreFinal` | `WithDefaults` changes no set field, and nothing at all in its own result |
| | `OwnedInvariant` | `[]OwnedInv`, the invariant of the next five |
| | `ConfigFirst`, `LabelContained` | `[]ConfigBeforeTemplate`, `[]OwnerRvContained` |
| | `ForwardOnly`, `ChoicesKept` | `TemplateMovesForward`, `UserChoicesKept` |
| | `ObjectsComplete` | `[]MadeFromCompleteSpec` |
| `LeaderLock_proofs` | `LockInvariant`, `OneLeader` | `[]LockInv`, `[]AtMostOneLeader`, when `CalmRollouts` |

The premises `PatientUser`, `~ LostWrites`, `~ StaleRestarts` and `CalmRollouts` are needed: `scale_down_while_unready` and the list
in section 4 show what happens without them. No theorem needs a bound to be zero or small. For the votes, `membership` with `PatientUser = FALSE` violates `NoGhostVoters`, and with
`MaxSizeEdits = 3` on top `VotersCanReturn`: the volume of a member that a revoked edit let go is reclaimed while it still votes.
For the upgrade, so does `upgrade` with one member, three tags, `PatientUser = FALSE` and `MaxTagEdits = 2`: a user who edits
the tag again while an upgrade runs makes the operator compare the counters of one rollout with those of the next, and
TLC violates both `CompletedUpgradeRuns` and `NoPrematureFailure`.

**The follower.** `LatestSpecApplied` alone is not inductive: a step that writes the StatefulSet from a local
copy of the CR says nothing unless one knows what that copy holds. `FollowerInv`
adds what the resourceVersions mean. `CopiesAgree`: of all the copies of an object (in
the API server, its lagging replica, the caches, the local variables and, since a
local variable that is out of scope holds it, the initial object) none is ahead of the
original, equal versions have equal specs, and a copy of the CR at or after the last edit
has its spec. `LabelVouches`: a copy of the CR with the version in the label has the spec that the
StatefulSet carries, and a pass that is about to write the StatefulSet has checked staleness
against the copy it will write. The proof takes the ways versions move one at a time
(`CopyingStep`, `StatusStep`, `EditStep`, `PodsStep`, `ApplyStep`), shows for each that
FollowerInv survives and that the step is a step of the follower or none, and then assigns every
action to one of them (`PassStep`, `EnvironmentStep`). The refinement and the action
property follow from the same lemmas. `RestartsKeepEdits` needs of FollowerInv only that equal versions have equal specs: the
cached copy that is written back is then the CR but for the answer.

**The status.** `StatusInv` says of every copy of the status (original, replica, cache, local) that it is
honest about the metadata and coherent, because any of them may be written back; `PassKnows` what the calls of a pass before the present one have established; `VersionsAgree` that a copy of the current
resourceVersion has the versions of the CR unless its upgrade has just been completed and not yet saved. It
rests on FollowerInv for "current". `SizeInv` adds that without `LostWrites` the size of the StatefulSet, in all its
copies, is that of the znode or the pass that changes it has just written the znode. An honest status that says ready also
says that the metadata exists, because `reconcileClusterStatus` creates the znodes before it writes that all members are ready.

**The upgrade.** `CompletedUpgradeRuns` says of a write of the status what the pods run at that moment, while the code concludes it from
the response to an earlier write; between the two the StatefulSet controller works on. Two invariants bridge this. `RolloutInv` is about
rollouts. `AskedInOrder`: whoever may still write the StatefulSet (`Writable`, the copies of the CR that the label does not refuse) asks
for what it holds or for what the CR asks, in the order of the versions, and the two differ only while nothing rolls out; so no
write starts a rollout in the middle of another. `RevisionsInOrder`: the published status is that of the pods, which have two
revisions at most, the second of which becomes the template's. `ReadStays`: what `upgradeStatefulSet` has read is still true, or truer,
when it acts on it. `UpgradeInv` ties the status of the CR to that. `CopiesExact`: a copy with the current version is equal to the original. `UpgradeIsRollout`:
an upgrade is to the tag that the StatefulSet rolls out. `EndIsEnd`: when the pass
concludes that the rollout is over, it is, and stays so until the status is written. `ProgressReported`: the number of updated
pods in the condition is at most the real one, and when equal the last progress is no later than the
update time from which the deadline counts. Both rest on FollowerInv, `UpgradeInv` on `StatusInv` as well. In the proof every step is of one of four kinds for the
rollout (it leaves the StatefulSet and its pods alone, applies a CR, edits the CR, or moves pods), so that the 45 actions are opened once.

**The sizes.** That a user who waits never outruns the operator is not obvious: the user looks at the status and the StatefulSet, not at the
znode, and a pass may hold a copy of the CR from before the last edit. `SizesInOrder` says what saves the
operator. Without `StaleRestarts` the cached CR is never older than `owner-rv`, nor is the copy of a pass that came past the staleness check,
so whoever writes the znode asks for the size of the StatefulSet or for the one that the CR asks for (`AskedInOrder`). While a
size is announced and not applied, the CR, its cache and every pass on its way to the StatefulSet ask for that size; so a pass that
failed or was lost between the two writes is made good by the next. The znode is created with the
size of the StatefulSet, and the user edits nothing before that: the cluster must be ready, and an honest status
says ready only when the znode exists, which is why the invariant of the status has that clause. Every action then is one of: the three sizes
stay and the pass goes on (`SizesKept`), edit, introduction, announcement or application.

**The volumes.** `GuardInv`: the finalizer that any copy of the CR has lasts as long as the CR, a CR that is being deleted is held by it, a
pass that has left `reconcileFinalizers` has it, and there is no StatefulSet without it. `SizesInv` is about a user who waits. What a pass is
deleting lies beyond the size its copy of the CR asks for (`OrphansAreBeyond`), so the question is what else the StatefulSet may
hold. `CopiesAgree` says what versions mean, as for the follower. A copy that is not stale and counts all members as ready
has the size of the StatefulSet (`FreshReadyMeansSized`), because the operator labels it with the version that
it writes and the user edits only what was reported ready; and as long as no restart was stale (`NeverBackInv`) no copy in use is stale at all.

**The ensemble.** `PodInv` says which phases of a pod have a server and an endpoint. `FilesInv`: before there is an ensemble only the
first member has a configuration, afterwards the first member keeps its files. It holds because a reconfiguration needs a quorum of the new
voters, so the ensemble never becomes empty. `VoteInv` adds, for a user who waits: pods beyond the size belong to an announced scale-down,
a pod that has decided to leave is beyond the announced size, and a voter that was not cut off runs or has its files, does not
register, and has a pod or a number within both sizes. The lemma `GoingVoter` is the heart: a voter that goes
at a moment that is not a risk has the committed configuration on its volume. The readiness and the connection that the
operator of `ZkMembership` waits for appear nowhere in the proof. `AnyOperatorStep` says so: a step of `SizeProtocol` that leaves
the pods alone keeps `VoteInv`, if a size is edited only when the cluster has settled. `VotesAreSafe` puts this together with
`ImplementsSizeProtocol`.

**The objects.** `OwnedInv`: no copy of the CR is ahead of it and a current copy has its spec, before a crash no object is
newer than the cached CR, and a pass on its way from the config map to the StatefulSet has left a config map at least as new
as its own CR. A crash lets the cache go back, so `ConfigBeforeTemplate` claims nothing after it. The proofs use that
`WithDefaults` keeps what is set, and `ObjectsComplete` that its result is complete and that the parts of an object which depend on
the storage type include it (`Parts`).

**The lock.** `LockInv`: a leader owns the lock, and whoever is about to delete the lock of a failed leader is alone, because its
node failed when nobody else ran and no update has started a pod since.

Only model-checked: all liveness (`EventuallySettled`, `UpgradeEnds`, `EventuallyReclaimed`, `DeletionCompletes`, `EventuallyMembersVote`, `EventuallyInLine`,
`EventuallyLed`), which cannot be proved with the installed tools (no ENABLED). What a recursive definition computes for all inputs cannot either (no
induction over data); no module needs RECURSIVE.

## 6. Not modelled

* The YAML exporter: sequential input and output.
* Generated code, CRDs, Helm charts: no state of their own. The text of `zoo.cfg` and of the other files in the config map.
* `zu get`, `get-all`, `get-role` (no script uses them), the wait for a service mesh proxy, the fallback of the privileges, the
  liveness and metrics scripts.
* Stale caches of the owned objects: each is written right after it is read, with the resourceVersion that was read, so that a
  copy out of date only makes the call fail (`CallFails`).
* PVCs that the cache does not have yet when the cluster is deleted.
* A service account whose name the user changes: the code leaves the earlier one behind, and nothing reads it.
* Ephemeral storage under the scripts. `ZkMembership` keeps the files of a pod until its volume is reclaimed, as a PVC does; with an
  emptyDir (generators.go:48, README:171-201) they go with the pod. Then the first member bootstraps a second time when it is replaced
  (zookeeperStart.sh:130-141), and voters that come back register as observers: `VotersCanReturn`, `StayingMembersStay`,
  `FilesFollowEnsemble` and the theorems about votes hold for volumes that persist.
* What the leader election of operator-lib does about a leader on a node that is not ready; the library is not in the repository.
* A pod of the operator that goes on running on a node that was reported as failed; `LeaderLock` takes the reason
  ProviderFailed at its word.
* More than one operator process in the other modules: excluded by the leader lock, under its assumption.

## 7. Plan

All the modules that the survey asked for exist. What is left:

1. A run of `Ensemble`, with the pods that the controller counts tied to those that run the scripts. Today each part has its runs, and
   the composition its proof.
2. A user who does not wait in ZkMembership, with a property that says exactly which edits lose a vote.
