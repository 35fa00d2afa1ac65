----------------------------- MODULE ZkMembership -----------------------------
(***************************************************************************)
(* How a pod becomes a voting member of the ZooKeeper ensemble and how it  *)
(* leaves: the scripts of the image (zookeeperStart.sh, zookeeperReady.sh, *)
(* zookeeperTeardown.sh) with the commands of zu, run by every pod of the  *)
(* StatefulSet, while the operator changes the size, Kubernetes creates,   *)
(* restarts and deletes pods, and containers die.                          *)
(*                                                                         *)
(* The member of a pod is its MYID, the pod's ordinal plus one.  A script  *)
(* is cut where it calls ZooKeeper, since everything between two calls     *)
(* concerns files of its own pod.  ZooKeeper is external: one committed    *)
(* configuration, which a reconfiguration changes when the old and the new *)
(* voters each have a majority running, and which running servers write to *)
(* disk when they learn it.                                                *)
(*                                                                         *)
(* The operator's part is the order in which it announces and applies a    *)
(* size, that of SizeProtocol; ZookeeperClusterController models the       *)
(* operator itself.                                                        *)
(***************************************************************************)
EXTENDS Integers, FiniteSets

CONSTANTS
  MaxMembers,      \* the largest size of the ensemble
  InitialReplicas,
  KeepVolumes,     \* reclaim policy Retain: the volume of a removed member stays
  PatientUser,     \* sizes are edited only when the last edit has settled
  MaxSizeEdits, MaxRestarts, MaxKills, MaxFaults

ASSUME MembersAssumption ==
  /\ MaxMembers \in Nat \ {0}
  /\ InitialReplicas \in 1 .. MaxMembers
ASSUME UserAssumption == {KeepVolumes, PatientUser} \subseteq BOOLEAN
ASSUME BoundsAssumption ==
  {MaxSizeEdits, MaxRestarts, MaxKills, MaxFaults} \subseteq Nat

VARIABLES
  wanted,   \* spec.replicas of the cluster, which the user edits
  replicas, \* the size of the StatefulSet
  znode,    \* CLUSTER_SIZE in the metadata znode
  pod,      \* what each pod is doing
  server,   \* members whose ZooKeeper process runs
  ready,    \* members whose pod is ready, the endpoints of the services
  static,   \* members with myid and /data/conf/zoo.cfg on their volume
  dyn,      \* the dynamic configuration file on each volume
  config,   \* the configuration the ensemble has committed
  lost,     \* history: members that were cut off where no script can recover
  reused,   \* history: members whose pod came back to files of a former life
            \* on its volume, of which the ensemble knows nothing
  used      \* how much of each bound is used up

vars == <<wanted, replicas, znode, pod, server, ready, static, dyn, config, lost,
          reused, used>>
cluster == <<wanted, replicas, znode>>
files   == <<static, dyn>>
history == <<lost, reused>>

Member == 1 .. MaxMembers
Role == {"none", "observer", "participant"}
Config == [Member -> Role]

(* "stopping" and "leaving" are the preStop hook before and after it has   *)
(* read the size; the server goes on running beside it.                    *)
Phase == {"absent", "start", "registering", "launching", "running",
          "promoting", "stopping", "leaving"}

NoSize == -1

(* No ensemble yet; on a volume, no file.                                  *)
NoConfig == [i \in Member |-> "none"]

(* The file that the first member writes for itself.                       *)
Bootstrap == [i \in Member |-> IF i = 1 THEN "participant" ELSE "none"]

Bounds == [sizeEdits |-> MaxSizeEdits, restarts |-> MaxRestarts,
           kills |-> MaxKills, faults |-> MaxFaults]

Init ==
  /\ wanted = InitialReplicas
  /\ replicas = InitialReplicas
  /\ znode = NoSize
  /\ pod = [i \in Member |-> "absent"]
  /\ server = {}
  /\ ready = {}
  /\ static = {}
  /\ dyn = [i \in Member |-> NoConfig]
  /\ config = NoConfig
  /\ lost = {}
  /\ reused = {}
  /\ used = [b \in DOMAIN Bounds |-> 0]

Use(b) ==
  /\ used[b] < Bounds[b]
  /\ used' = [used EXCEPT ![b] = @ + 1]

-----------------------------------------------------------------------------
(* ZooKeeper.                                                              *)

Voters(c) == {i \in Member : c[i] = "participant"}

HasQuorum(c) ==
  2 * Cardinality(Voters(c) \cap server) > Cardinality(Voters(c))

(* zu connects through the client service, which has the ready pods behind *)
(* it.                                                                     *)
Reachable == ready # {} /\ HasQuorum(config)

WithRole(i, role) == [config EXCEPT ![i] = role]

CanReconfigure(i, role) == Reachable /\ HasQuorum(WithRole(i, role))

(* A running server hears of the committed configuration and writes it.    *)
Learn(i) ==
  /\ i \in server
  /\ HasQuorum(config)
  /\ dyn[i] # config
  /\ dyn' = [dyn EXCEPT ![i] = config]
  /\ UNCHANGED <<cluster, pod, server, ready, static, config, history, used>>

(* Probes come every ten seconds: by then the server has heard of the last *)
(* reconfiguration, if there is a quorum to hear it from.                  *)
CaughtUp(i) == HasQuorum(config) => dyn[i] = config

-----------------------------------------------------------------------------
(* zookeeperStart.sh                                                       *)

HasFiles(i) == i \in static /\ dyn[i] # NoConfig

(* Mutant: the first member writes its configuration at every start.       *)
FirstDynConfigAlways(i) == IF i = 1 THEN Bootstrap ELSE dyn[i]

(* What the dynamic configuration file is after the first part of the      *)
(* script: only the first member, and only without files, makes one up.    *)
FirstDynConfig(i) == IF i = 1 /\ ~ HasFiles(i) THEN Bootstrap ELSE dyn[i]

StartScript(i, activeEnsemble) ==
  /\ pod[i] = "start"
  /\ dyn' = [dyn EXCEPT ![i] = FirstDynConfig(i)]
  /\ pod' = [pod EXCEPT ![i] = IF activeEnsemble /\ ~ HasFiles(i)
                               THEN "registering" ELSE "launching"]

(* The headless service resolves when some pod is ready.                   *)
FindEnsemble(i) ==
  /\ StartScript(i, ready # {})
  /\ UNCHANGED <<cluster, server, ready, static, config, history, used>>

(* getent fails although an ensemble is there.                             *)
MissEnsemble(i) ==
  /\ ready # {}
  /\ StartScript(i, FALSE)
  /\ Use("faults")
  /\ UNCHANGED <<cluster, server, ready, static, config, history>>

(* zu add enters the member as an observer and writes the answer of the    *)
(* reconfiguration to the file.                                            *)
Register(i) ==
  /\ pod[i] = "registering"
  /\ CanReconfigure(i, "observer")
  /\ config' = WithRole(i, "observer")
  /\ dyn' = [dyn EXCEPT ![i] = config']
  /\ pod' = [pod EXCEPT ![i] = "launching"]
  /\ UNCHANGED <<cluster, server, ready, static, history, used>>

(* The container dies before the answer is written.                        *)
RegisterCut(i) ==
  /\ pod[i] = "registering"
  /\ CanReconfigure(i, "observer")
  /\ Use("faults")
  /\ config' = WithRole(i, "observer")
  /\ pod' = [pod EXCEPT ![i] = "start"]
  /\ UNCHANGED <<cluster, server, ready, files, history>>

RegisterFails(i) ==
  /\ pod[i] = "registering"
  /\ ~ CanReconfigure(i, "observer")
  /\ pod' = [pod EXCEPT ![i] = "start"]
  /\ UNCHANGED <<cluster, server, ready, files, config, history, used>>

(* The rest of the script.  Without a dynamic configuration it gives up;   *)
(* a server that is not in its own configuration refuses to run.  The      *)
(* first server's configuration becomes the ensemble's.                    *)
CanRun(i) == dyn[i][i] # "none"

Launch(i) ==
  /\ pod[i] = "launching"
  /\ static' = static \cup {i}
  /\ IF CanRun(i)
     THEN /\ pod' = [pod EXCEPT ![i] = "running"]
          /\ server' = server \cup {i}
          /\ config' = IF config = NoConfig THEN dyn[i] ELSE config
     ELSE /\ pod' = [pod EXCEPT ![i] = "start"]
          /\ UNCHANGED <<server, config>>
  /\ UNCHANGED <<cluster, ready, dyn, history, used>>

-----------------------------------------------------------------------------
(* zookeeperReady.sh, where the server answers ruok.                       *)

InProbe(i) == pod[i] = "running" /\ CaughtUp(i)

(* Mutant: an observer is as good as a participant.                        *)
PassesAnyMember(i) == ready = {} \/ dyn[i][i] # "none"
Passes(i) == ready = {} \/ dyn[i][i] = "participant"

ProbePasses(i) ==
  /\ InProbe(i)
  /\ Passes(i)
  /\ i \notin ready
  /\ ready' = ready \cup {i}
  /\ UNCHANGED <<cluster, pod, server, files, config, history, used>>

(* Not in the ensemble; or an observer whose zu waits for a connection     *)
(* until the probe times out.                                              *)
ProbeFails(i) ==
  /\ InProbe(i)
  /\ ~ Passes(i)
  /\ dyn[i][i] = "observer" => ~ CanReconfigure(i, "none")
  /\ i \in ready
  /\ ready' = ready \ {i}
  /\ UNCHANGED <<cluster, pod, server, files, config, history, used>>

(* An observer is promoted: zu remove, then zu add.                        *)
Promote(i) ==
  /\ InProbe(i)
  /\ ~ Passes(i)
  /\ dyn[i][i] = "observer"
  /\ CanReconfigure(i, "none")
  /\ config' = WithRole(i, "none")
  /\ pod' = [pod EXCEPT ![i] = "promoting"]
  /\ UNCHANGED <<cluster, server, ready, files, history, used>>

AddPromoted(i) ==
  /\ pod[i] = "promoting"
  /\ CanReconfigure(i, "participant")
  /\ config' = WithRole(i, "participant")
  /\ pod' = [pod EXCEPT ![i] = "running"]
  /\ ready' = ready \cup {i}
  /\ UNCHANGED <<cluster, server, files, history, used>>

(* The add fails, which the script takes for success, or the probe times   *)
(* out before it: nothing will add the member again.                       *)
PromotionCut(i) ==
  /\ pod[i] = "promoting"
  /\ IF CanReconfigure(i, "participant")
     THEN Use("faults")
     ELSE UNCHANGED used
  /\ pod' = [pod EXCEPT ![i] = "running"]
  /\ ready' \in {ready \cup {i}, ready \ {i}}
  /\ lost' = lost \cup {i}
  /\ UNCHANGED <<cluster, server, files, config, reused>>

-----------------------------------------------------------------------------
(* The end of a pod and zookeeperTeardown.sh.                              *)

(* Mutant: the ordinal instead of MYID.                                    *)
BeingRemovedByOrdinal(i) == znode # NoSize /\ znode < i - 1
(* Mutant: every member that stops is removed.                             *)
BeingRemovedAlways(i) == znode # NoSize
BeingRemoved(i) == znode # NoSize /\ znode < i

(* Going now, member i leaves a trace that no script clears: its name in   *)
(* the ensemble, or a file that does not name it.                          *)
AtRisk(i) ==
  \/ znode # NoSize /\ znode < i
  \/ pod[i] = "promoting"
  \/ i \in server /\ dyn[i] # config

(* Mutant: the endpoint outlives the server.                               *)
GoneStillReady(i, next) ==
  /\ pod' = [pod EXCEPT ![i] = next]
  /\ server' = server \ {i}
  /\ UNCHANGED ready

Gone(i, next) ==
  /\ pod' = [pod EXCEPT ![i] = next]
  /\ server' = server \ {i}
  /\ ready' = ready \ {i}

(* Kubernetes runs the hook in a container that runs; a pod between two    *)
(* runs of its container just goes, as does a hook that finds no myid.     *)
Terminate(i) ==
  /\ ready' = ready \ {i}
  /\ \/ /\ pod[i] # "start" \/ i \in static
        /\ pod' = [pod EXCEPT ![i] = "stopping"]
        /\ lost' = IF pod[i] = "promoting" THEN lost \cup {i} ELSE lost
     \/ /\ pod[i] = "start"
        /\ pod' = [pod EXCEPT ![i] = "absent"]
        /\ lost' = IF AtRisk(i) THEN lost \cup {i} ELSE lost
  /\ UNCHANGED <<cluster, server, files, config, reused>>

(* zu sync reads the size; a member that stays just stops.                 *)
ReadSize(i) ==
  /\ pod[i] = "stopping"
  /\ Reachable
  /\ CaughtUp(i) \/ i \notin server
  /\ znode # NoSize
  /\ IF BeingRemoved(i)
     THEN /\ pod' = [pod EXCEPT ![i] = "leaving"]
          /\ UNCHANGED <<server, ready>>
     ELSE Gone(i, "absent")
  /\ UNCHANGED <<cluster, files, config, history, used>>

(* zu remove.  The server may write the configuration without itself       *)
(* before it is killed.                                                    *)
Leave(i) ==
  /\ pod[i] = "leaving"
  /\ CanReconfigure(i, "none")
  /\ config' = WithRole(i, "none")
  /\ dyn' \in {dyn, [dyn EXCEPT ![i] = IF i \in server THEN config' ELSE @]}
  /\ Gone(i, "absent")
  /\ UNCHANGED <<cluster, static, history, used>>

(* A command fails, which ends the script and the pod, or the grace period *)
(* is over, which draining the connections alone can take up.              *)
TeardownCut(i) ==
  /\ \/ /\ pod[i] = "stopping"
        /\ IF Reachable /\ znode # NoSize THEN Use("faults") ELSE UNCHANGED used
     \/ /\ pod[i] = "leaving"
        /\ IF CanReconfigure(i, "none") THEN Use("faults") ELSE UNCHANGED used
  /\ Gone(i, "absent")
  /\ lost' = IF AtRisk(i) THEN lost \cup {i} ELSE lost
  /\ UNCHANGED <<cluster, files, config, reused>>

-----------------------------------------------------------------------------
(* Kubernetes, the operator and its user.                                  *)

Ending == {"absent", "stopping", "leaving"}

(* OrderedReady pod management.  A container takes longer to come up than  *)
(* the ten seconds between probes, so those before it have been probed     *)
(* once more: an observer that passed only because no pod was ready has    *)
(* had its promotion.                                                      *)
CreatePod(i) ==
  /\ pod[i] = "absent"
  /\ i <= replicas
  /\ \A j \in 1 .. i - 1 : j \in ready /\ (InProbe(j) => Passes(j))
  /\ pod' = [pod EXCEPT ![i] = "start"]
  /\ reused' = IF HasFiles(i) /\ config[i] = "none"
               THEN reused \cup {i}
               ELSE reused
  /\ UNCHANGED <<cluster, server, ready, files, config, lost, used>>

(* Scale-down: the last pod first, and only while those that stay are      *)
(* ready.                                                                  *)
ScaleDown(i) ==
  /\ pod[i] \notin Ending
  /\ i > replicas
  /\ \A j \in i + 1 .. MaxMembers : pod[j] = "absent"
  /\ 1 .. replicas \subseteq ready
  /\ Terminate(i)
  /\ UNCHANGED used

(* A rolling update, an eviction, a pod deleted by hand.                   *)
Restart(i) ==
  /\ pod[i] \notin Ending
  /\ Terminate(i)
  /\ Use("restarts")

(* The container dies and is started again, or the node is lost and the    *)
(* pod with it.                                                            *)
Kill(i) ==
  /\ pod[i] \in Phase \ (Ending \cup {"start"})
  /\ \E next \in {"start", "absent"} : Gone(i, next)
  /\ lost' = IF AtRisk(i) THEN lost \cup {i} ELSE lost
  /\ Use("kills")
  /\ UNCHANGED <<cluster, files, config, reused>>

(* The operator creates the znode when all members are ready.              *)
CreateMetadata ==
  /\ znode = NoSize
  /\ wanted = replicas
  /\ ready = 1 .. replicas
  /\ Reachable
  /\ znode' = replicas
  /\ UNCHANGED <<wanted, replicas, pod, server, ready, files, config, history, used>>

(* All is ready, and the StatefulSet counts no other pod.  That the        *)
(* volumes of removed members are reclaimed is not something to wait for.  *)
Settled ==
  /\ wanted = znode
  /\ replicas = znode
  /\ ready = 1 .. replicas
  /\ \A i \in replicas + 1 .. MaxMembers : pod[i] = "absent"

(* The user edits spec.replicas.                                           *)
EditSize ==
  /\ PatientUser => Settled
  /\ Use("sizeEdits")
  /\ \E n \in Member \ {wanted} : wanted' = n
  /\ UNCHANGED <<replicas, znode, pod, server, ready, files, config, history>>

(* A pass of the operator, whenever it comes, writes the size to the znode *)
(* and then to the StatefulSet.                                            *)
AnnounceSize ==
  /\ wanted # replicas
  /\ znode \notin {NoSize, wanted}
  /\ Reachable
  /\ znode' = wanted
  /\ UNCHANGED <<wanted, replicas, pod, server, ready, files, config, history, used>>

(* Mutant: the StatefulSet first, the znode afterwards.                    *)
ResizeFirst ==
  /\ znode # NoSize
  /\ replicas' \in {wanted} \ {replicas}
  /\ UNCHANGED <<wanted, znode, pod, server, ready, files, config, history, used>>

(* A pod that is gone for the moment is not started again beyond the new   *)
(* size, so its hook will not run.                                         *)
Resize ==
  /\ znode \notin {NoSize, replicas}
  /\ replicas' = znode
  /\ lost' = lost \cup {i \in Voters(config) : pod[i] = "absent" /\ i > znode}
  /\ UNCHANGED <<wanted, znode, pod, server, ready, files, config, reused, used>>

(* The operator deletes the orphan PVCs of a scale-down in a pass after    *)
(* the one that has reported that all are ready; the user may have edited  *)
(* the size again by then, but no pass has seen the edit.                  *)
Reclaim(i) ==
  /\ ~ KeepVolumes
  /\ i > replicas
  /\ pod[i] = "absent"
  /\ ready = 1 .. replicas
  /\ znode = replicas
  /\ i \in static
  /\ static' = static \ {i}
  /\ dyn' = [dyn EXCEPT ![i] = NoConfig]
  /\ UNCHANGED <<cluster, pod, server, ready, config, history, used>>

Scripts(i) ==
  \/ FindEnsemble(i) \/ Register(i) \/ RegisterFails(i) \/ Launch(i)
  \/ ProbePasses(i) \/ ProbeFails(i) \/ Promote(i) \/ AddPromoted(i)
  \/ ReadSize(i) \/ Leave(i)

Failures(i) ==
  \/ MissEnsemble(i) \/ RegisterCut(i) \/ PromotionCut(i) \/ TeardownCut(i)
  \/ Restart(i) \/ Kill(i)

Environment(i) ==
  \/ Learn(i) \/ CreatePod(i) \/ ScaleDown(i) \/ Reclaim(i)

Operator == EditSize \/ CreateMetadata \/ AnnounceSize \/ Resize

Next ==
  \/ \E i \in Member : Scripts(i) \/ Failures(i) \/ Environment(i)
  \/ Operator

Spec == Init /\ [][Next]_vars

(* Scripts run on (what they do next is never in doubt), probes are        *)
(* repeated, a command that cannot succeed fails, Kubernetes and the       *)
(* operator act.  Nobody owes an edit, a restart, a kill or the failure of *)
(* a command that can succeed.                                             *)
MustFail(i) == UNCHANGED used /\ (PromotionCut(i) \/ TeardownCut(i))

Fairness ==
  /\ \A i \in Member : /\ WF_vars(Scripts(i) \/ MustFail(i))
                       /\ WF_vars(Learn(i))
                       /\ WF_vars(CreatePod(i) \/ ScaleDown(i) \/ Reclaim(i))
  /\ WF_vars(CreateMetadata)
  /\ WF_vars(wanted # replicas /\ (AnnounceSize \/ Resize))

FairSpec == Spec /\ Fairness

-----------------------------------------------------------------------------
(* Properties.                                                             *)

(* The variables have their types; servers run only in pods that have      *)
(* their files, and only ready pods have a server.                         *)
TypeOK ==
  /\ {wanted, replicas} \subseteq Member
  /\ znode \in Member \cup {NoSize}
  /\ pod \in [Member -> Phase]
  /\ {server, ready, static, lost, reused} \subseteq SUBSET Member
  /\ ready \subseteq server
  /\ server \subseteq static
  /\ dyn \in [Member -> Config]
  /\ config \in Config
  /\ \A b \in DOMAIN Bounds : used[b] \in 0 .. Bounds[b]

(* A voter that dies or is cut off in any command can come back: its       *)
(* volume holds the files from which the start script starts it without    *)
(* registering.  Exempt is one that dies while it is being promoted or     *)
(* removed, or before it has written the configuration last committed.     *)
(* (zookeeperStart.sh registers it as an observer before its first start   *)
(* and zookeeperReady.sh makes it a voter only when it runs.)              *)
VotersCanReturn ==
  \A i \in Voters(config) \ lost : i \in server \/ (i \in static /\ CanRun(i))

(* No ghost voter is left behind by a scale-down: a member without pod     *)
(* beyond the size of the StatefulSet has left the ensemble, unless its    *)
(* end was cut short or it restarted when it was to go: "If ClusterSize <  *)
(* MyId, this server is being permanantly removed" (zookeeperTeardown.sh). *)
NoGhostVoters ==
  \A i \in Voters(config) \ lost : pod[i] = "absent" => i <= replicas

(* A member that stays does not lose its vote: the preStop hook of a       *)
(* rolling update leaves it alone, even in the middle of a scaling, and no *)
(* registration or promotion takes it away.                                *)
StayingMembersStay ==
  [][\A i \in Voters(config) \ (Voters(config') \cup lost) :
       znode # NoSize /\ znode < i]_vars

(* Once there is an ensemble nobody makes up a configuration: a file       *)
(* changes only to the committed configuration, or goes with its volume.   *)
(* A first member that bootstrapped again would elect itself alone.        *)
FilesFollowEnsemble ==
  [][config # NoConfig =>
       \A i \in Member : dyn'[i] \in {dyn[i], config', NoConfig}]_vars

AllVote == ready = 1 .. replicas /\ Voters(config) = 1 .. replicas

(* After the last disturbance every member of the StatefulSet is ready and *)
(* votes, and nobody else does, unless one was cut off for good.           *)
EventuallyAllVote == <>[](lost = {} => AllVote)

(* The same where no pod came back to a volume that was still to be        *)
(* reclaimed, or is never reclaimed (zookeeperStart.sh:123).               *)
EventuallyMembersVote == <>[](lost = {} /\ reused = {} => AllVote)

(* The user and the operator behave as SizeProtocol has it, which the      *)
(* operator of ZookeeperClusterController implements (updateStatefulSet    *)
(* after UpdateNode).                                                      *)
Sizes == INSTANCE SizeProtocol WITH
  Size <- Member,
  announced <- znode,
  size <- replicas

SizesAsPromised == Sizes!Spec
=============================================================================
