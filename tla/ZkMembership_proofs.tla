-------------------------- MODULE ZkMembership_proofs --------------------------
(***************************************************************************)
(* Proofs about ZkMembership, for any number of members, restarts, kills   *)
(* and faults: no second ensemble is made up; and when the user waits      *)
(* between edits of the size, a voter can always return, a scale-down      *)
(* leaves no voter behind, and members that stay keep their vote.          *)
(***************************************************************************)
EXTENDS ZkMembership, FiniteSetTheorems, TLAPS

(* Which phases of a pod have a server and an endpoint.                    *)
PodInv ==
  /\ TypeOK
  /\ used \in [DOMAIN Bounds -> Nat]
  /\ \A i \in Member :
       /\ pod[i] \in {"running", "promoting"} => i \in server
       /\ pod[i] \in {"absent", "start", "registering", "launching"}
            => i \notin server
       /\ pod[i] \in Ending => i \notin ready

(* Before there is an ensemble only the first member has a configuration;  *)
(* from then on it has its files.                                          *)
FilesInv ==
  /\ config = NoConfig =>
       /\ server = {}
       /\ \A i \in Member \ {1} : dyn[i] = NoConfig
       /\ dyn[1] \in {NoConfig, Bootstrap}
       /\ \A i \in Member : pod[i] # "registering"
  /\ config # NoConfig => 1 \in static /\ dyn[1] # NoConfig

(* Pods beyond the size are those of a scale-down that was announced.      *)
ScaleDownInv ==
  \A i \in Member : pod[i] # "absent" /\ i > replicas
                      => znode # NoSize /\ znode <= replicas

(* An edit that is not announced yet finds the sizes and the pods settled  *)
(* but for restarts.                                                       *)
PendingInv ==
  znode \notin {NoSize, wanted} =>
    /\ replicas = znode
    /\ \A i \in Member : i > replicas => pod[i] = "absent"

(* What holds of a voter that was not cut off, ...                         *)
Returns(i) == i \in server \/ (i \in static /\ CanRun(i))

VotersInv ==
  \A i \in Voters(config) \ lost : /\ Returns(i)
                                   /\ pod[i] # "registering"
                                   /\ pod[i] = "absent" => i <= replicas

(* ... and of a pod that is about to leave.                                *)
LeavingInv ==
  \A i \in Member : pod[i] = "leaving" => znode # NoSize /\ znode < i

-----------------------------------------------------------------------------
(* Facts about configurations.                                             *)

LEMMA OneIsMember == 1 \in Member /\ Member \subseteq Nat \ {0}
BY MembersAssumption DEF Member

LEMMA QuorumVotes ==
  ASSUME NEW c, HasQuorum(c) PROVE c # NoConfig
<1> SUFFICES ASSUME c = NoConfig PROVE FALSE
  OBVIOUS
<1>1. Voters(c) = {}
  BY DEF Voters, NoConfig
<1>2. Voters(c) \cap server = {}
  BY <1>1
<1>3. Cardinality({}) = 0
  BY FS_EmptySet
<1>4. QED
  BY <1>1, <1>2, <1>3 DEF HasQuorum

LEMMA BootstrapIsConfig ==
  /\ NoConfig \in Config
  /\ Bootstrap \in Config
  /\ Voters(NoConfig) = {}
  /\ Voters(Bootstrap) = {1}
  /\ Bootstrap # NoConfig
<1>1. NoConfig \in Config /\ Bootstrap \in Config
  BY DEF NoConfig, Bootstrap, Config, Role
<1>2. Voters(NoConfig) = {} /\ Voters(Bootstrap) = {1}
  BY OneIsMember DEF Voters, NoConfig, Bootstrap
<1>3. QED
  BY <1>1, <1>2

LEMMA Reconfigured ==
  ASSUME config \in Config, NEW i \in Member, NEW role \in Role,
         CanReconfigure(i, role)
  PROVE  /\ config # NoConfig
         /\ WithRole(i, role) \in Config
         /\ WithRole(i, role) # NoConfig
         /\ ready # {}
         /\ WithRole(i, role)[i] = role
         /\ \A j \in Member \ {i} : WithRole(i, role)[j] = config[j]
<1>1. config # NoConfig /\ WithRole(i, role) # NoConfig /\ ready # {}
  BY QuorumVotes DEF CanReconfigure, Reachable
<1>2. QED
  BY <1>1 DEF WithRole, Config

LEMMA VotersAfter ==
  ASSUME config \in Config, NEW i \in Member, NEW role \in Role
  PROVE  Voters(WithRole(i, role)) = IF role = "participant"
                                     THEN Voters(config) \cup {i}
                                     ELSE Voters(config) \ {i}
BY DEF Voters, WithRole, Config

LEMMA UsedTyped ==
  ASSUME used \in [DOMAIN Bounds -> Nat],
         \A b \in DOMAIN Bounds : used[b] \in 0 .. Bounds[b],
         NEW c \in DOMAIN Bounds, Use(c)
  PROVE  /\ used' \in [DOMAIN Bounds -> Nat]
         /\ \A b \in DOMAIN Bounds : used'[b] \in 0 .. Bounds[b]
<1>1. \A b \in DOMAIN Bounds : Bounds[b] \in Nat
  BY BoundsAssumption DEF Bounds
<1>2. QED
  BY <1>1 DEF Use

LEMMA BoundNames ==
  DOMAIN Bounds = {"sizeEdits", "restarts", "kills", "faults"}
BY DEF Bounds

-----------------------------------------------------------------------------
(* PodInv.                                                                 *)

LEMMA PodStep == PodInv /\ [Next]_vars => PodInv'
<1> SUFFICES ASSUME PodInv, [Next]_vars PROVE PodInv'
  OBVIOUS
<1> USE OneIsMember, BoundNames, UsedTyped
    DEF PodInv, TypeOK, Ending, Phase, cluster, files, history
<1>1. ASSUME NEW i \in Member, Scripts(i) PROVE PodInv'
  <2>1. CASE FindEnsemble(i)
    <3>1. FirstDynConfig(i) \in Config
      BY BootstrapIsConfig DEF FirstDynConfig
    <3>2. QED
      BY <2>1, <3>1 DEF FindEnsemble, StartScript
  <2>2. CASE Register(i)
    BY <2>2, Reconfigured DEF Register, Role
  <2>3. CASE RegisterFails(i)
    BY <2>3 DEF RegisterFails
  <2>4. CASE Launch(i)
    BY <2>4 DEF Launch
  <2>5. CASE ProbePasses(i)
    BY <2>5 DEF ProbePasses, InProbe
  <2>6. CASE ProbeFails(i)
    BY <2>6 DEF ProbeFails, InProbe
  <2>7. CASE Promote(i)
    BY <2>7, Reconfigured DEF Promote, InProbe, Role
  <2>8. CASE AddPromoted(i)
    BY <2>8, Reconfigured DEF AddPromoted, Role
  <2>9. CASE ReadSize(i)
    BY <2>9 DEF ReadSize, Gone
  <2>10. CASE Leave(i)
    BY <2>10, Reconfigured DEF Leave, Gone, Role
  <2>11. QED
    BY <1>1, <2>1, <2>2, <2>3, <2>4, <2>5, <2>6, <2>7, <2>8, <2>9, <2>10
       DEF Scripts
<1>2. ASSUME NEW i \in Member, Failures(i) PROVE PodInv'
  <2>1. CASE MissEnsemble(i)
    <3>1. FirstDynConfig(i) \in Config
      BY BootstrapIsConfig DEF FirstDynConfig
    <3>2. QED
      BY <2>1, <3>1 DEF MissEnsemble, StartScript
  <2>2. CASE RegisterCut(i)
    BY <2>2, Reconfigured DEF RegisterCut, Role
  <2>3. CASE PromotionCut(i)
    BY <2>3 DEF PromotionCut
  <2>4. CASE TeardownCut(i)
    BY <2>4 DEF TeardownCut, Gone
  <2>5. CASE Restart(i)
    BY <2>5 DEF Restart, Terminate
  <2>6. CASE Kill(i)
    BY <2>6 DEF Kill, Gone
  <2>7. QED
    BY <1>2, <2>1, <2>2, <2>3, <2>4, <2>5, <2>6 DEF Failures
<1>3. ASSUME NEW i \in Member, Environment(i) PROVE PodInv'
  <2>1. CASE Learn(i)
    BY <2>1 DEF Learn
  <2>2. CASE CreatePod(i)
    BY <2>2 DEF CreatePod
  <2>3. CASE ScaleDown(i)
    BY <2>3 DEF ScaleDown, Terminate
  <2>4. CASE Reclaim(i)
    BY <2>4, BootstrapIsConfig DEF Reclaim
  <2>5. QED
    BY <1>3, <2>1, <2>2, <2>3, <2>4 DEF Environment
<1>4. CASE Operator
  <2>1. CASE EditSize
    BY <2>1 DEF EditSize
  <2>2. CASE CreateMetadata \/ AnnounceSize
    BY <2>2 DEF CreateMetadata, AnnounceSize
  <2>3. CASE Resize
    BY <2>3 DEF Resize, Voters
  <2>4. QED
    BY <1>4, <2>1, <2>2, <2>3 DEF Operator
<1>5. CASE UNCHANGED vars
  BY <1>5 DEF vars
<1>6. QED
  BY <1>1, <1>2, <1>3, <1>4, <1>5 DEF Next

-----------------------------------------------------------------------------
(* FilesInv, and how files follow the ensemble.                            *)

FilesKept ==
  config # NoConfig =>
    \A i \in Member : dyn'[i] \in {dyn[i], config', NoConfig}

LEMMA FilesStep ==
  PodInv /\ FilesInv /\ [Next]_vars => FilesInv' /\ FilesKept
<1> SUFFICES ASSUME PodInv, FilesInv, [Next]_vars
             PROVE  FilesInv' /\ FilesKept
  OBVIOUS
<1> USE OneIsMember, BootstrapIsConfig
    DEF PodInv, TypeOK, FilesInv, FilesKept, files
<1>1. ASSUME NEW i \in Member, Scripts(i) PROVE FilesInv' /\ FilesKept
  <2>1. CASE FindEnsemble(i)
    BY <2>1 DEF FindEnsemble, StartScript, FirstDynConfig, HasFiles
  <2>2. CASE Register(i)
    BY <2>2, Reconfigured DEF Register, Role
  <2>3. CASE RegisterFails(i)
    BY <2>3 DEF RegisterFails
  <2>4. CASE Launch(i)
    BY <2>4 DEF Launch, CanRun, NoConfig
  <2>5. CASE ProbePasses(i) \/ ProbeFails(i)
    BY <2>5 DEF ProbePasses, ProbeFails
  <2>6. CASE Promote(i)
    BY <2>6, Reconfigured DEF Promote, Role
  <2>7. CASE AddPromoted(i)
    BY <2>7, Reconfigured DEF AddPromoted, Role
  <2>8. CASE ReadSize(i)
    BY <2>8 DEF ReadSize, Gone
  <2>9. CASE Leave(i)
    BY <2>9, Reconfigured DEF Leave, Gone, Role
  <2>10. QED
    BY <1>1, <2>1, <2>2, <2>3, <2>4, <2>5, <2>6, <2>7, <2>8, <2>9
       DEF Scripts
<1>2. ASSUME NEW i \in Member, Failures(i) PROVE FilesInv' /\ FilesKept
  <2>1. CASE MissEnsemble(i)
    BY <2>1 DEF MissEnsemble, StartScript, FirstDynConfig, HasFiles
  <2>2. CASE RegisterCut(i)
    BY <2>2, Reconfigured DEF RegisterCut, Role
  <2>3. CASE PromotionCut(i) \/ TeardownCut(i)
    BY <2>3 DEF PromotionCut, TeardownCut, Gone
  <2>4. CASE Restart(i) \/ Kill(i)
    BY <2>4 DEF Restart, Kill, Terminate, Gone
  <2>5. QED
    BY <1>2, <2>1, <2>2, <2>3, <2>4 DEF Failures
<1>3. ASSUME NEW i \in Member, Environment(i) PROVE FilesInv' /\ FilesKept
  <2>1. CASE Learn(i)
    <3>1. config # NoConfig
      BY <2>1, QuorumVotes DEF Learn
    <3>2. QED
      BY <2>1, <3>1 DEF Learn
  <2>2. CASE CreatePod(i)
    BY <2>2 DEF CreatePod
  <2>3. CASE ScaleDown(i)
    BY <2>3 DEF ScaleDown, Terminate
  <2>4. CASE Reclaim(i)
    <3>1. i # 1
      BY <2>4 DEF Reclaim, Member
    <3>2. QED
      BY <2>4, <3>1 DEF Reclaim
  <2>5. QED
    BY <1>3, <2>1, <2>2, <2>3, <2>4 DEF Environment
<1>4. CASE Operator
  BY <1>4 DEF Operator, EditSize, CreateMetadata, AnnounceSize, Resize
<1>5. CASE UNCHANGED vars
  BY <1>5 DEF vars
<1>6. QED
  BY <1>1, <1>2, <1>3, <1>4, <1>5 DEF Next

-----------------------------------------------------------------------------
(* ScaleDownInv, LeavingInv and PendingInv: for a user who waits no size   *)
(* is announced while a pod is beyond the last one or leaves the ensemble. *)

LEMMA SettledPods ==
  ASSUME PodInv, Settled
  PROVE  /\ znode = replicas /\ wanted = replicas
         /\ \A i \in Member : i > replicas => pod[i] = "absent"
BY OneIsMember DEF PodInv, TypeOK, Settled, Member

SizesInv == ScaleDownInv /\ LeavingInv /\ PendingInv

LEMMA SizesStep ==
  ASSUME PatientUser
  PROVE  PodInv /\ SizesInv /\ [Next]_vars => SizesInv'
<1> SUFFICES ASSUME PodInv, SizesInv, [Next]_vars PROVE SizesInv'
  OBVIOUS
<1> USE OneIsMember
    DEF PodInv, TypeOK, SizesInv, ScaleDownInv, LeavingInv, PendingInv,
        cluster, history, Ending, NoSize
<1>1. ASSUME NEW i \in Member, Scripts(i)
      PROVE  SizesInv'
  <2>1. CASE FindEnsemble(i) \/ Register(i) \/ RegisterFails(i) \/ Launch(i)
    BY <2>1 DEF FindEnsemble, StartScript, Register, RegisterFails, Launch
  <2>2. CASE ProbePasses(i) \/ ProbeFails(i) \/ Promote(i) \/ AddPromoted(i)
    BY <2>2 DEF ProbePasses, ProbeFails, Promote, AddPromoted, InProbe
  <2>3. CASE ReadSize(i)
    BY <2>3 DEF ReadSize, Gone, BeingRemoved
  <2>4. CASE Leave(i)
    BY <2>4 DEF Leave, Gone
  <2>5. QED
    BY <1>1, <2>1, <2>2, <2>3, <2>4 DEF Scripts
<1>2. ASSUME NEW i \in Member, Failures(i)
      PROVE  SizesInv'
  <2>1. CASE MissEnsemble(i) \/ RegisterCut(i) \/ PromotionCut(i)
    BY <2>1 DEF MissEnsemble, StartScript, RegisterCut, PromotionCut
  <2>2. CASE TeardownCut(i) \/ Kill(i)
    <3>1. /\ UNCHANGED <<wanted, replicas, znode>>
          /\ \E next \in {"start", "absent"} : pod' = [pod EXCEPT ![i] = next]
          /\ pod[i] # "absent"
      BY <2>2 DEF TeardownCut, Kill, Gone
    <3>2. PICK next \in {"start", "absent"} : pod' = [pod EXCEPT ![i] = next]
      BY <3>1
    <3>. QED
      BY <3>1, <3>2
  <2>3. CASE Restart(i)
    BY <2>3 DEF Restart, Terminate
  <2>4. QED
    BY <1>2, <2>1, <2>2, <2>3 DEF Failures
<1>3. ASSUME NEW i \in Member, Environment(i)
      PROVE  SizesInv'
  <2>1. CASE Learn(i) \/ Reclaim(i)
    BY <2>1 DEF Learn, Reclaim
  <2>2. CASE CreatePod(i)
    <3>1. \A j \in Member : j # i => pod'[j] = pod[j]
      BY <2>2 DEF CreatePod
    <3>2. i <= replicas /\ pod'[i] = "start" /\ UNCHANGED cluster
      BY <2>2 DEF CreatePod
    <3>3. UNCHANGED <<wanted, replicas, znode>>
      BY <3>2
    <3>. i \in Nat /\ replicas \in Nat
      OBVIOUS
    <3>. ~ i > replicas
      BY <3>2
    <3>4. ScaleDownInv' /\ LeavingInv'
      BY <3>1, <3>2, <3>3
    <3>5. PendingInv'
      BY <3>1, <3>2, <3>3
    <3>6. QED
      BY <3>4, <3>5
  <2>3. CASE ScaleDown(i)
    BY <2>3 DEF ScaleDown, Terminate
  <2>4. QED
    BY <1>3, <2>1, <2>2, <2>3 DEF Environment
<1>4. CASE CreateMetadata
  BY <1>4 DEF CreateMetadata
<1>5. CASE EditSize
  BY <1>5, SettledPods DEF EditSize
<1>6. CASE AnnounceSize
  <2>1. \A i \in Member : pod[i] # "leaving"
    BY <1>6 DEF AnnounceSize
  <2>2. QED
    BY <1>6, <2>1 DEF AnnounceSize
<1>7. CASE Resize
  BY <1>7 DEF Resize
<1>8. CASE UNCHANGED vars
  BY <1>8 DEF vars
<1>9. QED
  BY <1>1, <1>2, <1>3, <1>4, <1>5, <1>6, <1>7, <1>8 DEF Next, Operator

-----------------------------------------------------------------------------
(* VotersInv.                                                              *)

VoteInv == PodInv /\ FilesInv /\ SizesInv /\ VotersInv

(* A voter that goes now and is not at risk can come back.                 *)
LEMMA GoingVoter ==
  ASSUME VoteInv, NEW i \in Voters(config) \ lost, ~ AtRisk(i),
         pod[i] # "absent"
  PROVE  i \in static /\ CanRun(i) /\ i <= replicas
<1>1. i \in static /\ CanRun(i)
  BY DEF VoteInv, VotersInv, Returns, AtRisk, CanRun, Voters, PodInv, TypeOK
<1>2. i <= replicas
  BY OneIsMember DEF VoteInv, SizesInv, ScaleDownInv, AtRisk, PodInv, TypeOK,
                     Voters, Member, NoSize
<1>3. QED
  BY <1>1, <1>2

LEMMA VotersStep ==
  ASSUME PatientUser PROVE VoteInv /\ [Next]_vars => VotersInv'
<1> SUFFICES ASSUME VoteInv, [Next]_vars PROVE VotersInv'
  OBVIOUS
<1>p. PodInv /\ FilesInv /\ ScaleDownInv /\ VotersInv /\ LeavingInv
  BY DEF VoteInv, SizesInv
<1> USE <1>p, OneIsMember
    DEF PodInv, TypeOK, VotersInv, Returns, CanRun, cluster, files,
        history
<1>1. ASSUME NEW i \in Member, Scripts(i) PROVE VotersInv'
  <2>1. CASE FindEnsemble(i)
    BY <2>1 DEF FindEnsemble, StartScript, FirstDynConfig, HasFiles, NoConfig
  <2>2. CASE Register(i)
    BY <2>2, VotersAfter DEF Register, Role
  <2>3. CASE RegisterFails(i)
    BY <2>3 DEF RegisterFails
  <2>4. CASE Launch(i)
    <3>1. config = NoConfig /\ CanRun(i) => i = 1 /\ dyn[i] = Bootstrap
      BY DEF FilesInv, NoConfig
    <3>2. Voters(config') \subseteq Voters(config) \cup {i}
      BY <2>4, <3>1, BootstrapIsConfig DEF Launch
    <3>3. CASE CanRun(i)
      <4>1. /\ pod' = [pod EXCEPT ![i] = "running"]
            /\ server' = server \cup {i}
            /\ static' = static \cup {i}
            /\ UNCHANGED <<dyn, lost, replicas>>
        BY <2>4, <3>3 DEF Launch
      <4>2. \A j \in Voters(config)' \ lost' :
              j = i \/ j \in Voters(config) \ lost
        BY <3>2, <4>1 DEF Voters
      <4>3. \A j \in Member \ {i} : pod'[j] = pod[j]
        BY <4>1
      <4>4. pod'[i] = "running" /\ i \in server'
        BY <4>1
      <4>5. Voters(config)' \subseteq Member
        BY DEF Voters
      <4>6. \A j \in Member : Returns(j) => Returns(j)'
        BY <4>1
      <4>7. QED
        BY <4>1, <4>2, <4>3, <4>4, <4>5, <4>6
    <3>4. CASE ~ CanRun(i)
      <4>1. Voters(config)' \ lost' = Voters(config) \ lost
        BY <2>4, <3>4 DEF Launch, Voters
      <4>2. UNCHANGED <<server, dyn, cluster>> /\ static \subseteq static'
        BY <2>4, <3>4 DEF Launch
      <4>3. \A j \in Member : pod'[j] \in {pod[j], "start"}
        BY <2>4, <3>4 DEF Launch
      <4>4. QED
        BY <4>1, <4>2, <4>3 DEF Voters
    <3>5. QED
      BY <3>3, <3>4
  <2>5. CASE ProbePasses(i) \/ ProbeFails(i)
    BY <2>5 DEF ProbePasses, ProbeFails
  <2>6. CASE Promote(i)
    BY <2>6, VotersAfter DEF Promote, InProbe, Role
  <2>7. CASE AddPromoted(i)
    BY <2>7, VotersAfter DEF AddPromoted, Role
  <2>8. CASE ReadSize(i)
    <3>1. BeingRemoved(i) \/ ~ AtRisk(i)
      BY <2>8 DEF ReadSize, Reachable, CaughtUp, AtRisk, BeingRemoved
    <3>2. QED
      BY <2>8, <3>1, GoingVoter DEF ReadSize, Gone
  <2>9. CASE Leave(i)
    <3>1. Voters(config') = Voters(config) \ {i}
      BY <2>9, VotersAfter DEF Leave, Role
    <3>2. \A j \in Member \ {i} :
            /\ dyn'[j] = dyn[j]
            /\ pod'[j] = pod[j]
            /\ j \in server' <=> j \in server
      BY <2>9 DEF Leave, Gone
    <3>3. UNCHANGED <<static, cluster>>
      BY <2>9 DEF Leave
    <3>4. \A j \in Voters(config)' \ lost' :
            j \in Member \ {i} /\ j \in Voters(config) \ lost
      BY <2>9, <3>1 DEF Leave, Voters
    <3>5. QED
      BY <3>2, <3>3, <3>4
  <2>10. QED
    BY <1>1, <2>1, <2>2, <2>3, <2>4, <2>5, <2>6, <2>7, <2>8, <2>9
       DEF Scripts
<1>2. ASSUME NEW i \in Member, Failures(i) PROVE VotersInv'
  <2>1. CASE MissEnsemble(i)
    BY <2>1 DEF MissEnsemble, StartScript, FirstDynConfig, HasFiles, NoConfig
  <2>2. CASE RegisterCut(i)
    BY <2>2, VotersAfter DEF RegisterCut, Role
  <2>3. CASE PromotionCut(i)
    BY <2>3 DEF PromotionCut
  <2>4. CASE TeardownCut(i)
    BY <2>4, GoingVoter DEF TeardownCut, Gone
  <2>5. CASE Restart(i)
    BY <2>5, GoingVoter DEF Restart, Terminate
  <2>6. CASE Kill(i)
    BY <2>6, GoingVoter DEF Kill, Gone, Ending
  <2>7. QED
    BY <1>2, <2>1, <2>2, <2>3, <2>4, <2>5, <2>6 DEF Failures
<1>3. ASSUME NEW i \in Member, Environment(i) PROVE VotersInv'
  <2>1. CASE Learn(i)
    BY <2>1 DEF Learn
  <2>2. CASE CreatePod(i)
    BY <2>2 DEF CreatePod
  <2>3. CASE ScaleDown(i)
    <3>1. Terminate(i) /\ pod[i] # "absent"
      BY <2>3 DEF ScaleDown, Ending
    <3>2. QED
      BY <3>1, GoingVoter DEF Terminate
  <2>4. CASE Reclaim(i)
    <3>1. i \notin Voters(config) \ lost
      BY <2>4 DEF Reclaim, Member
    <3>2. QED
      BY <2>4, <3>1 DEF Reclaim
  <2>5. QED
    BY <1>3, <2>1, <2>2, <2>3, <2>4 DEF Environment
<1>4. CASE CreateMetadata
  BY <1>4 DEF CreateMetadata
<1>5. CASE EditSize \/ AnnounceSize
  BY <1>5 DEF EditSize, AnnounceSize
<1>6. CASE Resize
  <2>1. /\ UNCHANGED <<pod, server, static, dyn, config>>
        /\ replicas' = znode /\ replicas' \in Nat
        /\ lost' = lost \cup {i \in Voters(config) :
                               pod[i] = "absent" /\ i > znode}
    BY <1>6 DEF Resize
  <2>2. Voters(config)' = Voters(config) /\ Voters(config) \subseteq Member
    BY <2>1 DEF Voters
  <2>3. \A i \in Voters(config) \ lost' :
          /\ i \in Voters(config) \ lost
          /\ pod[i] = "absent" => i <= znode
    <3> SUFFICES ASSUME NEW i \in Voters(config) \ lost'
                 PROVE  /\ i \in Voters(config) \ lost
                        /\ pod[i] = "absent" => i <= znode
      OBVIOUS
    <3>1. i \in Nat /\ znode \in Nat
      BY <2>1, <2>2, OneIsMember
    <3>2. i \notin lost /\ ~ (pod[i] = "absent" /\ i > znode)
      BY <2>1
    <3>3. QED
      BY <3>1, <3>2
  <2>4. QED
    BY <2>1, <2>2, <2>3
<1>7. CASE UNCHANGED vars
  BY <1>7 DEF vars
<1>8. QED
  BY <1>1, <1>2, <1>3, <1>4, <1>5, <1>6, <1>7 DEF Next, Operator

(* Who loses the vote is on its way out, after a scale-down was announced. *)
LosersLeave ==
  \A i \in Voters(config) \ (Voters(config') \cup lost) :
    znode # NoSize /\ znode < i

LEMMA LosersStep == VoteInv /\ [Next]_vars => LosersLeave
<1> SUFFICES ASSUME VoteInv, [Next]_vars PROVE LosersLeave
  OBVIOUS
<1>p. PodInv /\ FilesInv /\ VotersInv /\ LeavingInv
  BY DEF VoteInv, SizesInv
<1> USE <1>p DEF PodInv, TypeOK, VotersInv, LosersLeave, history
<1>1. CASE UNCHANGED config
  BY <1>1
<1>2. ASSUME NEW i \in Member, Register(i) \/ RegisterCut(i)
      PROVE  LosersLeave
  <2>1. i \notin Voters(config) \ lost
    BY <1>2 DEF Register, RegisterCut
  <2>2. QED
    BY <1>2, <2>1, VotersAfter DEF Register, RegisterCut, Role
<1>3. ASSUME NEW i \in Member, Launch(i) PROVE LosersLeave
  BY <1>3, BootstrapIsConfig DEF Launch
<1>4. ASSUME NEW i \in Member, Promote(i) PROVE LosersLeave
  <2>1. config[i] # "participant"
    BY <1>4 DEF Promote, InProbe, CaughtUp, CanReconfigure, Reachable
  <2>2. QED
    BY <1>4, <2>1, VotersAfter DEF Promote, Role, Voters
<1>5. ASSUME NEW i \in Member, AddPromoted(i) PROVE LosersLeave
  BY <1>5, VotersAfter DEF AddPromoted, Role
<1>6. ASSUME NEW i \in Member, Leave(i) PROVE LosersLeave
  <2>1. znode # NoSize /\ znode < i
    BY <1>6 DEF Leave, LeavingInv
  <2>2. QED
    BY <1>6, <2>1, VotersAfter DEF Leave, Role
<1>7. QED
  BY <1>1, <1>2, <1>3, <1>4, <1>5, <1>6
     DEF Next, Scripts, Failures, Environment, Operator, vars, FindEnsemble,
         StartScript, RegisterFails, ProbePasses, ProbeFails, ReadSize,
         MissEnsemble, PromotionCut, TeardownCut, Restart, Kill, Terminate,
         Learn, CreatePod, ScaleDown, Reclaim, EditSize, CreateMetadata,
         AnnounceSize, Resize

-----------------------------------------------------------------------------
(* The theorems.                                                           *)

LEMMA Initially ==
  Init => PodInv /\ FilesInv /\ SizesInv /\ VotersInv
<1> SUFFICES ASSUME Init
             PROVE  PodInv /\ FilesInv /\ SizesInv /\ VotersInv
  OBVIOUS
<1>1. \A b \in DOMAIN Bounds : Bounds[b] \in Nat
  BY BoundsAssumption DEF Bounds
<1>2. PodInv
  BY <1>1, OneIsMember, MembersAssumption, BootstrapIsConfig
     DEF Init, PodInv, TypeOK, Phase, Ending, Member
<1>3. FilesInv /\ SizesInv
  BY OneIsMember, BootstrapIsConfig
     DEF Init, FilesInv, SizesInv, ScaleDownInv, LeavingInv, PendingInv, NoConfig
<1>4. VotersInv
  BY BootstrapIsConfig DEF Init, VotersInv
<1>5. QED
  BY <1>2, <1>3, <1>4

(* The first inductive invariant: the types of the variables, which phases *)
(* of a pod have a server, and where configurations come from.             *)
THEOREM TypesCorrect == Spec => []TypeOK
<1>1. Init => PodInv
  BY Initially
<1>2. PodInv => TypeOK
  BY DEF PodInv
<1>3. QED
  BY <1>1, <1>2, PodStep, PTL DEF Spec

(* Once there is an ensemble no start script makes up another one, however *)
(* often pods are killed and commands fail (zookeeperStart.sh).            *)
THEOREM OneEnsemble == Spec => FilesFollowEnsemble
<1>1. Init => PodInv /\ FilesInv
  BY Initially
<1>2. PodInv /\ FilesInv /\ [Next]_vars => PodInv' /\ FilesInv'
  BY PodStep, FilesStep
<1>3. PodInv /\ FilesInv /\ [Next]_vars
        => [config # NoConfig =>
              \A i \in Member : dyn'[i] \in {dyn[i], config', NoConfig}]_vars
  BY FilesStep DEF FilesKept
<1>4. QED
  BY <1>1, <1>2, <1>3, PTL DEF Spec, FilesFollowEnsemble

(* The second inductive invariant, for a user who waits for an edit of the *)
(* size to settle before the next one.                                     *)
THEOREM VoteInvariant == ASSUME PatientUser PROVE Spec => []VoteInv
<1>1. Init => VoteInv
  BY Initially DEF VoteInv
<1>2. VoteInv /\ [Next]_vars => VoteInv'
  BY PodStep, FilesStep, SizesStep, VotersStep DEF VoteInv
<1>3. QED
  BY <1>1, <1>2, PTL DEF Spec

(* A voter that is killed or cut off, but for those in lost, finds on its  *)
(* volume what it needs to come back (zookeeperStart.sh,                   *)
(* zookeeperReady.sh).                                                     *)
THEOREM VotersReturn == ASSUME PatientUser PROVE Spec => []VotersCanReturn
<1>1. VoteInv => VotersCanReturn
  BY DEF VoteInv, VotersInv, Returns, VotersCanReturn
<1>2. QED
  BY <1>1, VoteInvariant, PTL

(* A scale-down leaves no voter without a pod (zookeeperTeardown.sh).      *)
THEOREM NoGhosts == ASSUME PatientUser PROVE Spec => []NoGhostVoters
<1>1. VoteInv => NoGhostVoters
  BY DEF VoteInv, VotersInv, NoGhostVoters
<1>2. QED
  BY <1>1, VoteInvariant, PTL

(* No hook, probe or registration takes the vote of a member that stays.   *)
THEOREM MembersStay == ASSUME PatientUser PROVE Spec => StayingMembersStay
<1>1. VoteInv /\ [Next]_vars
        => [\A i \in Voters(config) \ (Voters(config') \cup lost) :
              znode # NoSize /\ znode < i]_vars
  BY LosersStep DEF LosersLeave
<1>2. QED
  BY <1>1, VoteInvariant, PTL DEF Spec, StayingMembersStay

(* The operator and its user, as this module has them, follow the protocol *)
(* that Rollout_proofs shows the operator to implement: what the scripts   *)
(* read in the znode is announced in the order of SizeProtocol.            *)
THEOREM FollowsProtocol == ASSUME PatientUser PROVE Spec => SizesAsPromised
<1>1. Init => Sizes!Init
  BY MembersAssumption DEF Init, Sizes!Init, Member
<1>2. VoteInv /\ [Next]_vars => [Sizes!Next]_(Sizes!vars)
  <2> SUFFICES ASSUME VoteInv, [Next]_vars
               PROVE  [Sizes!Next]_(Sizes!vars)
    OBVIOUS
  <2>1. CASE EditSize
    BY <2>1 DEF EditSize, Settled, Sizes!Next, Sizes!Edit
  <2>2. CASE CreateMetadata
    BY <2>2 DEF CreateMetadata, Sizes!Next, Sizes!Introduce
  <2>3. CASE AnnounceSize
    BY <2>3 DEF AnnounceSize, VoteInv, SizesInv, PendingInv, Sizes!Next,
                Sizes!Announce
  <2>4. CASE Resize
    BY <2>4 DEF Resize, VoteInv, SizesInv, PendingInv, Sizes!Next, Sizes!Apply
  <2>5. CASE UNCHANGED cluster
    BY <2>5 DEF cluster, Sizes!vars
  <2>6. QED
    BY <2>1, <2>2, <2>3, <2>4, <2>5
       DEF Next, Scripts, Failures, Environment, Operator, vars, cluster,
           FindEnsemble, StartScript, Register, RegisterFails, Launch,
           ProbePasses, ProbeFails, Promote, AddPromoted, ReadSize, Leave,
           MissEnsemble, RegisterCut, PromotionCut, TeardownCut, Restart,
           Kill, Terminate, Learn, CreatePod, ScaleDown, Reclaim
<1>3. QED
  BY <1>1, <1>2, VoteInvariant, PTL DEF Spec, SizesAsPromised, Sizes!Spec

-----------------------------------------------------------------------------
(* The scripts beside any operator.  ZkMembership says when its operator   *)
(* writes: it has found the members ready and ZooKeeper within reach.  The *)
(* votes do not depend on that.  An operator changes sizes as it likes;    *)
(* the user edits a cluster that has settled; and a pod that is gone when  *)
(* its size is taken away is not started again (Resize).                   *)

AnyOperator ==
  /\ wanted' # wanted => Settled
  /\ lost' = lost \cup {i \in Voters(config) : /\ pod[i] = "absent"
                                               /\ replicas' < i /\ i <= replicas}
  /\ IF wanted' = wanted THEN UNCHANGED used ELSE Use("sizeEdits")
  /\ UNCHANGED <<pod, server, ready, files, config, reused>>

PodsStep == \E i \in Member : Scripts(i) \/ Failures(i) \/ Environment(i)

OpenSpec == Init /\ [][PodsStep \/ AnyOperator]_vars

LEMMA AnyOperatorStep ==
  ASSUME VoteInv, AnyOperator, Sizes!Next
  PROVE  VoteInv' /\ FilesKept /\ LosersLeave
<1>. USE OneIsMember DEF AnyOperator, files, history
<1>p. /\ PodInv /\ TypeOK /\ FilesInv /\ VotersInv
      /\ ScaleDownInv /\ LeavingInv /\ PendingInv
  BY DEF VoteInv, SizesInv, PodInv
<1>1. /\ UNCHANGED <<pod, server, ready, static, dyn, config, reused>>
      /\ wanted' = wanted => UNCHANGED used
      /\ wanted' # wanted => Settled /\ Use("sizeEdits")
  OBVIOUS
<1>2. /\ {wanted, replicas} \subseteq Member /\ znode \in Member \cup {NoSize}
      /\ NoSize \notin Member
  BY <1>p DEF TypeOK, NoSize
<1>3. \/ /\ wanted' # wanted /\ wanted' \in Member /\ Settled
         /\ UNCHANGED <<replicas, znode>>
      \/ /\ \/ znode = NoSize /\ wanted = replicas
            \/ znode = replicas /\ wanted # replicas
         /\ znode' = wanted
         /\ UNCHANGED <<wanted, replicas>>
      \/ /\ znode = wanted /\ replicas # znode /\ replicas' = znode
         /\ UNCHANGED <<wanted, znode>>
  BY <1>2 DEF Sizes!Next, Sizes!Edit, Sizes!Introduce, Sizes!Announce, Sizes!Apply
<1>4. /\ {wanted', replicas'} \subseteq Member
      /\ znode' \in Member \cup {NoSize}
  BY <1>2, <1>3
<1>5. /\ used' \in [DOMAIN Bounds -> Nat]
      /\ \A b \in DOMAIN Bounds : used'[b] \in 0 .. Bounds[b]
  BY <1>p, <1>1, UsedTyped, BoundNames DEF PodInv, TypeOK
<1>6. lost' \subseteq Member /\ lost \subseteq lost'
  BY <1>p DEF TypeOK, Voters
<1>7. PodInv'
  BY <1>p, <1>1, <1>4, <1>5, <1>6 DEF PodInv, TypeOK
<1>8. FilesInv' /\ FilesKept
  BY <1>p, <1>1 DEF FilesInv, FilesKept
<1>9. SizesInv'
  <2>. USE DEF SizesInv, ScaleDownInv, LeavingInv, PendingInv
  <2>1. CASE /\ wanted' # wanted /\ Settled
             /\ UNCHANGED <<replicas, znode>>
    BY <1>p, <1>1, <2>1, SettledPods
  <2>2. CASE /\ \/ znode = NoSize /\ wanted = replicas
                \/ znode = replicas /\ wanted # replicas
             /\ znode' = wanted
             /\ UNCHANGED <<wanted, replicas>>
    <3>1. \A i \in Member : i > replicas => pod[i] = "absent"
      BY <1>p, <1>2, <2>2
    <3>2. \A i \in Member : pod[i] # "leaving"
      BY <1>p, <1>2, <2>2, <3>1
    <3>. QED
      BY <1>1, <1>2, <2>2, <3>1, <3>2
  <2>3. CASE /\ znode = wanted /\ replicas # znode /\ replicas' = znode
             /\ UNCHANGED <<wanted, znode>>
    BY <1>p, <1>1, <1>2, <2>3
  <2>. QED
    BY <1>3, <2>1, <2>2, <2>3
<1>10. VotersInv'
  <2>1. Voters(config)' = Voters(config) /\ Voters(config) \subseteq Member
    BY <1>1 DEF Voters
  <2>2. \A i \in Member : Returns(i) => Returns(i)'
    BY <1>1 DEF Returns, CanRun
  <2>3. ASSUME NEW i \in Voters(config) \ lost', pod[i] = "absent"
        PROVE  i <= replicas'
    <3>1. i \in Voters(config) \ lost /\ i \in Nat
      BY <1>6, <2>1, <2>3
    <3>2. i <= replicas
      BY <1>p, <2>3, <3>1 DEF VotersInv
    <3>3. ~ replicas' < i
      BY <2>1, <2>3, <3>2
    <3>4. replicas' \in Nat
      BY <1>4
    <3>. QED
      BY <3>1, <3>3, <3>4
  <2>4. Voters(config) \ lost' \subseteq Voters(config) \ lost
    BY <1>6
  <2>. QED
    BY <1>p, <1>1, <2>1, <2>2, <2>3, <2>4 DEF VotersInv
<1>11. LosersLeave
  BY <1>1 DEF LosersLeave, Voters
<1>. QED
  BY <1>7, <1>8, <1>9, <1>10, <1>11 DEF VoteInv

LEMMA OpenStep ==
  ASSUME PatientUser, VoteInv, [PodsStep \/ AnyOperator]_vars,
         [Sizes!Next]_(Sizes!vars)
  PROVE  VoteInv' /\ [FilesKept]_vars /\ [LosersLeave]_vars
<1>1. CASE AnyOperator /\ Sizes!Next
  BY <1>1, AnyOperatorStep
<1>2. CASE PodsStep \/ UNCHANGED vars
  <2>1. [Next]_vars
    BY <1>2 DEF PodsStep, Next
  <2>2. PodInv /\ FilesInv /\ SizesInv
    BY DEF VoteInv
  <2>. QED
    BY <2>1, <2>2, PodStep, FilesStep, SizesStep, VotersStep, LosersStep
    DEF VoteInv
<1>3. CASE AnyOperator /\ UNCHANGED Sizes!vars
  <2>1. UNCHANGED <<wanted, replicas, znode>>
    BY <1>3 DEF Sizes!vars
  <2>2. \A i \in Voters(config) : i \in Nat /\ replicas \in Nat
    BY OneIsMember DEF VoteInv, PodInv, TypeOK, Voters
  <2>3. {i \in Voters(config) : /\ pod[i] = "absent"
                                /\ replicas' < i /\ i <= replicas} = {}
    BY <2>1, <2>2
  <2>4. lost' = lost /\ used' = used
    BY <1>3, <2>1, <2>3 DEF AnyOperator
  <2>5. UNCHANGED vars
    BY <1>3, <2>1, <2>4 DEF AnyOperator, vars, files
  <2>. QED
    BY <1>2, <2>5
<1>. QED
  BY <1>1, <1>2, <1>3

(* Beside any operator that keeps to SizeProtocol, and a user who waits,   *)
(* voters can return, a scale-down leaves no voter behind, members that    *)
(* stay keep their vote and no second ensemble is made up: the votes rest  *)
(* on the order of the sizes alone (zookeeperTeardown.sh compares with the *)
(* size in the znode only).                                                *)
THEOREM AnyOperatorWillDo ==
  ASSUME PatientUser
  PROVE  OpenSpec /\ SizesAsPromised
           => /\ []VotersCanReturn /\ []NoGhostVoters
              /\ StayingMembersStay /\ FilesFollowEnsemble
<1>1. Init => VoteInv
  BY Initially DEF VoteInv
<1>2. VoteInv /\ [PodsStep \/ AnyOperator]_vars /\ [Sizes!Next]_(Sizes!vars)
        => VoteInv'
  BY OpenStep
<1>3. VoteInv => VotersCanReturn /\ NoGhostVoters
  BY DEF VoteInv, VotersInv, Returns, VotersCanReturn, NoGhostVoters
<1>4. VoteInv /\ [PodsStep \/ AnyOperator]_vars /\ [Sizes!Next]_(Sizes!vars)
        => [\A i \in Voters(config) \ (Voters(config') \cup lost) :
              znode # NoSize /\ znode < i]_vars
  BY OpenStep DEF LosersLeave
<1>5. VoteInv /\ [PodsStep \/ AnyOperator]_vars /\ [Sizes!Next]_(Sizes!vars)
        => [config # NoConfig =>
              \A i \in Member : dyn'[i] \in {dyn[i], config', NoConfig}]_vars
  BY OpenStep DEF FilesKept
<1>. QED
  BY <1>1, <1>2, <1>3, <1>4, <1>5, PTL
  DEF OpenSpec, SizesAsPromised, Sizes!Spec, StayingMembersStay,
      FilesFollowEnsemble

(* The operator that ZkMembership has is one of them.                      *)
THEOREM OneOperator == ASSUME PatientUser PROVE Spec => OpenSpec
<1>1. VoteInv /\ [Next]_vars => [PodsStep \/ AnyOperator]_vars
  <2> SUFFICES ASSUME VoteInv, Operator PROVE AnyOperator
    BY DEF Next, PodsStep
  <2> USE DEF AnyOperator, files, history
  <2>1. ASSUME replicas' = replicas
        PROVE  {i \in Voters(config) : /\ pod[i] = "absent"
                                       /\ replicas' < i /\ i <= replicas} = {}
    <3>1. \A i \in Voters(config) : i \in Nat /\ replicas \in Nat
      BY OneIsMember DEF VoteInv, PodInv, TypeOK, Voters
    <3>. QED
      BY <2>1, <3>1
  <2>2. CASE EditSize
    BY <2>1, <2>2 DEF EditSize, Member
  <2>3. CASE CreateMetadata
    BY <2>1, <2>3 DEF CreateMetadata
  <2>4. CASE AnnounceSize
    BY <2>1, <2>4 DEF AnnounceSize
  <2>5. CASE Resize
    <3>1. \A i \in Voters(config) \ lost : pod[i] = "absent" => i <= replicas
      BY DEF VoteInv, VotersInv
    <3>2. \A i \in Voters(config) : i \in Nat
      BY OneIsMember DEF Voters
    <3>4. znode \in Int
      BY OneIsMember DEF VoteInv, PodInv, TypeOK, NoSize
    <3>3. lost \cup {i \in Voters(config) : pod[i] = "absent" /\ i > znode}
            = lost \cup {i \in Voters(config) : /\ pod[i] = "absent"
                                               /\ znode < i /\ i <= replicas}
      BY <3>1, <3>2, <3>4
    <3>. QED
      BY <2>5, <3>3 DEF Resize
  <2>. QED
    BY <2>2, <2>3, <2>4, <2>5 DEF Operator
<1>. QED
  BY <1>1, VoteInvariant, PTL DEF Spec, OpenSpec
=============================================================================
