---------------------------- MODULE Ensemble_proofs ----------------------------
(***************************************************************************)
(* The whole cluster: the operator of ZookeeperClusterController beside    *)
(* the scripts of ZkMembership.  The two share the size that the user      *)
(* wants, the one in ZooKeeper and the one of the StatefulSet; each part   *)
(* moves in its own time and sees of the other what its own module says.   *)
(* What ZkMembership promises of the votes holds of them together, since   *)
(* the operator keeps to SizeProtocol and the scripts need no more of it.  *)
(***************************************************************************)
EXTENDS Rollout_proofs

CONSTANTS
  MaxMembers, KeepVolumes, MaxRestarts, MaxKills,
  MaxCommandFaults  \* bound on commands of the scripts that fail

VARIABLES
  pod, server, ready, static, dyn, config, lost, reused,
  usedByPods        \* how much of the bounds of ZkMembership is used up

Scripts == INSTANCE ZkMembership_proofs WITH
  InitialReplicas <- InitialSize,
  MaxFaults <- MaxCommandFaults,
  wanted <- cr.spec.replicas,
  replicas <- sts.replicas,
  znode <- znode.size,
  used <- usedByPods

(* The operator, which does not know of the scripts, beside the scripts,   *)
(* which know of the operator the sizes only.  A user who waits waits for  *)
(* what both of them say has settled.                                      *)
Ensemble == Spec /\ Scripts!OpenSpec

(* The votes are safe beside the operator of the code, with its caches,    *)
(* its crashes and its failed calls, of which two would break the order of *)
(* the sizes, and whatever befalls the pods (updateStatefulSet after       *)
(* UpdateNode; zookeeperTeardown.sh).                                      *)
THEOREM VotesAreSafe ==
  ASSUME PatientUser, ~ LostWrites, ~ StaleRestarts,
         MaxMembers \in Nat \ {0}, Size \subseteq 1 .. MaxMembers,
         KeepVolumes \in BOOLEAN,
         {MaxRestarts, MaxKills, MaxCommandFaults} \subseteq Nat
  PROVE  Ensemble => /\ []Scripts!VotersCanReturn
                     /\ []Scripts!NoGhostVoters
                     /\ Scripts!StayingMembersStay
                     /\ Scripts!FilesFollowEnsemble
<1>. USE DEF Scripts!Member, Scripts!NoSize, NoSize
<1>a. InitialSize \in 1 .. MaxMembers /\ MaxSizeEdits \in Nat /\ PatientUser \in BOOLEAN
  BY SizeAssumption, BoundsAssumption, ModesAssumption
<1>b. Scripts!MembersAssumption /\ Scripts!UserAssumption /\ Scripts!BoundsAssumption
  BY <1>a DEF Scripts!MembersAssumption, Scripts!UserAssumption, Scripts!BoundsAssumption
<1>1. Spec => AnnouncesSizes
  BY ImplementsSizeProtocol
<1>2. AnnouncesSizes => Scripts!SizesAsPromised
  <2>1. Sizes!Init => Scripts!Sizes!Init
    BY DEF Sizes!Init, Scripts!Sizes!Init
  <2>2. [Sizes!Next]_(Sizes!vars) => [Scripts!Sizes!Next]_(Scripts!Sizes!vars)
    BY DEF Sizes!Next, Scripts!Sizes!Next, Sizes!vars, Scripts!Sizes!vars,
           Sizes!Edit, Scripts!Sizes!Edit,
           Sizes!Introduce, Scripts!Sizes!Introduce,
           Sizes!Announce, Scripts!Sizes!Announce,
           Sizes!Apply, Scripts!Sizes!Apply
  <2>. QED
    BY <2>1, <2>2, PTL DEF AnnouncesSizes, Sizes!Spec, Scripts!SizesAsPromised, Scripts!Sizes!Spec
<1>3. Scripts!OpenSpec /\ Scripts!SizesAsPromised
        => /\ []Scripts!VotersCanReturn
           /\ []Scripts!NoGhostVoters
           /\ Scripts!StayingMembersStay
           /\ Scripts!FilesFollowEnsemble
  BY <1>b, Scripts!AnyOperatorWillDo
<1>. QED
  BY <1>1, <1>2, <1>3 DEF Ensemble
=============================================================================
