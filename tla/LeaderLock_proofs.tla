--------------------------- MODULE LeaderLock_proofs ---------------------------
(***************************************************************************)
(* Proofs about LeaderLock: at most one pod leads as long as no update of  *)
(* the Deployment coincides with the failure of a node, for any number of  *)
(* pods, failures, evictions, restarts, updates and failed calls.          *)
(***************************************************************************)
EXTENDS LeaderLock, TLAPS

LEMMA UsedTyped ==
  ASSUME used \in [DOMAIN Bounds -> Nat], NEW b \in DOMAIN Bounds, Use(b)
  PROVE  used' \in [DOMAIN Bounds -> Nat]
BY BoundsAssumption DEF Use, Bounds

LEMMA BoundNames ==
  DOMAIN Bounds = {"nodeFailures", "evictions", "rollouts", "restarts",
                   "faults"}
BY DEF Bounds

(* The type of each of the kinds of step.                                  *)
LEMMA TypeStep == LockInv /\ [Next]_vars => TypeOK'
<1> SUFFICES ASSUME LockInv, [Next]_vars PROVE TypeOK'
  OBVIOUS
<1>t. TypeOK
  BY DEF LockInv
<1> USE BoundNames, <1>t DEF TypeOK
<1>1. ASSUME NEW p \in Pod, Process(p) PROVE TypeOK'
  <2>1. CASE ReadLock(p)
    BY <2>1 DEF ReadLock, GoTo
  <2>2. CASE ReadLeaderPod(p)
    BY <2>2 DEF ReadLeaderPod, GoTo
  <2>3. CASE DeleteLeaderPod(p)
    <3>1. seen[p] \in Pod
      BY <2>3 DEF DeleteLeaderPod, LockInv
    <3>2. QED
      BY <2>3, <3>1 DEF DeleteLeaderPod, GoTo
  <2>4. CASE DeleteLock(p)
    BY <2>4 DEF DeleteLock, GoTo
  <2>5. CASE BecomeLeader(p)
    BY <2>5 DEF BecomeLeader, GoTo
  <2>6. CASE DeleteEvictedLeader(p)
    BY <2>6 DEF DeleteEvictedLeader
  <2>7. QED
    BY <1>1, <2>1, <2>2, <2>3, <2>4, <2>5, <2>6 DEF Process
<1>2. ASSUME NEW p \in Pod, PrecheckFails(p) \/ BecomeFails(p) \/ Restart(p)
      PROVE  TypeOK'
  BY <1>2, UsedTyped DEF PrecheckFails, BecomeFails, Restart, GoTo
<1>3. CASE Kubernetes
  BY <1>3 DEF Kubernetes, Replace, StartPod, DeleteOldPod, RemovePod,
              CollectLock, GoTo, Active
<1>4. CASE Rollout
  BY <1>4, UsedTyped DEF Rollout, StartPod, GoTo
<1>5. CASE NodeFails \/ Evict
  BY <1>5, UsedTyped DEF NodeFails, Evict, StopsAs, Active, GoTo
<1>6. CASE UNCHANGED vars
  BY <1>6 DEF vars
<1>7. QED
  BY <1>1, <1>2, <1>3, <1>4, <1>5, <1>6 DEF Next

(* What a process does alone: it never makes a pod run or fail, and takes  *)
(* the lock from nobody but a failed leader.                               *)
LEMMA ProcessStep ==
  ASSUME LockInv, NEW p \in Pod, Process(p) PROVE LockInv'
<1>1. TypeOK'
  BY TypeStep DEF Next
<1> USE DEF LockInv, TypeOK, Alone, Running, GoTo
<1>2. CASE ReadLock(p)
  BY <1>1, <1>2 DEF ReadLock
<1>3. CASE ReadLeaderPod(p)
  BY <1>1, <1>3 DEF ReadLeaderPod
<1>4. CASE DeleteLeaderPod(p)
  BY <1>1, <1>4 DEF DeleteLeaderPod
<1>5. CASE DeleteLock(p)
  BY <1>1, <1>5 DEF DeleteLock
<1>6. CASE BecomeLeader(p)
  BY <1>1, <1>6 DEF BecomeLeader, Pod, NoPod
<1>7. CASE DeleteEvictedLeader(p)
  BY <1>1, <1>7 DEF DeleteEvictedLeader
<1>8. QED
  BY <1>2, <1>3, <1>4, <1>5, <1>6, <1>7 DEF Process

LEMMA FaultStep ==
  ASSUME LockInv, NEW p \in Pod,
         PrecheckFails(p) \/ BecomeFails(p) \/ Restart(p)
  PROVE  LockInv'
<1>1. TypeOK'
  BY TypeStep DEF Next
<1>2. /\ Running(p)
      /\ \E next \in {"become", "readLock"} : pc' = [pc EXCEPT ![p] = next]
      /\ UNCHANGED <<status, deleting, lock, seen>>
  BY DEF PrecheckFails, BecomeFails, Restart, GoTo, LockInv
<1>3. QED
  BY <1>1, <1>2 DEF LockInv, TypeOK, Alone, Running

LEMMA KubernetesStep == ASSUME LockInv, Kubernetes PROVE LockInv'
<1>1. TypeOK'
  BY TypeStep DEF Next
<1> USE DEF LockInv, TypeOK, Alone, Running, GoTo
<1>2. CASE Replace
  BY <1>1, <1>2 DEF Replace, StartPod, Active
<1>3. CASE DeleteOldPod
  <2>1. PICK p, q \in Pod : /\ Running(p) /\ Running(q) /\ p < q
                           /\ deleting' = deleting \cup {p}
                           /\ UNCHANGED <<status, lock, pc, seen, used>>
    BY <1>3 DEF DeleteOldPod, Active
  <2>2. p # q
    BY <2>1 DEF Pod
  <2>3. \A r \in Pod : ~ Alone(r)
    BY <2>1, <2>2
  <2>4. \A r \in Pod : /\ status[r] # "providerFailed"
                      /\ pc[r] \notin {"deletePod", "deleteLock"}
    BY <2>1, <2>3
  <2>5. QED
    BY <1>1, <2>1, <2>4
<1>4. CASE RemovePod
  BY <1>1, <1>4 DEF RemovePod
<1>5. CASE CollectLock
  BY <1>1, <1>5 DEF CollectLock
<1>6. QED
  BY <1>2, <1>3, <1>4, <1>5 DEF Kubernetes

(* The only steps in which the coincidence matters.                        *)
LEMMA CalmStep ==
  ASSUME CalmRollouts, LockInv, Rollout \/ NodeFails \/ Evict PROVE LockInv'
<1>1. TypeOK'
  BY TypeStep DEF Next
<1> USE DEF LockInv, TypeOK, Alone, Running, GoTo
<1>2. CASE Rollout
  BY <1>1, <1>2 DEF Rollout, StartPod
<1>3. CASE NodeFails
  BY <1>1, <1>3 DEF NodeFails, StopsAs, Active
<1>4. CASE Evict
  BY <1>1, <1>4 DEF Evict, StopsAs, Active
<1>5. QED
  BY <1>2, <1>3, <1>4

(* A leader owns the lock, and whoever is about to delete the lock of a    *)
(* failed leader is the only pod that runs (leader.go:88-132).             *)
THEOREM LockInvariant == ASSUME CalmRollouts PROVE Spec => []LockInv
<1>1. Init => LockInv
  BY BoundsAssumption, BoundNames
     DEF Init, LockInv, TypeOK, Pod, NoPod, Running
<1>2. LockInv /\ [Next]_vars => LockInv'
  <2> SUFFICES ASSUME LockInv, [Next]_vars PROVE LockInv'
    OBVIOUS
  <2>1. CASE UNCHANGED vars
    BY <2>1 DEF vars, LockInv, TypeOK, Alone, Running
  <2>2. CASE Next
    BY <2>2, ProcessStep, FaultStep, KubernetesStep, CalmStep DEF Next
  <2>3. QED
    BY <2>1, <2>2
<1>3. QED
  BY <1>1, <1>2, PTL DEF Spec

(* Two pods never both lead (main.go:112).                                 *)
THEOREM OneLeader == ASSUME CalmRollouts PROVE Spec => []AtMostOneLeader
<1>1. LockInv => AtMostOneLeader
  BY DEF LockInv, AtMostOneLeader, Leaders
<1>2. QED
  BY <1>1, LockInvariant, PTL
=============================================================================
