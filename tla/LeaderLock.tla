------------------------------ MODULE LeaderLock ------------------------------
(***************************************************************************)
(* How one of the operator's pods becomes the leader (BecomeLeader of      *)
(* pkg/utils/leader.go, called by main.go before the manager starts): the  *)
(* pre-check of the lock that a leader on a failed node left behind, and   *)
(* then the leader-for-life election of operator-lib.                      *)
(*                                                                         *)
(* The lock is a config map that its leader's pod owns; the garbage        *)
(* collector removes it after the pod.  A leader never looks at the lock   *)
(* again.  Pods are those of a Deployment with one replica, numbered in    *)
(* the order in which they are created.  A pod whose status has the reason *)
(* "ProviderFailed" or "Evicted" runs no process any more.                 *)
(***************************************************************************)
EXTENDS Integers

CONSTANTS
  MaxPods,
  MaxNodeFailures, \* bound on pods that get the reason ProviderFailed
  MaxEvictions,    \* bound on pods that are evicted
  MaxRollouts,     \* bound on updates of the Deployment
  MaxRestarts,     \* bound on restarts of a pod's process
  MaxFaults,       \* bound on failed calls to the API server
  CalmRollouts     \* a failed node and an update of the Deployment never
                   \* coincide

ASSUME BoundsAssumption ==
  /\ {MaxNodeFailures, MaxEvictions, MaxRollouts, MaxRestarts, MaxFaults}
       \subseteq Nat
  /\ MaxPods \in Nat
  /\ MaxPods > MaxNodeFailures + MaxEvictions + MaxRollouts
ASSUME ModeAssumption == CalmRollouts \in BOOLEAN

VARIABLES
  status,   \* the status of each pod
  deleting, \* pods that have a deletion timestamp
  lock,     \* the owner of the lock, NoPod when there is no lock
  pc,       \* the call that the process of a pod makes next
  seen,     \* the owner of the lock that a pre-check has read
  used      \* how much of each bound is used up

vars == <<status, deleting, lock, pc, seen, used>>

Pod == 1 .. MaxPods

NoPod == 0

Bounds == [nodeFailures |-> MaxNodeFailures, evictions |-> MaxEvictions,
           rollouts |-> MaxRollouts, restarts |-> MaxRestarts,
           faults |-> MaxFaults]

Init ==
  /\ status = [p \in Pod |-> "absent"]
  /\ deleting = {}
  /\ lock = NoPod
  /\ pc = [p \in Pod |-> "down"]
  /\ seen = [p \in Pod |-> NoPod]
  /\ used = [b \in DOMAIN Bounds |-> 0]

Use(b) ==
  /\ used[b] < Bounds[b]
  /\ used' = [used EXCEPT ![b] = @ + 1]

Running(p) == status[p] = "running"

(* The pods that the Deployment counts.                                    *)
Active == {p \in Pod : Running(p) /\ p \notin deleting}

Leaders == {p \in Pod : pc[p] = "leader"}

GoTo(p, next) == pc' = [pc EXCEPT ![p] = next]

-----------------------------------------------------------------------------
(* precheckLeaderLock: its error is only logged, so every way out of it    *)
(* leads to leader.Become.                                                 *)

ReadLock(p) ==
  /\ pc[p] = "readLock"
  /\ seen' = [seen EXCEPT ![p] = lock]
  /\ GoTo(p, IF lock \in {NoPod, p} THEN "become" ELSE "readPod")
  /\ UNCHANGED <<status, deleting, lock, used>>

(* Mutant: every leader that is found is removed.                          *)
ReadAnyLeaderPod(p) ==
  /\ pc[p] = "readPod"
  /\ GoTo(p, IF status[seen[p]] # "gone" THEN "deletePod" ELSE "become")
  /\ UNCHANGED <<status, deleting, lock, seen, used>>

(* Mutant: an evicted leader is removed, which operator-lib does anyway.   *)
ReadEvictedLeaderPod(p) ==
  /\ pc[p] = "readPod"
  /\ GoTo(p, IF status[seen[p]] = "evicted" THEN "deletePod" ELSE "become")
  /\ UNCHANGED <<status, deleting, lock, seen, used>>

ReadLeaderPod(p) ==
  /\ pc[p] = "readPod"
  /\ GoTo(p, IF status[seen[p]] = "providerFailed" THEN "deletePod"
             ELSE "become")
  /\ UNCHANGED <<status, deleting, lock, seen, used>>

(* deleteLeader: the pod first; that it is gone already is an error.       *)
DeleteLeaderPod(p) ==
  /\ pc[p] = "deletePod"
  /\ \/ /\ status[seen[p]] # "gone"
        /\ deleting' = deleting \cup {seen[p]}
        /\ GoTo(p, "deleteLock")
     \/ /\ status[seen[p]] = "gone"
        /\ GoTo(p, "become")
        /\ UNCHANGED deleting
  /\ UNCHANGED <<status, lock, seen, used>>

(* The lock is deleted by its name, whoever owns it by now.                *)
DeleteLock(p) ==
  /\ pc[p] = "deleteLock"
  /\ lock' = NoPod
  /\ GoTo(p, "become")
  /\ UNCHANGED <<status, deleting, seen, used>>

PrecheckFails(p) ==
  /\ pc[p] \in {"readLock", "readPod", "deletePod", "deleteLock"}
  /\ Use("faults")
  /\ GoTo(p, "become")
  /\ UNCHANGED <<status, deleting, lock, seen>>

-----------------------------------------------------------------------------
(* leader.Become: take a lock of one's own or create it, and as long as    *)
(* somebody else has it, wait; a leader that was evicted is deleted.  After *)
(* an error the process exits, and its container is restarted.             *)

BecomeLeader(p) ==
  /\ pc[p] = "become"
  /\ lock \in {NoPod, p}
  /\ lock' = p
  /\ GoTo(p, "leader")
  /\ UNCHANGED <<status, deleting, seen, used>>

DeleteEvictedLeader(p) ==
  /\ pc[p] = "become"
  /\ lock # NoPod
  /\ status[lock] = "evicted"
  /\ lock \notin deleting
  /\ deleting' = deleting \cup {lock}
  /\ UNCHANGED <<status, lock, pc, seen, used>>

BecomeFails(p) ==
  /\ pc[p] = "become"
  /\ Use("faults")
  /\ GoTo(p, "readLock")
  /\ UNCHANGED <<status, deleting, lock, seen>>

Restart(p) ==
  /\ Running(p)
  /\ Use("restarts")
  /\ GoTo(p, "readLock")
  /\ UNCHANGED <<status, deleting, lock, seen>>

-----------------------------------------------------------------------------
(* The Deployment and the nodes.                                           *)

StartPod(p) ==
  /\ status[p] = "absent"
  /\ \A q \in Pod : q < p => status[q] # "absent"
  /\ status' = [status EXCEPT ![p] = "running"]
  /\ GoTo(p, "readLock")
  /\ UNCHANGED <<deleting, lock, seen>>

Replace ==
  /\ Active = {}
  /\ \E p \in Pod : StartPod(p)
  /\ UNCHANGED used

(* An update of the Deployment starts a new pod beside the old one.        *)
Rollout ==
  /\ Active # {}
  /\ CalmRollouts =>
       \A q \in Pod : /\ status[q] # "providerFailed"
                      /\ pc[q] \notin {"deletePod", "deleteLock"}
  /\ Use("rollouts")
  /\ \E p \in Pod : StartPod(p)

DeleteOldPod ==
  \E p, q \in Active :
    /\ p < q
    /\ deleting' = deleting \cup {p}
    /\ UNCHANGED <<status, lock, pc, seen, used>>

RemovePod ==
  \E p \in deleting :
    /\ status[p] # "gone"
    /\ status' = [status EXCEPT ![p] = "gone"]
    /\ GoTo(p, "down")
    /\ UNCHANGED <<deleting, lock, seen, used>>

CollectLock ==
  /\ lock # NoPod
  /\ status[lock] = "gone"
  /\ lock' = NoPod
  /\ UNCHANGED <<status, deleting, pc, seen, used>>

StopsAs(p, reason) ==
  /\ Running(p)
  /\ status' = [status EXCEPT ![p] = reason]
  /\ GoTo(p, "down")
  /\ UNCHANGED <<deleting, lock, seen>>

NodeFails ==
  \E p \in Active :
    /\ CalmRollouts => \A q \in Pod \ {p} : ~ Running(q)
    /\ Use("nodeFailures")
    /\ StopsAs(p, "providerFailed")

Evict ==
  \E p \in Active :
    /\ Use("evictions")
    /\ StopsAs(p, "evicted")

-----------------------------------------------------------------------------
Process(p) ==
  \/ ReadLock(p) \/ ReadLeaderPod(p) \/ DeleteLeaderPod(p) \/ DeleteLock(p)
  \/ BecomeLeader(p) \/ DeleteEvictedLeader(p)

Kubernetes == Replace \/ DeleteOldPod \/ RemovePod \/ CollectLock

Next ==
  \/ \E p \in Pod : Process(p) \/ PrecheckFails(p) \/ BecomeFails(p)
                    \/ Restart(p)
  \/ Kubernetes
  \/ Rollout \/ NodeFails \/ Evict

Spec == Init /\ [][Next]_vars

(* Processes run, and the cluster keeps the Deployment at its size and     *)
(* removes what is deleted.                                                *)
FairSpec == Spec /\ WF_vars(Kubernetes)
                 /\ \A p \in Pod : WF_vars(Process(p))

-----------------------------------------------------------------------------
TypeOK ==
  /\ status \in [Pod -> {"absent", "running", "providerFailed", "evicted",
                         "gone"}]
  /\ deleting \subseteq Pod
  /\ lock \in Pod \cup {NoPod}
  /\ pc \in [Pod -> {"down", "readLock", "readPod", "deletePod",
                     "deleteLock", "become", "leader"}]
  /\ seen \in [Pod -> Pod \cup {NoPod}]
  /\ used \in [DOMAIN Bounds -> Nat]

(* Two pods never both lead, through restarts, evictions, updates of the   *)
(* Deployment and failures of nodes: "Become the leader before proceeding" *)
(* (main.go:112).                                                          *)
AtMostOneLeader == \A p, q \in Leaders : p = q

(* The inductive invariant behind it.  A leader owns the lock; whoever is  *)
(* about to delete the lock of a failed leader is alone.                   *)
Alone(p) == /\ p \notin deleting
            /\ \A q \in Pod \ {p} : ~ Running(q)

LockInv ==
  /\ TypeOK
  /\ lock # NoPod => status[lock] # "absent"
  /\ \A p \in Pod :
       /\ pc[p] # "down" => Running(p)
       /\ p \in deleting => status[p] # "absent"
       /\ pc[p] \in {"readPod", "deletePod", "deleteLock"}
            => seen[p] \notin {NoPod, p} /\ status[seen[p]] # "absent"
       /\ pc[p] = "leader" => lock = p
       /\ pc[p] \in {"deletePod", "deleteLock"} => Alone(p)
       /\ status[p] = "providerFailed"
            => \A q \in Pod : Running(q) => Alone(q)

(* Once nodes and the Deployment are left alone some pod leads, unless a   *)
(* call failed: the pre-check, which is made once, is the only one that    *)
(* removes the lock of a leader on a failed node.                          *)
EventuallyLed == <>[](Leaders # {} \/ used.faults > 0)
=============================================================================
