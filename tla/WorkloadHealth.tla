--------------------------- MODULE WorkloadHealth ---------------------------
(***************************************************************************)
(* How the APIShard controller learns whether the workloads of a shard are *)
(* ready: checkDeploymentHealth compares the replica counts in the status  *)
(* of the cached Deployments (and StatefulSet), and the predicates decide  *)
(* which of their updates bring the shard back into the workqueue.  The    *)
(* workload controllers (external) follow the spec in steps of one pod.    *)
(***************************************************************************)
EXTENDS Integers, FiniteSets

CONSTANTS
  Workloads,    \* the Deployments, and the StatefulSet of in-cluster storage
  MaxReplicas,  \* bound: replicas of a workload
  MaxScales,    \* bound: changes of the replica counts in the shard
  MaxFailures,  \* bound: pods that fail
  MaxNoise,     \* bound: updates of metadata or of the rest of a status
  MaxRestarts   \* bound: restarts of the operator

ASSUME BoundsAssumption ==
  /\ MaxReplicas \in Nat \ {0} /\ MaxScales \in Nat
  /\ MaxFailures \in Nat /\ MaxNoise \in Nat /\ MaxRestarts \in Nat

VARIABLES
  wanted,   \* replica count of each workload in the stored shard
  object,   \* the workloads on the API server
  cached,   \* the workloads in the informer's cache
  verdict,  \* the stored SecondaryHealthy condition
  queued,   \* the shard is in the workqueue, or will be after a RequeueAfter
  pc,       \* the next step of the running pass, "idle" if none runs
  copy,     \* the counts this pass works with
  healthy,  \* what this pass has found
  budgets

pass == <<pc, copy, healthy>>
vars == <<wanted, object, cached, verdict, queued, pass, budgets>>
-----------------------------------------------------------------------------
(* A workload: the generation and the metadata, spec.replicas, the counts  *)
(* in its status, and the rest of the status.                              *)
Absent == [generation |-> 0, metadata |-> 0, spec |-> -1,
           replicas |-> 0, ready |-> 0, available |-> 0, updated |-> 0, rest |-> 0]

(* Variant: the count of the shard as it is.                               *)
ReplicasAsIs(n) == n
(* The builders take 0, which the CRD admits, for the default.             *)
Replicas(n) == IF n = 0 THEN 1 ELSE n

generationOrMetadataChanged(old, new) ==
  old.generation # new.generation \/ old.metadata # new.metadata
extractReplicaCounts(o) == <<o.replicas, o.ready, o.available, o.updated>>

(* Variant: IgnoreStatusUpdatesPredicate in place of the readiness one.    *)
IgnoreStatusUpdatesPredicate(old, new) ==
  old = Absent \/ new = Absent \/ generationOrMetadataChanged(old, new)
(* Creation and deletion always pass.  StatefulSetReadinessPredicate is    *)
(* the same.                                                               *)
DeploymentReadinessPredicate(old, new) ==
  \/ old = Absent \/ new = Absent
  \/ generationOrMetadataChanged(old, new)
  \/ extractReplicaCounts(old) # extractReplicaCounts(new)

(* Ready pods, and no pod that is not: of the pods there are.              *)
WorkloadReady(o) == o.ready > 0 /\ o.ready = o.replicas
-----------------------------------------------------------------------------
Counters == [scales: 0..MaxScales, failures: 0..MaxFailures, noise: 0..MaxNoise,
             restarts: 0..MaxRestarts]
Spend(budget, max) ==
  /\ budgets[budget] < max
  /\ budgets' = [budgets EXCEPT ![budget] = @ + 1]

Init ==
  /\ wanted \in [Workloads -> 0..MaxReplicas]
  /\ object = [w \in Workloads |-> Absent] /\ cached = object
  /\ verdict = FALSE /\ queued = TRUE
  /\ pc = "idle" /\ copy = wanted /\ healthy = FALSE
  /\ budgets = [scales |-> 0, failures |-> 0, noise |-> 0, restarts |-> 0]

Scale ==
  /\ Spend("scales", MaxScales)
  /\ \E w \in Workloads, n \in 0..MaxReplicas :
       n # wanted[w] /\ wanted' = [wanted EXCEPT ![w] = n]
  /\ queued' = TRUE
  /\ UNCHANGED <<object, cached, verdict, pass>>

(* The controllers of the workloads and the kubelet (external).            *)
Became(w, o) ==
  /\ object' = [object EXCEPT ![w] = o]
  /\ UNCHANGED <<wanted, cached, verdict, queued, pass>>
StartPod(w) ==
  LET o == object[w]
  IN  /\ o.replicas < o.spec
      /\ Became(w, [o EXCEPT !.replicas = @ + 1, !.updated = @ + 1])
      /\ UNCHANGED budgets
ReadyPod(w) ==
  LET o == object[w]
  IN  /\ UNCHANGED budgets
      /\ \/ o.ready < o.replicas /\ Became(w, [o EXCEPT !.ready = @ + 1])
         \/ o.available < o.ready /\ Became(w, [o EXCEPT !.available = @ + 1])
RemovePod(w) ==
  LET o == object[w]
      left(n) == IF n = o.replicas THEN n - 1 ELSE n
  IN  /\ o # Absent /\ o.replicas > o.spec
      /\ Became(w, [o EXCEPT !.replicas = @ - 1, !.ready = left(@), !.available = left(@),
                             !.updated = left(@)])
      /\ UNCHANGED budgets
FailPod(w) ==
  LET o == object[w]
  IN  /\ Spend("failures", MaxFailures)
      /\ o.ready > 0
      /\ Became(w, [o EXCEPT !.ready = @ - 1,
                             !.available = IF @ = o.ready THEN @ - 1 ELSE @])
Noise(w) ==
  /\ Spend("noise", MaxNoise)
  /\ object[w] # Absent
  /\ \/ Became(w, [object[w] EXCEPT !.rest = 1 - @])
     \/ Became(w, [object[w] EXCEPT !.metadata = 1 - @])

(* The informer delivers the latest state, with the one it had before.     *)
Observe(w) ==
  /\ cached[w] # object[w]
  /\ cached' = [cached EXCEPT ![w] = object[w]]
  /\ queued' = (queued \/ DeploymentReadinessPredicate(cached[w], object[w]))
  /\ UNCHANGED <<wanted, object, verdict, pass, budgets>>

(* A restarted operator fills its cache and queues every shard.            *)
Restart ==
  /\ Spend("restarts", MaxRestarts)
  /\ cached' = object /\ queued' = TRUE /\ pc' = "idle"
  /\ UNCHANGED <<wanted, object, verdict, copy, healthy>>
-----------------------------------------------------------------------------
(* The pass, as far as workloads are concerned.                            *)
Begin ==
  /\ pc = "idle" /\ queued
  /\ copy' = wanted /\ pc' = "apply" /\ queued' = FALSE
  /\ UNCHANGED <<wanted, object, cached, verdict, healthy, budgets>>
Apply ==
  /\ pc = "apply"
  /\ object' = [w \in Workloads |->
       IF object[w].spec = Replicas(copy[w]) THEN object[w]
       ELSE [object[w] EXCEPT !.spec = Replicas(copy[w]), !.generation = 1 - @]]
  /\ pc' = "check"
  /\ UNCHANGED <<wanted, cached, verdict, queued, copy, healthy, budgets>>

(* A workload that is not in the cache is an error, which requeues too.    *)
checkDeploymentHealth ==
  /\ pc = "check"
  /\ healthy' = \A w \in Workloads : WorkloadReady(cached[w])
  /\ pc' = "write"
  /\ UNCHANGED <<wanted, object, cached, verdict, queued, copy, budgets>>

(* The status is refused if the shard was edited, and the pass repeated.   *)
WriteStatus ==
  /\ pc = "write"
  /\ IF copy = wanted
       THEN verdict' = healthy /\ queued' = (queued \/ ~healthy)
       ELSE UNCHANGED verdict /\ queued' = TRUE
  /\ pc' = "idle"
  /\ UNCHANGED <<wanted, object, cached, copy, healthy, budgets>>

Reconcile == Begin \/ Apply \/ checkDeploymentHealth \/ WriteStatus
Pods(w) == StartPod(w) \/ ReadyPod(w) \/ RemovePod(w)
Next ==
  \/ Reconcile \/ Scale \/ Restart
  \/ \E w \in Workloads : Pods(w) \/ FailPod(w) \/ Noise(w) \/ Observe(w)

Spec == Init /\ [][Next]_vars
FairSpec ==
  /\ Spec /\ WF_vars(Reconcile)
  /\ \A w \in Workloads : WF_vars(Pods(w)) /\ WF_vars(Observe(w))
-----------------------------------------------------------------------------
(* The variables keep to their types, and the counts of a status to each   *)
(* other.                                                                  *)
TypeOK ==
  /\ wanted \in [Workloads -> 0..MaxReplicas] /\ copy \in [Workloads -> 0..MaxReplicas]
  /\ \A w \in Workloads : \A o \in {object[w], cached[w]} :
       /\ o.spec \in {-1} \cup 1..MaxReplicas /\ o.replicas \in 0..MaxReplicas
       /\ o.ready \in 0..o.replicas /\ o.available \in 0..o.ready
       /\ o.updated \in 0..o.replicas
       /\ {o.generation, o.metadata, o.rest} \subseteq {0, 1}
  /\ {verdict, queued, healthy} \subseteq BOOLEAN
  /\ pc \in {"idle", "apply", "check", "write"}
  /\ budgets \in Counters

(* The predicates drop nothing that matters: with no pass due and every    *)
(* update delivered, the stored verdict is what the workloads say now, and *)
(* once their controllers have caught up it is that all replicas the shard *)
(* asks for are ready.                                                     *)
Quiet == pc = "idle" /\ ~queued /\ cached = object
VerdictIsCurrent ==
  Quiet =>
    /\ verdict <=> \A w \in Workloads : WorkloadReady(object[w])
    /\ (\A w \in Workloads : object[w].replicas = object[w].spec) =>
         (verdict <=> \A w \in Workloads : object[w].ready = Replicas(wanted[w]))

(* When pods stop failing and the user stops scaling, the shard becomes    *)
(* healthy with as many replicas as it asks for, none being one, and the   *)
(* controller comes to rest.                                               *)
BecomesHealthy ==
  <>[](verdict /\ ~queued /\ \A w \in Workloads : object[w].ready = Replicas(wanted[w]))

(* The comment at checkDeploymentHealth: it "returns true when both the    *)
(* Kine and secondary API server deployments have all replicas ready".     *)
HealthyMeansAllReady ==
  pc = "write" /\ healthy => \A w \in Workloads : object[w].ready >= Replicas(copy[w])
=============================================================================
