------------------------ MODULE WorkloadHealthProofs ------------------------
(***************************************************************************)
(* Proofs about WorkloadHealth, for any workloads, replicas and bounds.    *)
(***************************************************************************)
EXTENDS WorkloadHealth, TLAPS

Objects == [generation: Int, metadata: Int, spec: Int, replicas: Int, ready: Int,
            available: Int, updated: Int, rest: Int]
AllReady == \A w \in Workloads : WorkloadReady(cached[w])
Asked(counts) == \A w \in Workloads : object[w].spec = Replicas(counts[w])

(* A pass works on the shard as it is unless another one is due; what it   *)
(* has applied stays applied; and what it has found, and then the stored   *)
(* verdict, is what the cache says unless another pass is due.             *)
HealthInv ==
  /\ wanted \in [Workloads -> Nat] /\ copy \in [Workloads -> Nat]
  /\ object \in [Workloads -> Objects] /\ cached \in [Workloads -> Objects]
  /\ verdict \in BOOLEAN /\ healthy \in BOOLEAN /\ queued \in BOOLEAN
  /\ pc \in {"idle", "apply", "check", "write"}
  /\ ~queued => copy = wanted
  /\ pc \in {"check", "write"} => Asked(copy)
  /\ pc = "idle" /\ ~queued => Asked(wanted) /\ (verdict <=> AllReady)
  /\ pc = "write" /\ ~queued => (healthy <=> AllReady)

(* An update that the predicate drops leaves the readiness as it was.      *)
LEMMA DroppedIsIdle ==
  ASSUME NEW old, NEW new, ~DeploymentReadinessPredicate(old, new)
  PROVE  WorkloadReady(old) <=> WorkloadReady(new)
<1>1. old.replicas = new.replicas /\ old.ready = new.ready
  BY DEF DeploymentReadinessPredicate, extractReplicaCounts
<1> QED  BY <1>1 DEF WorkloadReady

(* What the workload controllers do leaves the spec of a workload alone.   *)
LEMMA BecameKeeps ==
  ASSUME HealthInv, NEW w \in Workloads, NEW o \in Objects, o.spec = object[w].spec, Became(w, o)
  PROVE  HealthInv'
<1>1. object' \in [Workloads -> Objects]
  BY DEF Became, HealthInv
<1>2. \A v \in Workloads : object'[v].spec = object[v].spec
  BY DEF Became, HealthInv
<1>3. UNCHANGED <<wanted, cached, verdict, queued, pc, copy, healthy>>
  BY DEF Became, pass
<1> QED  BY <1>1, <1>2, <1>3 DEF HealthInv, Asked, AllReady, WorkloadReady

LEMMA UpdateStarted ==
  ASSUME NEW o \in Objects, NEW a \in Int, NEW d \in Int
  PROVE  LET x == [o EXCEPT !.replicas = a, !.updated = d] IN x \in Objects /\ x.spec = o.spec
  BY DEF Objects
LEMMA UpdateFailed ==
  ASSUME NEW o \in Objects, NEW b \in Int, NEW c \in Int
  PROVE  LET x == [o EXCEPT !.ready = b, !.available = c] IN x \in Objects /\ x.spec = o.spec
  BY DEF Objects
LEMMA UpdateRemoved ==
  ASSUME NEW o \in Objects, NEW a \in Int, NEW b \in Int, NEW c \in Int, NEW d \in Int
  PROVE  LET x == [o EXCEPT !.replicas = a, !.ready = b, !.available = c, !.updated = d]
         IN  x \in Objects /\ x.spec = o.spec
  BY DEF Objects

LEMMA UpdateApplied ==
  ASSUME NEW o \in Objects, NEW n \in Int
  PROVE  LET x == [o EXCEPT !.spec = n, !.generation = 1 - @] IN x \in Objects /\ x.spec = n
<1> DEFINE updated(g) == [o EXCEPT !.spec = n, !.generation = g]
<1>1. \A g \in Int : updated(g) \in Objects /\ updated(g).spec = n
  BY DEF Objects
<1>2. 1 - o.generation \in Int
  BY DEF Objects
<1>3. [o EXCEPT !.spec = n, !.generation = 1 - @] = updated(1 - o.generation)
  BY DEF Objects
<1> HIDE DEF updated
<1> QED  BY <1>1, <1>2, <1>3

LEMMA PodsKeep ==
  ASSUME HealthInv, NEW w \in Workloads, Pods(w) \/ FailPod(w) \/ Noise(w)
  PROVE  HealthInv'
<1> DEFINE o == object[w]
<1>0. o \in Objects
  BY DEF HealthInv
<1>1. ASSUME NEW x, x \in Objects, x.spec = o.spec, Became(w, x) PROVE HealthInv'
  BY <1>1, BecameKeeps
<1>2. CASE StartPod(w)
  <2> DEFINE x == [o EXCEPT !.replicas = o.replicas + 1, !.updated = o.updated + 1]
  <2>0. o.replicas + 1 \in Int /\ o.updated + 1 \in Int
    BY <1>0 DEF Objects
  <2>1. x \in Objects /\ x.spec = o.spec
    BY <1>0, <2>0, UpdateStarted, ZenonT(30)
  <2> QED  BY <1>1, <1>2, <2>1, Zenon DEF StartPod
<1>3. CASE ReadyPod(w)
  <2> DEFINE x == [o EXCEPT !.ready = o.ready + 1]
             y == [o EXCEPT !.available = o.available + 1]
  <2>1. x \in Objects /\ x.spec = o.spec /\ y \in Objects /\ y.spec = o.spec
    BY <1>0 DEF Objects
  <2> QED  BY <1>1, <1>3, <2>1, Zenon DEF ReadyPod
<1>4. CASE RemovePod(w)
  <2> DEFINE left(n) == IF n = o.replicas THEN n - 1 ELSE n
             x == [o EXCEPT !.replicas = o.replicas - 1, !.ready = left(o.ready),
                            !.available = left(o.available), !.updated = left(o.updated)]
  <2>1. \A n \in Int : left(n) \in Int
    BY <1>0 DEF Objects
  <2>2. x \in Objects /\ x.spec = o.spec
    <3>1. o.replicas - 1 \in Int /\ o.ready \in Int /\ o.available \in Int /\ o.updated \in Int
      BY <1>0 DEF Objects
    <3>2. left(o.ready) \in Int /\ left(o.available) \in Int /\ left(o.updated) \in Int
      BY <2>1, <3>1
    <3> DEFINE updated(a, b, c, d) ==
                 [o EXCEPT !.replicas = a, !.ready = b, !.available = c, !.updated = d]
    <3>3. \A a, b, c, d \in Int : updated(a, b, c, d) \in Objects /\ updated(a, b, c, d).spec = o.spec
      BY <1>0, UpdateRemoved
    <3> DEFINE a == o.replicas - 1
               b == left(o.ready)
               c == left(o.available)
               d == left(o.updated)
    <3>4. x = updated(a, b, c, d) /\ a \in Int /\ b \in Int /\ c \in Int /\ d \in Int
      BY <3>1, <3>2, Zenon
    <3> HIDE DEF left, x, updated, o, a, b, c, d
    <3>5. updated(a, b, c, d) \in Objects /\ updated(a, b, c, d).spec = o.spec
      BY <3>3, <3>4, Zenon
    <3> QED  BY <3>4, <3>5, Zenon
  <2>3. Became(w, x)
    BY <1>4, Zenon DEF RemovePod
  <2> HIDE DEF x
  <2> QED  BY <1>1, <2>2, <2>3
<1>5. CASE FailPod(w)
  <2> DEFINE c == IF o.available = o.ready THEN o.available - 1 ELSE o.available
             x == [o EXCEPT !.ready = o.ready - 1, !.available = c]
  <2>0. o.ready - 1 \in Int /\ c \in Int
    BY <1>0 DEF Objects
  <2>1. x \in Objects /\ x.spec = o.spec
    <3> HIDE DEF c
    <3> QED  BY <1>0, <2>0, UpdateFailed, Zenon
  <2>2. Became(w, x)
    BY <1>5, Zenon DEF FailPod
  <2> HIDE DEF x
  <2> QED  BY <1>1, <2>1, <2>2
<1>6. CASE Noise(w)
  <2> DEFINE x == [o EXCEPT !.rest = 1 - o.rest]
             y == [o EXCEPT !.metadata = 1 - o.metadata]
  <2>1. x \in Objects /\ x.spec = o.spec /\ y \in Objects /\ y.spec = o.spec
    BY <1>0 DEF Objects
  <2> QED  BY <1>1, <1>6, <2>1, Zenon DEF Noise
<1> QED  BY <1>2, <1>3, <1>4, <1>5, <1>6 DEF Pods

LEMMA HealthStep == HealthInv /\ [Next]_vars => HealthInv'
<1> SUFFICES ASSUME HealthInv, [Next]_vars PROVE HealthInv'
  OBVIOUS
<1>1. CASE UNCHANGED vars
  BY <1>1 DEF HealthInv, vars, pass, Asked, AllReady, WorkloadReady
<1>2. ASSUME NEW w \in Workloads, Pods(w) \/ FailPod(w) \/ Noise(w) PROVE HealthInv'
  BY <1>2, PodsKeep
<1>3. ASSUME NEW w \in Workloads, Observe(w) PROVE HealthInv'
  <2>1. UNCHANGED <<wanted, object, verdict, pc, copy, healthy>>
    BY <1>3 DEF Observe, pass
  <2>2. cached' = [cached EXCEPT ![w] = object[w]]
        /\ queued' = (queued \/ DeploymentReadinessPredicate(cached[w], object[w]))
    BY <1>3 DEF Observe
  <2>3. cached' \in [Workloads -> Objects]
    BY <2>2 DEF HealthInv
  <2>4. CASE queued'
    BY <2>1, <2>2, <2>3, <2>4 DEF HealthInv, Asked
  <2>5. CASE ~queued'
    <3>1. ~queued /\ (WorkloadReady(cached[w]) <=> WorkloadReady(object[w]))
      BY <2>2, <2>5, DroppedIsIdle
    <3>2. \A v \in Workloads : cached'[v] = IF v = w THEN object[w] ELSE cached[v]
      BY <2>2 DEF HealthInv
    <3>3. AllReady' <=> AllReady
      BY <3>1, <3>2 DEF AllReady, WorkloadReady
    <3>4. queued' = FALSE
      BY <2>2, <2>5 DEF DeploymentReadinessPredicate, generationOrMetadataChanged, HealthInv
    <3> QED  BY <2>1, <2>3, <3>1, <3>3, <3>4 DEF HealthInv, Asked
  <2> QED  BY <2>4, <2>5
<1>4. CASE Scale
  <2>1. wanted' \in [Workloads -> Nat]
    BY <1>4, BoundsAssumption DEF Scale, HealthInv
  <2>2. queued' = TRUE /\ UNCHANGED <<object, cached, verdict, pc, copy, healthy>>
    BY <1>4 DEF Scale, pass
  <2> QED  BY <2>1, <2>2 DEF HealthInv, Asked
<1>5. CASE Restart
  BY <1>5 DEF Restart, HealthInv
<1>6. CASE Begin
  BY <1>6 DEF Begin, HealthInv
<1>7. CASE Apply
  <2>1. UNCHANGED <<wanted, cached, verdict, queued, copy, healthy>> /\ pc' = "check"
    BY <1>7 DEF Apply
  <2>2. \A w \in Workloads : object[w] \in Objects /\ Replicas(copy[w]) \in Int
    BY <2>1 DEF HealthInv, Replicas
  <2> DEFINE next(w) == IF object[w].spec = Replicas(copy[w]) THEN object[w]
                        ELSE [object[w] EXCEPT !.spec = Replicas(copy[w]), !.generation = 1 - @]
  <2>3. \A w \in Workloads : next(w) \in Objects /\ next(w).spec = Replicas(copy[w])
    <3> DEFINE applied(o, n) == [o EXCEPT !.spec = n, !.generation = 1 - @]
    <3>1. \A o \in Objects, n \in Int : applied(o, n) \in Objects /\ applied(o, n).spec = n
      BY UpdateApplied
    <3>2. \A w \in Workloads : IF object[w].spec = Replicas(copy[w]) THEN next(w) = object[w]
                               ELSE next(w) = applied(object[w], Replicas(copy[w]))
      BY Zenon
    <3> HIDE DEF next, applied
    <3> QED  BY <2>2, <3>1, <3>2
  <2>4. object' = [w \in Workloads |-> next(w)]
    BY <1>7, Zenon DEF Apply
  <2> HIDE DEF next
  <2>5. object' \in [Workloads -> Objects] /\ Asked(copy)'
    BY <2>1, <2>3, <2>4 DEF Asked
  <2> QED  BY <2>1, <2>5 DEF HealthInv
<1>8. CASE checkDeploymentHealth
  BY <1>8 DEF checkDeploymentHealth, HealthInv, Asked, AllReady, WorkloadReady
<1>9. CASE WriteStatus
  BY <1>9 DEF WriteStatus, HealthInv, Asked, AllReady, WorkloadReady
<1> QED  BY <1>1, <1>2, <1>3, <1>4, <1>5, <1>6, <1>7, <1>8, <1>9 DEF Next, Reconcile

(* With no pass due and every update delivered, the stored SecondaryHealthy*)
(* condition is what the workloads say, for any number of workloads,       *)
(* replicas, scalings, pod failures and restarts: no update that the       *)
(* readiness predicates drop can change what checkDeploymentHealth finds.  *)
THEOREM VerdictHolds == Spec => []VerdictIsCurrent
<1>1. Init => HealthInv
  <2> SUFFICES ASSUME Init PROVE HealthInv
    OBVIOUS
  <2>1. wanted \in [Workloads -> Nat] /\ copy = wanted
    BY BoundsAssumption DEF Init
  <2>2. Absent \in Objects
    BY DEF Absent, Objects
  <2>3. object \in [Workloads -> Objects] /\ cached = object
    BY <2>2 DEF Init
  <2> QED  BY <2>1, <2>3 DEF Init, HealthInv
<1>2. HealthInv => VerdictIsCurrent
  <2> SUFFICES ASSUME HealthInv, Quiet
               PROVE  /\ verdict <=> \A w \in Workloads : WorkloadReady(object[w])
                      /\ (\A w \in Workloads : object[w].replicas = object[w].spec) =>
                           (verdict <=> \A w \in Workloads : object[w].ready = Replicas(wanted[w]))
    BY DEF VerdictIsCurrent
  <2>1. verdict <=> \A w \in Workloads : WorkloadReady(object[w])
    BY DEF HealthInv, Quiet, AllReady
  <2>2. ASSUME \A w \in Workloads : object[w].replicas = object[w].spec, NEW w \in Workloads
        PROVE  WorkloadReady(object[w]) <=> object[w].ready = Replicas(wanted[w])
    <3>1. object[w].replicas = Replicas(wanted[w])
      BY <2>2 DEF HealthInv, Quiet, Asked
    <3>2. Replicas(wanted[w]) > 0
      BY DEF HealthInv, Replicas
    <3> QED  BY <3>1, <3>2 DEF WorkloadReady
  <2> QED  BY <2>1, <2>2
<1> QED  BY <1>1, <1>2, HealthStep, PTL DEF Spec
=============================================================================
