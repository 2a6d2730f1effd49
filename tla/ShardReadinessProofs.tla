------------------------ MODULE ShardReadinessProofs ------------------------
(***************************************************************************)
(* Proofs about ShardReadiness: whatever changes in the cluster, however   *)
(* often the secondary goes away and whichever requests fail, a controller *)
(* at rest has reported Ready, and what Ready and the conditions stand for *)
(* is the case.                                                            *)
(*                                                                         *)
(* The argument follows one pass.  The caches change only in Observe,      *)
(* which queues the shard, and only Start takes it from the queue.  So as  *)
(* long as the shard is not queued, what the pass has read is still in the *)
(* caches, and the caches agree with the cluster except for the objects in *)
(* moved.                                                                  *)
(***************************************************************************)
EXTENDS ShardReadiness, TLAPS

(* The shapes of the variables that the argument needs.                    *)
AllStates ==
  {"absent", "unready", "ready", "unavailable", "available", "new", "False", "True"} \cup CRDVersions
Shape ==
  /\ world \in [Watched -> AllStates] /\ cache \in [Watched -> AllStates]
  /\ secondary \in [CRDs -> AllStates]
  /\ moved \in SUBSET Watched /\ todo \in SUBSET CRDs
  /\ status \in Conditions /\ copy \in Conditions
  /\ queued \in BOOLEAN /\ failed \in BOOLEAN /\ pc \in PCs
  /\ outages \in Nat /\ faults \in Nat
  /\ pc = "idle" => ~failed

(* What the informers have not delivered is on its way.                    *)
Delivered == \A x \in Watched \ moved : cache[x] = world[x]

(* The workloads and APIServices have been created.                        *)
Applied == \A x \in Workloads \cup APIServices : cache[x] # "absent" \/ x \in moved

(* The condition of the CRD conflicts is that of the cached CRDs.          *)
Listed == {c \in CRDs : cache[c] # "absent"}
Detected(c) ==
  \/ c.crdConflict = "CRDSyncFailed"
  \/ c.crdConflict = "NoConflicts" /\ Listed = {}
  \/ /\ c.crdConflict = "CRDsSyncedToSecondary" /\ Listed # {}
     /\ \A d \in Listed : secondary[d] = cache[d]
Copied ==
  /\ Listed # {} /\ todo # {}
  /\ ~failed => \A d \in Listed \ todo : secondary[d] = cache[d]

(* The workloads were found ready.                                         *)
Up(c) == c.secondaryHealthy = "True" /\ \A w \in Workloads : cache[w] = "ready"

(* No request has failed and the secondary was always there.               *)
Calm == accepting /\ outages = 0 /\ faults = 0
NamespaceSyncThere == cache["namespaceSync"] # "absent" \/ "namespaceSync" \in moved
Aggregated(c) ==
  /\ cache["namespaceSync"] \in {"True", "False"} => c.namespaceSync = cache["namespaceSync"]
  /\ cache["namespaceSync"] # "absent" /\ cache["webhookSync"] \in {"True", "False"} =>
       c.webhookSync = cache["webhookSync"]

(* The pass that runs, and the one that came to rest.                      *)
Running ==
  pc # "idle" /\ ~queued =>
    /\ Applied
    /\ pc = "sync" => Copied
    /\ pc # "sync" => Detected(copy)
    /\ pc \in {"namespaceSync", "webhookSync", "aggregate", "gate"} => Up(copy)
    /\ Calm => pc # "gate"
    /\ Calm /\ pc \in {"webhookSync", "aggregate"} => NamespaceSyncThere
AtRest ==
  pc = "idle" /\ ~queued =>
    /\ Applied /\ Detected(status) /\ Up(status)
    /\ status.phase = "Ready" /\ status.crdConflict # "CRDSyncFailed"
    /\ Listed = {} => status.apiServicesRegistered = "unset"
    /\ Listed # {} => CheckAvailability /\ status.apiServicesRegistered = "True"
    /\ Calm => NamespaceSyncThere /\ Aggregated(status)

ReadinessInv == Shape /\ Delivered /\ Running /\ AtRest
-----------------------------------------------------------------------------
LEMMA StatesTyped == \A x \in Watched : States(x) \subseteq AllStates
  BY DEF Watched, States, AllStates, CRDVersions

(* What a step writes into the conditions.  The lemmas name the sets of    *)
(* values, so that the provers need not look into them.                    *)
Phases == {"", "Provisioning", "Ready", "Error"}
Conflicts == {"unset", "NoConflicts", "CRDSyncFailed", "CRDsSyncedToSecondary"}
Known == {"unset", "False", "True"}
WithHealth(c, v, h, r) == [c EXCEPT !.phase = v, !.secondaryHealthy = h, !.apiServicesRegistered = r]
WithSubCRs(c, n, w) == [c EXCEPT !.namespaceSync = n, !.webhookSync = w]
WithGate(c, v, r) == [c EXCEPT !.phase = v, !.apiServicesRegistered = r]

LEMMA ConditionsAre ==
  Conditions = [phase: Phases, crdConflict: Conflicts, secondaryHealthy: Known,
                apiServicesRegistered: Known, namespaceSync: Known, webhookSync: Known]
  BY Zenon DEF Conditions, Phases, Conflicts, Known

LEMMA PhaseWritten ==
  ASSUME NEW c \in Conditions, NEW v \in Phases
  PROVE  [c EXCEPT !.phase = v] \in Conditions
  BY ConditionsAre

LEMMA InitPhaseTyped ==
  ASSUME status \in Conditions
  PROVE  InitPhase \in Conditions
<1> DEFINE v == IF status.phase = "" THEN "Provisioning" ELSE status.phase
<1>1. status.phase \in Phases
  BY ConditionsAre
<1>2. v \in Phases
  BY <1>1, Zenon DEF Phases
<1>3. InitPhase = [status EXCEPT !.phase = v]
  BY Zenon DEF InitPhase
<1> HIDE DEF v
<1> QED  BY <1>2, <1>3, PhaseWritten, Zenon

LEMMA ConflictWritten ==
  ASSUME NEW c \in Conditions, NEW v \in Conflicts
  PROVE  [c EXCEPT !.crdConflict = v] \in Conditions /\ [c EXCEPT !.crdConflict = v].crdConflict = v
  BY ConditionsAre

LEMMA HealthWritten ==
  ASSUME NEW c \in Conditions, NEW v \in Phases, NEW h \in Known, NEW r \in Known
  PROVE  WithHealth(c, v, h, r) \in Conditions /\ WithHealth(c, v, h, r).phase = v
  BY ConditionsAre DEF WithHealth

LEMMA SubCRsWritten ==
  ASSUME NEW c \in Conditions, NEW n \in Known, NEW w \in Known
  PROVE  LET x == WithSubCRs(c, n, w)
         IN  /\ x \in Conditions /\ x.namespaceSync = n /\ x.webhookSync = w
             /\ x.crdConflict = c.crdConflict /\ x.secondaryHealthy = c.secondaryHealthy
  BY ConditionsAre DEF WithSubCRs

LEMMA GateWritten ==
  ASSUME NEW c \in Conditions, NEW v \in Phases, NEW r \in Known
  PROVE  LET x == WithGate(c, v, r)
         IN  /\ x \in Conditions /\ x.phase = v /\ x.apiServicesRegistered = r
             /\ x.crdConflict = c.crdConflict /\ x.secondaryHealthy = c.secondaryHealthy
             /\ x.namespaceSync = c.namespaceSync /\ x.webhookSync = c.webhookSync
  BY ConditionsAre DEF WithGate

LEMMA InitHolds == Init => ReadinessInv
<1> SUFFICES ASSUME Init PROVE ReadinessInv
  OBVIOUS
<1>1. NoConditions \in Conditions
  BY DEF NoConditions, Conditions
<1>2. world \in [Watched -> AllStates] /\ cache \in [Watched -> AllStates]
  BY DEF Init, AllStates, CRDVersions
<1>3. secondary \in [CRDs -> AllStates]
  BY DEF Init, AllStates
<1>4. Shape
  BY <1>1, <1>2, <1>3 DEF Init, Shape, PCs
<1> QED
  BY <1>4 DEF Init, ReadinessInv, Delivered, Running, AtRest

(* The world changes; what the pass has read is not the world.             *)
LEMMA ChangeHolds ==
  ASSUME ReadinessInv, NEW x \in Watched, Change(x)
  PROVE  ReadinessInv'
<1>1. Shape'
  BY StatesTyped DEF ReadinessInv, Shape, Change, worker
<1>2. Delivered'
  BY DEF ReadinessInv, Shape, Delivered, Change
<1>3. moved \subseteq moved' /\ UNCHANGED <<cache, accepting, secondary, status, queued, worker,
                                           outages, faults>>
  BY DEF Change
<1>4. Running' /\ AtRest'
  BY <1>3 DEF ReadinessInv, Running, AtRest, Applied, Copied, Detected, Listed, Up, Calm,
              NamespaceSyncThere, Aggregated, CheckAvailability, worker
<1> QED BY <1>1, <1>2, <1>4 DEF ReadinessInv

LEMMA FlipHolds == ReadinessInv /\ Flip => ReadinessInv'
<1> SUFFICES ASSUME ReadinessInv, Flip PROVE ReadinessInv'
  OBVIOUS
<1>1. Shape' /\ Delivered'
  BY DEF ReadinessInv, Shape, Delivered, Flip, worker, watches
<1>2. ~Calm' /\ UNCHANGED <<cache, moved, secondary, status, queued, worker>>
  BY DEF ReadinessInv, Shape, Flip, Calm, watches
<1>3. Running' /\ AtRest'
  BY <1>2 DEF ReadinessInv, Running, AtRest, Applied, Copied, Detected, Listed, Up,
              NamespaceSyncThere, Aggregated, CheckAvailability, worker
<1> QED BY <1>1, <1>3 DEF ReadinessInv

(* A cache changes, and the shard is queued.                               *)
LEMMA ObserveHolds ==
  ASSUME ReadinessInv, NEW x \in Watched, Observe(x)
  PROVE  ReadinessInv'
  BY DEF ReadinessInv, Shape, Delivered, Running, AtRest, Observe, worker, budgets

(* Where a pass begins: it creates what is missing and lists the CRDs.     *)
LEMMA ProvisionHolds ==
  ASSUME Shape, Delivered, NEW made \in SUBSET Missing, Provision(made)
  PROVE  /\ world' \in [Watched -> AllStates] /\ moved' \in SUBSET Watched
         /\ Delivered'
         /\ \A x \in Workloads \cup APIServices : x \in Missing => x \in made \/ x \in Missing'
  BY DEF Shape, Delivered, Provision, Missing, Watched, AllStates

LEMMA StartHolds == ReadinessInv /\ Start => ReadinessInv'
<1> SUFFICES ASSUME ReadinessInv, Start PROVE ReadinessInv'
  OBVIOUS
<1>1. Provision(Missing) /\ Shape /\ Delivered
  BY DEF ReadinessInv, Start
<1>2. world' \in [Watched -> AllStates] /\ moved' \in SUBSET Watched /\ Delivered'
  BY <1>1, ProvisionHolds
<1>3. InitPhase \in Conditions
  BY <1>1, InitPhaseTyped DEF Shape
<1>4. status' \in Conditions /\ copy' \in Conditions /\ (pc' = "health" => copy'.crdConflict = "NoConflicts")
  <2>1. status' \in Conditions
    BY <1>3 DEF Start
  <2>2. LET c == [status' EXCEPT !.crdConflict = "NoConflicts"]
        IN  c \in Conditions /\ c.crdConflict = "NoConflicts"
    BY <2>1, ConflictWritten DEF Conflicts
  <2> QED BY <2>1, <2>2 DEF Start
<1>5. Shape'
  BY <1>1, <1>2, <1>4 DEF Shape, Start, Provision, PCs, budgets
<1>6. Applied'
  BY <1>1 DEF Applied, Provision, Missing, Delivered, Shape, Watched
<1>7. pc' = "sync" => Copied'
  BY <1>1 DEF Start, Provision, Copied, Listed, Shape
<1>8. pc' # "sync" => Detected(copy)'
  BY <1>1, <1>4 DEF Start, Provision, Detected, Listed
<1>9. pc' \in {"sync", "health"}
  BY DEF Start
<1> QED
  BY <1>2, <1>5, <1>6, <1>7, <1>8, <1>9 DEF ReadinessInv, Running, AtRest

LEMMA StartFailedHolds == ReadinessInv /\ StartFailed => ReadinessInv'
<1> SUFFICES ASSUME ReadinessInv, StartFailed PROVE ReadinessInv'
  OBVIOUS
<1>1. PICK made \in SUBSET Missing : Provision(made)
  BY DEF StartFailed
<1>2. world' \in [Watched -> AllStates] /\ moved' \in SUBSET Watched /\ Delivered'
  BY <1>1, ProvisionHolds DEF ReadinessInv
<1>3. status' \in Conditions
  <2>1. status \in Conditions
    BY DEF ReadinessInv, Shape
  <2>2. [status EXCEPT !.phase = "Error"] \in Conditions
    BY <2>1, PhaseWritten DEF Phases
  <2>3. status' \in {status, InitPhase, [status EXCEPT !.phase = "Error"]}
    BY DEF StartFailed
  <2> QED  BY <2>1, <2>2, <2>3, InitPhaseTyped, Zenon
<1>4. Shape'
  BY <1>1, <1>2, <1>3 DEF ReadinessInv, Shape, StartFailed, Provision, Spend, worker
<1>5. queued' /\ pc' = "idle"
  BY DEF StartFailed, worker
<1> QED
  BY <1>2, <1>4, <1>5 DEF ReadinessInv, Running, AtRest

LEMMA SyncCRDHolds ==
  ASSUME ReadinessInv, NEW c \in CRDs, NEW o \in Outcomes, SyncCRD(c, o)
  PROVE  ReadinessInv'
<1>1. Shape'
  <2>1. copy' \in Conditions
    <3> DEFINE v == IF failed' THEN "CRDSyncFailed" ELSE "CRDsSyncedToSecondary"
    <3>1. copy \in Conditions
      BY DEF ReadinessInv, Shape
    <3>2. v \in Conflicts
      BY DEF Conflicts
    <3>3. copy' = copy \/ copy' = [copy EXCEPT !.crdConflict = v]
      BY Zenon DEF SyncCRD
    <3> HIDE DEF v
    <3> QED  BY <3>1, <3>2, <3>3, ConflictWritten
  <2>2. secondary' \in [CRDs -> AllStates]
    BY DEF ReadinessInv, Shape, SyncCRD, Watched
  <2> QED
    BY <2>1, <2>2 DEF ReadinessInv, Shape, SyncCRD, Spend, Goto, PCs, watches
<1>2. Delivered'
  BY DEF ReadinessInv, Delivered, SyncCRD, watches
<1>3. ASSUME ~queued'
      PROVE  Applied' /\ (pc' = "sync" => Copied') /\ (pc' = "health" => Detected(copy)')
  <2>1. ~queued /\ pc = "sync" /\ Applied /\ Copied /\ UNCHANGED <<cache, moved>>
    BY <1>3 DEF ReadinessInv, Running, SyncCRD, Goto, watches
  <2>2. Applied' /\ Listed' = Listed
    BY <2>1 DEF Applied, Listed
  <2>3. ~failed' => \A d \in Listed \ todo' : secondary'[d] = cache'[d]
    BY <2>1 DEF ReadinessInv, Shape, SyncCRD, Copied, Listed
  <2>4. pc' = "sync" => Copied'
    BY <2>1, <2>2, <2>3 DEF SyncCRD, Copied, Goto
  <2>5. pc' = "health" => Detected(copy)'
    <3> SUFFICES ASSUME pc' = "health" PROVE Detected(copy)'
      OBVIOUS
    <3>1. todo' = {} /\ copy'.crdConflict = IF failed' THEN "CRDSyncFailed" ELSE "CRDsSyncedToSecondary"
      <4> DEFINE v == IF failed' THEN "CRDSyncFailed" ELSE "CRDsSyncedToSecondary"
      <4>1. copy \in Conditions
        BY DEF ReadinessInv, Shape
      <4>2. v \in Conflicts
        BY DEF Conflicts
      <4>3. todo' = {} /\ copy' = [copy EXCEPT !.crdConflict = v]
        BY DEF SyncCRD, Goto
      <4> HIDE DEF v
      <4>4. todo' = {} /\ copy'.crdConflict = v
        BY <4>1, <4>2, <4>3, ConflictWritten
      <4> QED  BY <4>4 DEF v
    <3> QED
      BY <2>1, <2>2, <2>3, <3>1 DEF Detected, Copied, Listed
  <2> QED
    BY <2>2, <2>4, <2>5
<1>4. pc' \in {"sync", "health"}
  BY DEF SyncCRD, Goto
<1> QED
  BY <1>1, <1>2, <1>3, <1>4 DEF ReadinessInv, Running, AtRest

(* A pass that ends and is to be repeated leaves nothing to show.          *)
LEMMA ReturnAgain ==
  ASSUME Shape, Delivered, UNCHANGED <<world, cache, moved, secondary, outages>>,
         status' \in Conditions, faults' \in Nat, Return(TRUE)
  PROVE  ReadinessInv'
<1>1. NoConditions \in Conditions
  BY DEF NoConditions, Conditions
<1>2. Shape'
  BY <1>1 DEF Shape, Return, PCs
<1> QED
  BY <1>2 DEF ReadinessInv, Delivered, Running, AtRest, Return

LEMMA HealthErrorHolds == ReadinessInv /\ HealthError => ReadinessInv'
  BY ReturnAgain DEF ReadinessInv, Shape, HealthError, watches, budgets

LEMMA HealthBadHolds ==
  ASSUME ReadinessInv, NEW o \in Outcomes, HealthBad(o)
  PROVE  ReadinessInv'
<1>1. Unhealthy(copy) \in Conditions /\ Unhealthy(copy).phase = "Provisioning"
  <2> DEFINE r == IF copy.crdConflict = "CRDsSyncedToSecondary" THEN "False" ELSE copy.apiServicesRegistered
  <2>1. copy \in Conditions
    BY DEF ReadinessInv, Shape
  <2>2. copy.apiServicesRegistered \in Known
    BY <2>1, ConditionsAre
  <2>3. "Provisioning" \in Phases /\ "False" \in Known /\ r \in Known
    BY <2>2 DEF Phases, Known
  <2>4. Unhealthy(copy) = WithHealth(copy, "Provisioning", "False", r)
    BY Zenon DEF Unhealthy, WithHealth
  <2> HIDE DEF r
  <2>5. LET x == WithHealth(copy, "Provisioning", "False", r)
        IN  x \in Conditions /\ x.phase = "Provisioning"
    BY <2>1, <2>3, HealthWritten
  <2> QED  BY <2>4, <2>5
<1>2. Return(TRUE)
  BY <1>1 DEF HealthBad, WriteStatus, Return
<1>3. status' \in Conditions /\ faults' \in Nat /\ outages' = outages
  BY <1>1 DEF ReadinessInv, Shape, HealthBad, WriteStatus, Spend
<1> QED
  BY <1>2, <1>3, ReturnAgain DEF ReadinessInv, HealthBad, watches

LEMMA HealthGoodHolds ==
  ASSUME ReadinessInv, NEW o \in Outcomes, HealthGood(o)
  PROVE  ReadinessInv'
<1>1. /\ copy' \in Conditions /\ copy'.secondaryHealthy = "True"
      /\ copy'.crdConflict = copy.crdConflict
  <2>1. copy \in Conditions /\ copy' = [copy EXCEPT !.secondaryHealthy = "True"]
    BY DEF ReadinessInv, Shape, HealthGood
  <2>2. "True" \in Known
    BY DEF Known
  <2> QED  BY <2>1, <2>2, ConditionsAre
<1>2. pc' \in {"namespaceSync", "gate"}
  BY DEF HealthGood, Goto
<1>3. Shape' /\ Delivered'
  BY <1>1, <1>2 DEF ReadinessInv, Shape, Delivered, HealthGood, Spend, Goto, PCs, watches
<1>4. Calm' => pc' # "gate"
  BY DEF ReadinessInv, Shape, Calm, HealthGood, VerifySecondaryAuth, Spend, Goto
<1>5. Up(copy)'
  BY <1>1 DEF Up, HealthGood, watches
<1>6. ~queued' => Applied' /\ Detected(copy)'
  BY <1>1 DEF ReadinessInv, Running, Applied, Detected, Listed, HealthGood, Goto, watches
<1> QED
  BY <1>2, <1>3, <1>4, <1>5, <1>6 DEF ReadinessInv, Running, AtRest

LEMMA ReconcileSubCRHolds ==
  ASSUME ReadinessInv, NEW k \in SubCRs, NEW o \in Outcomes, ReconcileSubCR(k, o)
  PROVE  ReadinessInv'
<1>1. /\ pc \in {"namespaceSync", "webhookSync"} /\ pc' \in {"webhookSync", "aggregate"}
      /\ pc' = "webhookSync" <=> k = "namespaceSync"
      /\ pc = k
      /\ UNCHANGED <<cache, accepting, secondary, copy, todo, failed, status, queued, outages>>
  BY DEF ReconcileSubCR, SubCRs, Goto, Spend
<1>2. moved \subseteq moved' /\ k \in Watched
  BY DEF ReconcileSubCR, Watched
<1>3. Shape'
  BY <1>1, <1>2 DEF ReadinessInv, Shape, ReconcileSubCR, Spend, PCs, AllStates
<1>4. Delivered'
  BY <1>2 DEF ReadinessInv, Shape, Delivered, ReconcileSubCR
<1>5. Calm' => Calm /\ o = "ok"
  BY <1>1 DEF ReadinessInv, Shape, Calm, ReconcileSubCR, Spend
<1>6. Calm' /\ k = "namespaceSync" => NamespaceSyncThere'
  BY <1>1, <1>2, <1>5 DEF ReadinessInv, Delivered, NamespaceSyncThere, ReconcileSubCR
<1>7. NamespaceSyncThere => NamespaceSyncThere'
  BY <1>1, <1>2 DEF NamespaceSyncThere
<1>8. ~queued' => Applied' /\ Detected(copy)' /\ Up(copy)'
  BY <1>1, <1>2 DEF ReadinessInv, Running, Applied, Detected, Listed, Up
<1>9. ~queued' /\ Calm' => NamespaceSyncThere'
  BY <1>1, <1>5, <1>6, <1>7 DEF ReadinessInv, Running, SubCRs
<1> QED
  BY <1>1, <1>3, <1>4, <1>8, <1>9 DEF ReadinessInv, Running, AtRest

LEMMA FinishHolds ==
  ASSUME ReadinessInv, NEW o \in Outcomes, Finish(o)
  PROVE  ReadinessInv'
<1> DEFINE a == IF pc = "aggregate" THEN AggregateSubCRStatus(copy) ELSE copy
           c == CheckAPIServiceAvailability(a)
<1>1. WriteStatus(c, o) /\ pc \in {"aggregate", "gate"} /\ UNCHANGED <<watches, accepting, secondary>>
  BY DEF Finish
<1>2. copy \in Conditions
  BY DEF ReadinessInv, Shape
<1>3. /\ a \in Conditions
      /\ a.crdConflict = copy.crdConflict /\ a.secondaryHealthy = copy.secondaryHealthy
      /\ pc = "aggregate" => Aggregated(a)
  <2> DEFINE n == IF cache["namespaceSync"] \in {"True", "False"} THEN cache["namespaceSync"]
                  ELSE copy.namespaceSync
             w == IF cache["namespaceSync"] = "absent" THEN copy.webhookSync
                  ELSE IF cache["webhookSync"] \in {"True", "False"} THEN cache["webhookSync"]
                  ELSE copy.webhookSync
  <2>1. AggregateSubCRStatus(copy) = WithSubCRs(copy, n, w)
    BY Zenon DEF AggregateSubCRStatus, WithSubCRs
  <2>2. copy.namespaceSync \in Known /\ copy.webhookSync \in Known
    BY <1>2, ConditionsAre
  <2>3. n \in Known /\ w \in Known
    BY <2>2, Zenon DEF Known
  <2>4. /\ cache["namespaceSync"] \in {"True", "False"} => n = cache["namespaceSync"]
        /\ cache["namespaceSync"] # "absent" /\ cache["webhookSync"] \in {"True", "False"} =>
             w = cache["webhookSync"]
    OBVIOUS
  <2> HIDE DEF n, w
  <2>5. LET x == AggregateSubCRStatus(copy)
        IN  /\ x \in Conditions /\ x.namespaceSync = n /\ x.webhookSync = w
            /\ x.crdConflict = copy.crdConflict /\ x.secondaryHealthy = copy.secondaryHealthy
    <3>1. LET x == WithSubCRs(copy, n, w)
          IN  /\ x \in Conditions /\ x.namespaceSync = n /\ x.webhookSync = w
              /\ x.crdConflict = copy.crdConflict /\ x.secondaryHealthy = copy.secondaryHealthy
      BY <1>2, <2>3, SubCRsWritten
    <3> QED  BY <2>1, <3>1
  <2>6. Aggregated(AggregateSubCRStatus(copy))
    BY <2>4, <2>5, Zenon DEF Aggregated
  <2> QED  BY <1>2, <2>5, <2>6, Zenon
<1> HIDE DEF a
<1>4. /\ c \in Conditions
      /\ c.crdConflict = a.crdConflict /\ c.secondaryHealthy = a.secondaryHealthy
      /\ c.namespaceSync = a.namespaceSync /\ c.webhookSync = a.webhookSync
      /\ c.phase = "Ready" =>
           /\ c.crdConflict # "CRDSyncFailed"
           /\ c.crdConflict = "CRDsSyncedToSecondary" =>
                CheckAvailability /\ c.apiServicesRegistered = "True"
           /\ c.crdConflict = "NoConflicts" => c.apiServicesRegistered = "unset"
  <2> DEFINE open == a.crdConflict # "CRDSyncFailed"
                     /\ (a.crdConflict = "CRDsSyncedToSecondary" => CheckAvailability)
             v == IF open THEN "Ready" ELSE "Provisioning"
             r == CASE a.crdConflict = "CRDSyncFailed" -> a.apiServicesRegistered
                    [] a.crdConflict = "CRDsSyncedToSecondary" -> IF open THEN "True" ELSE "False"
                    [] OTHER -> "unset"
  <2>1. c = WithGate(a, v, r)
    BY Zenon DEF CheckAPIServiceAvailability, WithGate
  <2>2. a.apiServicesRegistered \in Known
    BY <1>3, ConditionsAre
  <2>3. v \in Phases /\ r \in Known
    BY <2>2 DEF Phases, Known
  <2>4. v = "Ready" =>
          /\ a.crdConflict # "CRDSyncFailed"
          /\ a.crdConflict = "CRDsSyncedToSecondary" => CheckAvailability /\ r = "True"
          /\ a.crdConflict = "NoConflicts" => r = "unset"
    OBVIOUS
  <2> HIDE DEF c, v, r
  <2>5. /\ c \in Conditions /\ c.phase = v /\ c.apiServicesRegistered = r
        /\ c.crdConflict = a.crdConflict /\ c.secondaryHealthy = a.secondaryHealthy
        /\ c.namespaceSync = a.namespaceSync /\ c.webhookSync = a.webhookSync
    <3>1. a \in Conditions
      BY <1>3
    <3>2. LET x == WithGate(a, v, r)
          IN  /\ x \in Conditions /\ x.phase = v /\ x.apiServicesRegistered = r
              /\ x.crdConflict = a.crdConflict /\ x.secondaryHealthy = a.secondaryHealthy
              /\ x.namespaceSync = a.namespaceSync /\ x.webhookSync = a.webhookSync
      BY <2>3, <3>1, GateWritten
    <3> QED  BY <2>1, <3>2
  <2> QED  BY <2>4, <2>5, Zenon
<1> HIDE DEF c
<1>5. status' \in Conditions /\ faults' \in Nat /\ outages' = outages
  BY <1>1, <1>4 DEF ReadinessInv, Shape, WriteStatus, Spend
<1>6. CASE queued'
  BY <1>1, <1>5, <1>6, ReturnAgain DEF ReadinessInv, WriteStatus, Return, watches
<1>7. CASE ~queued'
  <2>1. ~queued /\ c.phase = "Ready" /\ o = "ok" /\ status' = c /\ pc' = "idle"
    BY <1>1, <1>7 DEF WriteStatus, Return
  <2>2. /\ Applied /\ Detected(copy) /\ Up(copy)
        /\ Calm => pc = "aggregate" /\ NamespaceSyncThere
    BY <1>1, <2>1 DEF ReadinessInv, Running
  <2>3. NoConditions \in Conditions
    BY DEF NoConditions, Conditions
  <2>4. Shape' /\ Delivered'
    BY <1>1, <1>5, <2>3 DEF ReadinessInv, Shape, Delivered, WriteStatus, Return, PCs, watches
  <2>5. Calm' => Calm
    BY <1>1, <2>1 DEF Calm, WriteStatus, Spend
  <2>6. Applied' /\ Detected(status)' /\ Up(status)'
    BY <1>1, <1>3, <1>4, <2>1, <2>2 DEF Applied, Detected, Listed, Up, watches
  <2>7. /\ Listed' = {} => status'.apiServicesRegistered = "unset"
        /\ Listed' # {} => CheckAvailability' /\ status'.apiServicesRegistered = "True"
    BY <1>1, <1>3, <1>4, <2>1, <2>2 DEF Detected, Listed, CheckAvailability, watches
  <2>8. Calm' => NamespaceSyncThere' /\ Aggregated(status)'
    BY <1>1, <1>3, <1>4, <2>1, <2>2, <2>5 DEF NamespaceSyncThere, Aggregated, watches
  <2> QED
    BY <1>4, <2>1, <2>4, <2>6, <2>7, <2>8 DEF ReadinessInv, Running, AtRest
<1> QED
  BY <1>6, <1>7

LEMMA StepHolds == ReadinessInv /\ [Next]_vars => ReadinessInv'
<1> SUFFICES ASSUME ReadinessInv, [Next]_vars PROVE ReadinessInv'
  OBVIOUS
<1>1. CASE UNCHANGED vars
  <2>1. UNCHANGED <<world, cache, moved, accepting, secondary, status, queued, pc, copy, todo, failed,
                    outages, faults>>
    BY <1>1, Zenon DEF vars, watches, worker, budgets
  <2>2. Shape' /\ Delivered'
    BY <2>1, Zenon DEF ReadinessInv, Shape, Delivered
  <2>3. /\ Applied' = Applied /\ Listed' = Listed /\ Copied' = Copied /\ Calm' = Calm
        /\ Detected(copy)' = Detected(copy) /\ Up(copy)' = Up(copy)
        /\ NamespaceSyncThere' = NamespaceSyncThere
    BY <2>1, Zenon DEF Applied, Listed, Copied, Calm, Detected, Up, NamespaceSyncThere
  <2>4. /\ Detected(status)' = Detected(status) /\ Up(status)' = Up(status)
        /\ Aggregated(status)' = Aggregated(status) /\ CheckAvailability' = CheckAvailability
    BY <2>1, Zenon DEF Listed, Detected, Up, Aggregated, CheckAvailability
  <2>5. Running'
    BY <2>1, <2>3, Zenon DEF ReadinessInv, Running
  <2>6. AtRest'
    BY <2>1, <2>3, <2>4, Zenon DEF ReadinessInv, AtRest
  <2> QED  BY <2>2, <2>5, <2>6, Zenon DEF ReadinessInv
<1>2. CASE \E x \in Watched : Change(x) \/ Observe(x)
  BY <1>2, ChangeHolds, ObserveHolds
<1>3. CASE Flip
  BY <1>3, FlipHolds
<1>4. CASE Progress
  BY <1>4, StartHolds, StartFailedHolds, HealthErrorHolds, SyncCRDHolds, ReconcileSubCRHolds,
     HealthBadHolds, HealthGoodHolds, FinishHolds DEF Progress
<1> QED
  BY <1>1, <1>2, <1>3, <1>4 DEF Next
-----------------------------------------------------------------------------
(* Ready is true (updateHealthStatus, checkAPIServiceAvailability): for    *)
(* any workloads, CRDs and APIServices, when no pass runs or is due and no *)
(* watch has anything to deliver, the shard is Ready and serves.           *)
THEOREM ReadyServes == Spec => []QuietMeansServing
<1>1. ReadinessInv => QuietMeansServing
  <2> SUFFICES ASSUME ReadinessInv, Quiet PROVE status.phase = "Ready" /\ Serving
    BY DEF QuietMeansServing
  <2>1. /\ \A x \in Watched : cache[x] = world[x]
        /\ Workloads \cup APIServices \cup CRDs \subseteq Watched
    BY DEF ReadinessInv, Delivered, Quiet, Watched
  <2>2. Applied /\ Detected(status) /\ Up(status) /\ status.phase = "Ready"
        /\ status.crdConflict # "CRDSyncFailed" /\ (Listed # {} => CheckAvailability)
    BY DEF ReadinessInv, AtRest, Quiet
  <2>3. Conflicting = Listed
    BY <2>1 DEF Conflicting, Listed
  <2>4. \A x \in Workloads \cup APIServices : world[x] # "absent"
    BY <2>1, <2>2 DEF Applied, Quiet
  <2>5. Conflicting # {} => APIServices # {} /\ \A n \in APIServices : world[n] = "available"
    BY <2>1, <2>2, <2>3, <2>4 DEF CheckAvailability
  <2>6. Conflicting # {} => \A d \in Conflicting : secondary[d] = world[d]
    BY <2>1, <2>2, <2>3 DEF Detected, Listed
  <2> QED
    BY <2>1, <2>2, <2>4, <2>5, <2>6 DEF Serving, Up
<1> QED
  BY <1>1, InitHolds, StepHolds, PTL DEF Spec

(* The conditions are true (reconcileCRDConflicts, updateHealthStatus,     *)
(* aggregateSubCRStatus): at rest no condition is left from an earlier     *)
(* pass, and those of the sub-CRs are what they report unless a request    *)
(* failed or the secondary was away.                                       *)
THEOREM ConditionsHold == Spec => []ConditionsAgree
<1>1. ReadinessInv => ConditionsAgree
  <2> SUFFICES ASSUME ReadinessInv, Quiet PROVE ConditionsAgree
    BY DEF ConditionsAgree
  <2>1. /\ \A x \in Watched : cache[x] = world[x]
        /\ SubCRs \cup CRDs \subseteq Watched /\ moved = {}
    BY DEF ReadinessInv, Delivered, Quiet, Watched
  <2>2. AtRest /\ pc = "idle" /\ ~queued
    BY DEF ReadinessInv, Quiet
  <2>3. Conflicting = Listed
    BY <2>1 DEF Conflicting, Listed
  <2>4. /\ status.secondaryHealthy = "True"
        /\ status.crdConflict = IF Conflicting = {} THEN "NoConflicts" ELSE "CRDsSyncedToSecondary"
        /\ status.apiServicesRegistered = IF Conflicting = {} THEN "unset" ELSE "True"
    BY <2>2, <2>3 DEF AtRest, Detected, Up
  <2>5. ASSUME Calm PROVE \A k \in SubCRs : Reported(k)
    BY <2>1, <2>2, <2>5 DEF AtRest, NamespaceSyncThere, Aggregated, Reported, SubCRs
  <2> QED
    BY <2>4, <2>5 DEF ConditionsAgree, Calm
<1> QED
  BY <1>1, InitHolds, StepHolds, PTL DEF Spec
=============================================================================
