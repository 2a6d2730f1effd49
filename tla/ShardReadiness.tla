--------------------------- MODULE ShardReadiness ---------------------------
(***************************************************************************)
(* The second half of the APIShard controller's Reconcile: how a pass,     *)
(* once everything is applied, decides on the phase and the conditions of  *)
(* the shard.  reconcileCRDConflicts copies CRDs to the secondary,         *)
(* updateHealthStatus looks at the workloads, creates the sub-CRs and      *)
(* gates Ready on the APIServices.                                         *)
(*                                                                         *)
(* What the pass looks at is changed by others at any time and reaches the *)
(* controller through the watches of SetupWithManager, except for whether  *)
(* the secondary accepts requests, which no watch reports.  Reads of the   *)
(* informer caches lag but do not fail.                                    *)
(***************************************************************************)
EXTENDS Naturals, FiniteSets

CONSTANTS
  Workloads,    \* the Deployments, and the StatefulSet of in-cluster storage
  CRDs,         \* CRDs whose group is one of the shard's API groups
  APIServices,  \* the APIServices the shard registers
  MaxChanges,   \* bound: changes in the cluster
  MaxOutages,   \* bound: times the secondary starts or stops accepting requests
  MaxFaults     \* bound: failed requests

SubCRs == {"namespaceSync", "webhookSync"}

ASSUME DisjointAssumption ==
  /\ Workloads \cap CRDs = {} /\ Workloads \cap APIServices = {}
  /\ CRDs \cap APIServices = {}
  /\ SubCRs \cap (Workloads \cup CRDs \cup APIServices) = {}
ASSUME CountsAssumption == MaxChanges \in Nat /\ MaxOutages \in Nat /\ MaxFaults \in Nat

VARIABLES
  world,      \* state of every watched object, as the API server has it
  cache,      \* the same, as the informers have it
  moved,      \* objects with a change that the informers have not delivered
  accepting,  \* the secondary accepts the admin credentials
  secondary,  \* version of each CRD on the secondary
  status,     \* phase and conditions in the stored APIShard
  queued,     \* the shard is in the workqueue, or will be after RequeueAfter
  pc,         \* the next step of the running Reconcile, "idle" if none runs
  copy,       \* its local copy of the status
  todo,       \* conflicting CRDs still to be copied
  failed,     \* some CRD of this pass could not be copied
  changes, outages, faults

worker == <<pc, copy, todo, failed>>
budgets == <<changes, outages, faults>>
watches == <<world, cache, moved>>
vars == <<watches, accepting, secondary, status, queued, worker, budgets>>
-----------------------------------------------------------------------------
(* What the controller watches, and the states it tells apart.  A sub-CR   *)
(* is "new" until its controller has set a Ready condition.                *)
Watched == Workloads \cup CRDs \cup APIServices \cup SubCRs

CRDVersions == {"v1", "v2"}
States(x) ==
  CASE x \in Workloads -> {"absent", "unready", "ready"}
    [] x \in CRDs -> {"absent"} \cup CRDVersions
    [] x \in APIServices -> {"absent", "unavailable", "available"}
    [] x \in SubCRs -> {"absent", "new", "False", "True"}

Conditions == [phase: {"", "Provisioning", "Ready", "Error"},
               crdConflict: {"unset", "NoConflicts", "CRDSyncFailed", "CRDsSyncedToSecondary"},
               secondaryHealthy: {"unset", "False", "True"},
               apiServicesRegistered: {"unset", "False", "True"},
               namespaceSync: {"unset", "False", "True"},
               webhookSync: {"unset", "False", "True"}]

NoConditions == [phase |-> "", crdConflict |-> "unset", secondaryHealthy |-> "unset",
                 apiServicesRegistered |-> "unset",
                 namespaceSync |-> "unset", webhookSync |-> "unset"]

PCs == {"idle", "sync", "health", "namespaceSync", "webhookSync", "aggregate", "gate"}

Init ==
  /\ \E present \in SUBSET CRDs :
       world = [x \in Watched |-> IF x \in present THEN "v1" ELSE "absent"]
  /\ cache = world /\ moved = {}
  /\ accepting \in BOOLEAN
  /\ secondary = [c \in CRDs |-> "absent"]
  /\ status = NoConditions
  /\ queued = TRUE
  /\ pc = "idle" /\ copy = NoConditions /\ todo = {} /\ failed = FALSE
  /\ changes = 0 /\ outages = 0 /\ faults = 0

-----------------------------------------------------------------------------
(* The cluster (external).                                                 *)

(* Workloads come and go ready, CRDs are created, updated and deleted, the *)
(* aggregator flips Available, the sub-CRs' controllers report, and        *)
(* somebody deletes what the operator created.                             *)
Change(x) ==
  /\ changes < MaxChanges
  /\ world[x] = "absent" => x \in CRDs
  /\ \E state \in States(x) \ {world[x]} :
       /\ state # "new"
       /\ world' = [world EXCEPT ![x] = state]
  /\ moved' = moved \cup {x}
  /\ changes' = changes + 1
  /\ UNCHANGED <<cache, accepting, secondary, status, queued, worker, outages, faults>>

(* The secondary starts or stops accepting requests.                       *)
Flip ==
  /\ outages < MaxOutages
  /\ accepting' = ~accepting
  /\ outages' = outages + 1
  /\ UNCHANGED <<watches, secondary, status, queued, worker, changes, faults>>

(* The watches: owned workloads, APIServices and sub-CRs, and the CRDs of  *)
(* the shard's groups.  The predicates pass every change of these states.  *)
Observe(x) ==
  /\ x \in moved
  /\ cache' = [cache EXCEPT ![x] = world[x]]
  /\ moved' = moved \ {x}
  /\ queued' = TRUE
  /\ UNCHANGED <<world, accepting, secondary, status, worker, budgets>>

(* A request succeeds, is rejected, or takes effect and loses its answer.  *)
Outcomes == {"ok", "rejected", "lost"}
Spend(o) ==
  /\ o = "ok" \/ faults < MaxFaults
  /\ faults' = IF o = "ok" THEN faults ELSE faults + 1
  /\ UNCHANGED <<changes, outages>>

-----------------------------------------------------------------------------
(* What updateHealthStatus makes of the conditions c.                      *)

(* An unhealthy secondary.                                                 *)
Unhealthy(c) ==
  [c EXCEPT !.phase = "Provisioning", !.secondaryHealthy = "False",
            !.apiServicesRegistered =
               IF c.crdConflict = "CRDsSyncedToSecondary" THEN "False" ELSE @]

(* aggregateSubCRStatus stops at the first sub-CR it does not find and     *)
(* leaves a condition alone while the sub-CR has none.                     *)
AggregateSubCRStatus(c) ==
  LET reported(k, old) == IF cache[k] \in {"True", "False"} THEN cache[k] ELSE old
  IN  [c EXCEPT !.namespaceSync = reported("namespaceSync", @),
                !.webhookSync = IF cache["namespaceSync"] = "absent" THEN @
                                ELSE reported("webhookSync", @)]

(* CheckAvailability: the APIServices the shard owns, all Available; none  *)
(* owned counts as not available.                                          *)
CheckAvailability ==
  LET owned == {n \in APIServices : cache[n] # "absent"}
  IN  owned # {} /\ \A n \in owned : cache[n] = "available"

(* Variant: the gate does not drop the condition when there is no          *)
(* conflict.                                                               *)
CheckAPIServiceAvailabilityKept(c) ==
  LET gated == c.crdConflict = "CRDsSyncedToSecondary"
      open == c.crdConflict # "CRDSyncFailed" /\ (gated => CheckAvailability)
  IN  [c EXCEPT !.phase = IF open THEN "Ready" ELSE "Provisioning",
                !.apiServicesRegistered = IF gated THEN IF open THEN "True" ELSE "False" ELSE @]

(* checkAPIServiceAvailability, and Ready if it does not object.           *)
CheckAPIServiceAvailability(c) ==
  LET gated == c.crdConflict = "CRDsSyncedToSecondary"
      open == c.crdConflict # "CRDSyncFailed" /\ (gated => CheckAvailability)
  IN  [c EXCEPT !.phase = IF open THEN "Ready" ELSE "Provisioning",
                !.apiServicesRegistered =
                   CASE c.crdConflict = "CRDSyncFailed" -> @
                     [] gated -> IF open THEN "True" ELSE "False"
                     [] OTHER -> "unset"]
-----------------------------------------------------------------------------
(* Reconcile.  Consecutive steps are one action where it makes no          *)
(* difference what others do in between: they read or write different      *)
(* things, and only the worker reads or writes the status.                 *)

Goto(to) == pc' = to /\ UNCHANGED <<status, queued>>

(* Reconcile returns; an error, a RequeueAfter or a watch event of the     *)
(* shard itself puts the shard back.                                       *)
Return(again) ==
  /\ pc' = "idle" /\ copy' = NoConditions /\ todo' = {} /\ failed' = FALSE
  /\ queued' = (queued \/ again)

(* Variant: no RequeueAfter.                                               *)
WriteStatusOnce(c, o) ==
  /\ Spend(o)
  /\ status' = IF o = "rejected" THEN status ELSE c
  /\ Return(o # "ok" \/ status' # status)

(* The status write that ends a pass with the conditions c.  A rejected    *)
(* write stands for a conflict too: the copy was out of date.  A write     *)
(* that changes something comes back as a watch event of the shard; every  *)
(* phase but Ready comes with a RequeueAfter.                              *)
WriteStatus(c, o) ==
  /\ Spend(o)
  /\ status' = IF o = "rejected" THEN status ELSE c
  /\ Return(c.phase # "Ready" \/ o # "ok" \/ status' # status)

(* What is missing of the workloads and APIServices is created.            *)
Provision(made) ==
  /\ moved' = moved \cup made
  /\ world' = [x \in Watched |->
                 CASE x \in made \cap Workloads -> "unready"
                   [] x \in made \cap APIServices -> "unavailable"
                   [] OTHER -> world[x]]
  /\ UNCHANGED <<cache, accepting, secondary>>

Missing == {x \in Workloads \cup APIServices : world[x] = "absent"}

(* A shard without a phase is first written with Provisioning.             *)
InitPhase == [status EXCEPT !.phase = IF @ = "" THEN "Provisioning" ELSE @]

(* A pass up to DetectCRDConflicts, which lists the CRDs of the groups.    *)
Start ==
  /\ pc = "idle" /\ queued
  /\ status' = InitPhase /\ queued' = (status' # status)
  /\ Provision(Missing)
  /\ todo' = {c \in CRDs : cache[c] # "absent"}
  /\ IF todo' = {}
     THEN pc' = "health" /\ copy' = [status' EXCEPT !.crdConflict = "NoConflicts"]
     ELSE pc' = "sync" /\ copy' = status'
  /\ UNCHANGED <<failed, budgets>>

(* A pass whose provisioning fails halfway and ends in setErrorAndRequeue, *)
(* the status write of which may fail too.                                 *)
StartFailed ==
  /\ pc = "idle" /\ queued
  /\ Spend("rejected")
  /\ \E made \in SUBSET Missing : Provision(made)
  /\ status' \in {status, InitPhase, [status EXCEPT !.phase = "Error"]}
  /\ UNCHANGED <<queued, worker>>

(* Variant: an error of the loop is only logged.                           *)
SyncCRDLogged(c, o) ==
  /\ pc = "sync" /\ c \in todo
  /\ Spend(o)
  /\ LET sent == cache[c] # "absent" /\ accepting /\ o # "rejected"
     IN  secondary' = IF sent THEN [secondary EXCEPT ![c] = cache[c]] ELSE secondary
  /\ todo' = todo \ {c}
  /\ IF todo' = {}
     THEN /\ copy' = [copy EXCEPT !.crdConflict =
                        IF failed THEN "CRDSyncFailed" ELSE "CRDsSyncedToSecondary"]
          /\ Goto("health")
     ELSE Goto("sync") /\ UNCHANGED copy
  /\ UNCHANGED <<watches, accepting, failed>>

(* syncCRDsToSecondary, one CRD: it is read from the cache and applied to  *)
(* the secondary; an error is kept and the loop goes on.                   *)
SyncCRD(c, o) ==
  /\ pc = "sync" /\ c \in todo
  /\ Spend(o)
  /\ LET sent == cache[c] # "absent" /\ accepting /\ o # "rejected"
     IN  /\ secondary' = IF sent THEN [secondary EXCEPT ![c] = cache[c]] ELSE secondary
         /\ failed' = (failed \/ ~sent \/ o # "ok")
  /\ todo' = todo \ {c}
  /\ IF todo' = {}
     THEN /\ copy' = [copy EXCEPT !.crdConflict =
                        IF failed' THEN "CRDSyncFailed" ELSE "CRDsSyncedToSecondary"]
          /\ Goto("health")
     ELSE Goto("sync") /\ UNCHANGED copy
  /\ UNCHANGED <<watches, accepting>>

(* checkDeploymentHealth, and verifySecondaryAuth if all is well.  A       *)
(* workload missing from the cache is an error that ends the pass without  *)
(* a status write.                                                         *)
HealthError ==
  /\ pc = "health" /\ \E w \in Workloads : cache[w] = "absent"
  /\ Return(TRUE)
  /\ UNCHANGED <<watches, accepting, secondary, status, budgets>>

HealthBad(o) ==
  /\ pc = "health"
  /\ \A w \in Workloads : cache[w] # "absent"
  /\ \E w \in Workloads : cache[w] = "unready"
  /\ WriteStatus(Unhealthy(copy), o)
  /\ UNCHANGED <<watches, accepting, secondary>>

VerifySecondaryAuth(o) == accepting /\ o = "ok"

HealthGood(o) ==
  /\ pc = "health" /\ \A w \in Workloads : cache[w] = "ready"
  /\ Spend(o)
  /\ copy' = [copy EXCEPT !.secondaryHealthy = "True"]
  /\ Goto(IF VerifySecondaryAuth(o) THEN "namespaceSync" ELSE "gate")
  /\ UNCHANGED <<watches, accepting, secondary, todo, failed>>

(* reconcileNamespaceSync and reconcileWebhookSync: CreateOrUpdate from a  *)
(* cached read; an error is only logged.                                   *)
ReconcileSubCR(k, o) ==
  /\ pc = k
  /\ Spend(o)
  /\ IF cache[k] = "absent" /\ world[k] = "absent" /\ o # "rejected"
     THEN world' = [world EXCEPT ![k] = "new"] /\ moved' = moved \cup {k}
     ELSE UNCHANGED <<world, moved>>
  /\ Goto(IF k = "namespaceSync" THEN "webhookSync" ELSE "aggregate")
  /\ UNCHANGED <<cache, accepting, secondary, copy, todo, failed>>

(* The sub-CRs' conditions if they were looked at, the gate, the write.    *)
Finish(o) ==
  /\ pc \in {"aggregate", "gate"}
  /\ WriteStatus(CheckAPIServiceAvailability(
                   IF pc = "aggregate" THEN AggregateSubCRStatus(copy) ELSE copy), o)
  /\ UNCHANGED <<watches, accepting, secondary>>
-----------------------------------------------------------------------------
Progress ==
  \/ Start \/ StartFailed \/ HealthError
  \/ \E o \in Outcomes :
       \/ \E c \in CRDs : SyncCRD(c, o)
       \/ \E k \in SubCRs : ReconcileSubCR(k, o)
       \/ HealthBad(o) \/ HealthGood(o) \/ Finish(o)

Next ==
  \/ \E x \in Watched : Change(x) \/ Observe(x)
  \/ Flip
  \/ Progress

Spec == Init /\ [][Next]_vars

(* The worker goes on and the watches deliver.                             *)
FairSpec == Spec /\ WF_vars(Progress) /\ \A x \in Watched : WF_vars(Observe(x))
-----------------------------------------------------------------------------
(* Properties.                                                             *)

(* Types of the variables.                                                 *)
TypeOK ==
  /\ \A x \in Watched : world[x] \in States(x) /\ cache[x] \in States(x)
  /\ moved \in SUBSET Watched /\ accepting \in BOOLEAN
  /\ secondary \in [CRDs -> {"absent"} \cup CRDVersions]
  /\ status \in Conditions /\ copy \in Conditions
  /\ queued \in BOOLEAN /\ pc \in PCs
  /\ todo \in SUBSET CRDs /\ failed \in BOOLEAN
  /\ changes \in Nat /\ outages \in Nat /\ faults \in Nat

(* Nothing is on its way that starts another pass.                         *)
Quiet == ~queued /\ pc = "idle" /\ moved = {}

(* What Ready stands for: the workloads are up and, if CRDs on the primary *)
(* shadow the shard's groups, the secondary has them as they are and the   *)
(* aggregator has found every registered API available.                    *)
Conflicting == {c \in CRDs : world[c] # "absent"}
Serving ==
  /\ \A w \in Workloads : world[w] = "ready"
  /\ \A n \in APIServices : world[n] # "absent"
  /\ Conflicting # {} =>
       /\ \A c \in Conflicting : secondary[c] = world[c]
       /\ APIServices # {} /\ \A n \in APIServices : world[n] = "available"

(* The gate of checkAPIServiceAvailability, the health check, the requeues *)
(* and the watches together: when nothing is left to do the shard is Ready *)
(* and really serves.  It is neither Ready on the strength of something    *)
(* that changed after it was looked at, nor stuck short of Ready.          *)
QuietMeansServing == Quiet => status.phase = "Ready" /\ Serving

(* When nothing is left to do the conditions say what is the case: a       *)
(* condition of an earlier pass does not survive what it was about.  As    *)
(* long as the secondary accepts requests and no request fails, the        *)
(* conditions of the sub-CRs are those they report (aggregateSubCRStatus). *)
Reported(k) == world[k] \in {"True", "False"} => status[k] = world[k]
ConditionsAgree ==
  Quiet =>
    /\ status.secondaryHealthy = "True"
    /\ status.crdConflict = IF Conflicting = {} THEN "NoConflicts" ELSE "CRDsSyncedToSecondary"
    /\ status.apiServicesRegistered = IF Conflicting = {} THEN "unset" ELSE "True"
    /\ accepting /\ outages = 0 /\ faults = 0 => \A k \in SubCRs : Reported(k)

(* If the cluster is in order from some time on, the shard is Ready for    *)
(* good from some later time on.                                           *)
InOrder == accepting /\ \A x \in Workloads \cup APIServices :
             world[x] = IF x \in Workloads THEN "ready" ELSE "available"
BecomesReady == <>[]InOrder => <>[](status.phase = "Ready" /\ Serving)

(* "creates `NamespaceSync` sub-CR when secondary is healthy": sub-CRs     *)
(* deferred by a failed verifySecondaryAuth are created once the secondary *)
(* accepts requests.                                                       *)
DeferredSubCRsCreated ==
  Quiet /\ accepting => \A k \in SubCRs : world[k] # "absent"

(* "aggregateSubCRStatus reads the status of NamespaceSync and WebhookSync *)
(* sub-CRs and propagates their Ready condition onto the APIShard".        *)
SubCRsPropagated == Quiet => \A k \in SubCRs : Reported(k)
=============================================================================
