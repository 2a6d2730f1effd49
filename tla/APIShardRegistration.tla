------------------------ MODULE APIShardRegistration ------------------------
(***************************************************************************)
(* The APIShard controller (operator/internal/controller/apishard) seen    *)
(* from what it registers on the primary cluster: the finalizer, the       *)
(* APIService objects, and the status list RegisteredAPIServices that the  *)
(* controller later relies on to find what it must delete.                 *)
(*                                                                         *)
(* One worker (MaxConcurrentReconciles is left at 1) runs Reconcile for    *)
(* one shard at a time.  Every API request is one step; between two        *)
(* requests users edit and delete shards, informers deliver versions, the  *)
(* garbage collector runs, requests fail and the operator may restart.     *)
(***************************************************************************)
EXTENDS Integers, Sequences, FiniteSets

CONSTANTS
  Shards,           \* names of APIShard objects (cluster scoped)
  APIServices,      \* APIService names, "<version>.<group>"
  Claims,           \* the APIServices a shard's spec may ever ask for
  MaxIncarnations,  \* bound: how often one shard name is created
  MaxLag,           \* bound: versions of a shard an informer may hold back
  MaxEdits,         \* bound: spec edits by users
  MaxFaults,        \* bound: failed requests and operator restarts
  MaxDrift          \* bound: APIServices deleted by somebody else

ASSUME ClaimsAssumption == Claims \in [Shards -> SUBSET APIServices]
ASSUME LagAssumption == MaxLag \in Nat \ {0, 1}
ASSUME BoundsAssumption ==
  MaxIncarnations \in Nat /\ MaxEdits \in Nat /\ MaxFaults \in Nat /\ MaxDrift \in Nat

VARIABLES
  shard,   \* the APIShard objects in the API server
  stream,  \* versions in the watch stream: the head is the informer's copy
  svc,     \* the owner of each APIService object, None if it does not exist
  seen,    \* APIServices that the informer knows of
  notify,  \* shards that owned a version of the APIService in its watch stream
  queue,   \* the workqueue of the apishard controller
  pc,      \* the next request of the running Reconcile, "idle" if none runs
  cur,     \* the shard being reconciled
  copy,    \* the local variable `shard` of Reconcile
  fresh,   \* copy carries the current resourceVersion
  todo,    \* names left in the loop that is running
  edits, faults, drift

objects == <<shard, stream>>
services == <<svc, seen, notify>>
worker == <<pc, cur, copy, fresh, todo>>
budgets == <<edits, faults, drift>>
vars == <<objects, services, queue, worker, budgets>>

-----------------------------------------------------------------------------
(* State.                                                                  *)

(* The phases that some path of Reconcile sets; Degraded and Waiting are   *)
(* declared and never used.                                                *)
Phases == {"", "Provisioning", "Ready", "Error"}

(* What Reconcile reads and writes of an APIShard.  `observed` stands for  *)
(* status.observedGeneration = metadata.generation.                        *)
Objects == [exists: BOOLEAN, uid: Nat, deleting: BOOLEAN, finalizer: BOOLEAN,
            apiGroups: SUBSET APIServices, registered: SUBSET APIServices,
            phase: Phases, observed: BOOLEAN]

Absent(u) == [exists |-> FALSE, uid |-> u, deleting |-> FALSE, finalizer |-> FALSE,
              apiGroups |-> {}, registered |-> {}, phase |-> "", observed |-> FALSE]

None == <<>>
Owner(s, u) == <<s, u>>
Owners == Shards \X Nat

Alive(o) == shard[o[1]].exists /\ shard[o[1]].uid = o[2]

(* The points of Reconcile at which it issues a request for a live shard,  *)
(* after the finalizer is in place.                                        *)
Working == {"namespace", "initPhase", "provision", "apply", "prune",
            "writeStatus", "setError"}
PCs == {"idle", "deregister", "addFinalizer"} \cup Working

Init ==
  /\ shard = [s \in Shards |-> Absent(0)]
  /\ stream = [s \in Shards |-> <<Absent(0)>>]
  /\ svc = [n \in APIServices |-> None]
  /\ seen = {}
  /\ notify = [n \in APIServices |-> {}]
  /\ queue = {}
  /\ pc = "idle"
  /\ cur \in Shards
  /\ copy = Absent(0)
  /\ fresh = FALSE
  /\ todo = {}
  /\ edits = 0 /\ faults = 0 /\ drift = 0

-----------------------------------------------------------------------------
(* The API server and the informers (external).                            *)

(* Store a new version of shard s; a write that changes nothing creates no *)
(* version and no watch event.                                             *)
Store(s, o) ==
  /\ o = shard[s] \/ Len(stream[s]) < MaxLag
  /\ shard' = [shard EXCEPT ![s] = o]
  /\ stream' = IF o = shard[s] THEN stream
                               ELSE [stream EXCEPT ![s] = Append(@, o)]

OwnerShards(o) == IF o = None THEN {} ELSE {o[1]}

(* APIService n gets owner o (None: it is deleted).  Owns(&APIService{})   *)
(* enqueues the controllers of the old and of the new object.              *)
SetOwner(n, o) ==
  /\ svc' = [svc EXCEPT ![n] = o]
  /\ notify' = IF o = svc[n] THEN notify
               ELSE [notify EXCEPT ![n] = @ \cup OwnerShards(svc[n]) \cup OwnerShards(o)]
  /\ UNCHANGED seen

(* A write by a user makes the worker's copy of the object out of date.    *)
UserStore(s, o) ==
  /\ Store(s, o)
  /\ fresh' = (fresh /\ ~(pc # "idle" /\ cur = s /\ o # shard[s]))
  /\ UNCHANGED <<services, queue, pc, cur, copy, todo>>

Create(s) ==
  /\ ~shard[s].exists /\ shard[s].uid < MaxIncarnations
  /\ \E groups \in SUBSET Claims[s] :
       UserStore(s, [Absent(shard[s].uid + 1) EXCEPT !.exists = TRUE, !.apiGroups = groups])
  /\ UNCHANGED budgets

Edit(s) ==
  /\ shard[s].exists /\ edits < MaxEdits
  /\ \E groups \in (SUBSET Claims[s]) \ {shard[s].apiGroups} :
       UserStore(s, [shard[s] EXCEPT !.apiGroups = groups, !.observed = FALSE])
  /\ edits' = edits + 1
  /\ UNCHANGED <<faults, drift>>

Delete(s) ==
  /\ shard[s].exists /\ ~shard[s].deleting
  /\ UserStore(s, IF shard[s].finalizer THEN [shard[s] EXCEPT !.deleting = TRUE]
                                        ELSE Absent(shard[s].uid))
  /\ UNCHANGED budgets

(* An APIService of a live shard is deleted by somebody else.              *)
Drift(n) ==
  /\ svc[n] # None /\ drift < MaxDrift
  /\ SetOwner(n, None)
  /\ drift' = drift + 1
  /\ UNCHANGED <<objects, queue, worker, edits, faults>>

(* The garbage collector deletes an APIService whose owner is gone.        *)
CollectGarbage(n) ==
  /\ svc[n] # None /\ ~Alive(svc[n])
  /\ SetOwner(n, None)
  /\ UNCHANGED <<objects, queue, worker, budgets>>

(* For(&APIShard{}) has no predicate: every version delivered enqueues.    *)
ObserveShard(s) ==
  /\ Len(stream[s]) > 1
  /\ stream' = [stream EXCEPT ![s] = Tail(@)]
  /\ queue' = queue \cup {s}
  /\ UNCHANGED <<shard, services, worker, budgets>>

(* Variant: deletions are filtered out of the watch.                       *)
ObserveServiceNoDeletes(n) ==
  /\ notify[n] # {}
  /\ seen' = IF svc[n] = None THEN seen \ {n} ELSE seen \cup {n}
  /\ notify' = [notify EXCEPT ![n] = {}]
  /\ queue' = IF svc[n] = None THEN queue ELSE queue \cup notify[n]
  /\ UNCHANGED <<svc, objects, worker, budgets>>

ObserveService(n) ==
  /\ notify[n] # {}
  /\ seen' = IF svc[n] = None THEN seen \ {n} ELSE seen \cup {n}
  /\ notify' = [notify EXCEPT ![n] = {}]
  /\ queue' = queue \cup notify[n]
  /\ UNCHANGED <<svc, objects, worker, budgets>>

-----------------------------------------------------------------------------
(* Requests of the worker.                                                 *)

(* A request succeeds, is rejected without effect, or takes effect while   *)
(* its answer is lost; the code sees an error in the last two cases.       *)
Outcomes == {"ok", "rejected", "lost"}
Effective(o) == o # "rejected"
Spend(o) ==
  /\ o = "ok" \/ faults < MaxFaults
  /\ faults' = IF o = "ok" THEN faults ELSE faults + 1
  /\ UNCHANGED <<edits, drift>>

Step(to) == pc' = to /\ UNCHANGED <<cur, queue>>

(* Reconcile returns; an error or a RequeueAfter puts the shard back.      *)
Return(requeue) ==
  /\ pc' = "idle" /\ copy' = Absent(0) /\ fresh' = FALSE /\ todo' = {}
  /\ queue' = IF requeue THEN queue \cup {cur} ELSE queue
  /\ UNCHANGED cur

(* Update and Status().Update carry a resourceVersion: a stale copy is     *)
(* answered with a conflict.                                               *)
Write(o, object) ==
  IF fresh /\ Effective(o) THEN Store(cur, object) ELSE UNCHANGED objects

Written(o) == fresh /\ o = "ok"

(* Get on an APIService reads the informer's copy, which may be behind.    *)
GetService(n) == n \in seen

-----------------------------------------------------------------------------
(* Reconcile.                                                              *)

(* Reconcile starts: it reads the shard from the cache and branches on     *)
(* NotFound, on the deletion timestamp and on the finalizer.               *)
Start(s) ==
  /\ pc = "idle" /\ s \in queue
  /\ cur' = s
  /\ queue' = queue \ {s}
  /\ LET cached == Head(stream[s])
         begin(to, names) == /\ pc' = to /\ todo' = names /\ copy' = cached
                             /\ fresh' = (Len(stream[s]) = 1)
     IN  \/ /\ ~cached.exists \/ (cached.deleting /\ ~cached.finalizer)
            /\ UNCHANGED <<pc, copy, fresh, todo>>
         \/ /\ cached.exists /\ cached.deleting /\ cached.finalizer
            /\ begin("deregister", cached.registered)
         \/ /\ cached.exists /\ ~cached.deleting
            /\ begin(IF cached.finalizer THEN "namespace" ELSE "addFinalizer", {})
  /\ UNCHANGED <<objects, services, budgets>>

(* Variants: a failed deletion is only logged; NotFound is an error.       *)
DeregisterLogged(n, o) ==
  /\ pc = "deregister" /\ n \in todo
  /\ Spend(o)
  /\ IF GetService(n) /\ Effective(o) THEN SetOwner(n, None) ELSE UNCHANGED services
  /\ Step("deregister") /\ todo' = todo \ {n}
  /\ UNCHANGED <<objects, copy, fresh>>

DeregisterStrict(n, o) ==
  /\ pc = "deregister" /\ n \in todo
  /\ Spend(o)
  /\ IF GetService(n) /\ Effective(o) THEN SetOwner(n, None) ELSE UNCHANGED services
  /\ IF o = "ok" /\ GetService(n) THEN /\ Step("deregister") /\ todo' = todo \ {n}
                                       /\ UNCHANGED <<copy, fresh>>
                                  ELSE Return(TRUE)
  /\ UNCHANGED objects

(* One round of the deletion loop: NotFound is skipped, what is found is   *)
(* deleted by name.                                                        *)
Deregister(n, o) ==
  /\ pc = "deregister" /\ n \in todo
  /\ Spend(o)
  /\ IF GetService(n) /\ Effective(o) THEN SetOwner(n, None) ELSE UNCHANGED services
  /\ IF o = "ok" THEN /\ Step("deregister") /\ todo' = todo \ {n}
                      /\ UNCHANGED <<copy, fresh>>
                 ELSE GetService(n) /\ Return(TRUE)
  /\ UNCHANGED objects

(* The loop is over: drop the finalizer, and with it the object.           *)
RemoveFinalizer(o) ==
  /\ pc = "deregister" /\ todo = {}
  /\ Spend(o)
  /\ Write(o, Absent(copy.uid))
  /\ Return(~Written(o))
  /\ UNCHANGED services

(* Variant: the error of the patch is ignored.                             *)
AddFinalizerIgnored(o) ==
  /\ pc = "addFinalizer"
  /\ Spend(o)
  /\ LET patched == [shard[cur] EXCEPT !.finalizer = TRUE]
     IN  /\ IF shard[cur].exists /\ Effective(o) THEN Store(cur, patched) ELSE UNCHANGED objects
         /\ Step("namespace") /\ UNCHANGED <<copy, fresh, todo>>
  /\ UNCHANGED services

(* A merge patch without resourceVersion: it applies to whatever object    *)
(* has the name, and the copy becomes the answer of the server.            *)
AddFinalizer(o) ==
  /\ pc = "addFinalizer"
  /\ Spend(o)
  /\ LET patched == [shard[cur] EXCEPT !.finalizer = TRUE]
         found == shard[cur].exists
     IN  /\ IF found /\ Effective(o) THEN Store(cur, patched) ELSE UNCHANGED objects
         /\ IF found /\ o = "ok"
            THEN /\ Step("namespace") /\ copy' = patched /\ fresh' = TRUE
                 /\ UNCHANGED todo
            ELSE Return(TRUE)
  /\ UNCHANGED services

EnsureNamespace(o) ==
  /\ pc = "namespace"
  /\ Spend(o)
  /\ Step(IF o # "ok" THEN "setError"
          ELSE IF copy.phase = "" THEN "initPhase" ELSE "provision")
  /\ UNCHANGED <<objects, services, copy, fresh, todo>>

InitPhase(o) ==
  /\ pc = "initPhase"
  /\ Spend(o)
  /\ LET object == [copy EXCEPT !.phase = "Provisioning"]
     IN  /\ Write(o, object)
         /\ IF Written(o) THEN /\ Step("provision") /\ copy' = object
                               /\ UNCHANGED <<fresh, todo>>
                          ELSE Return(TRUE)
  /\ UNCHANGED services

(* Storage, certificates, auth, request-header CA, admin kubeconfig, the   *)
(* secondary, metrics, and the PKI secret that reconcileAPIServices needs: *)
(* all succeed, or the first failure ends the pass in setErrorAndRequeue.  *)
Provision(o) ==
  /\ pc = "provision" /\ o # "lost"
  /\ Spend(o)
  /\ Step(IF o = "ok" THEN "apply" ELSE "setError")
  /\ todo' = IF o = "ok" THEN copy.apiGroups ELSE {}
  /\ UNCHANGED <<objects, services, copy, fresh>>

(* Server-side apply with ForceOwnership and one field manager for all     *)
(* shards: the last shard to apply becomes the only owner.                 *)
Apply(n, o) ==
  /\ pc = "apply" /\ n \in todo
  /\ Spend(o)
  /\ IF Effective(o) THEN SetOwner(n, Owner(cur, copy.uid)) ELSE UNCHANGED services
  /\ IF o = "ok" THEN Step("apply") /\ todo' = todo \ {n}
                 ELSE Step("setError") /\ todo' = {}
  /\ UNCHANGED <<objects, copy, fresh>>

(* All desired names are applied: turn to those no longer desired.         *)
StartPrune ==
  /\ pc = "apply" /\ todo = {}
  /\ Step("prune") /\ todo' = copy.registered \ copy.apiGroups
  /\ UNCHANGED <<objects, services, copy, fresh, budgets>>

(* NotFound from Get is skipped, NotFound from Delete is an error.         *)
Prune(n, o) ==
  /\ pc = "prune" /\ n \in todo
  /\ Spend(o)
  /\ IF GetService(n) /\ Effective(o) THEN SetOwner(n, None) ELSE UNCHANGED services
  /\ IF o = "ok" /\ (GetService(n) => svc[n] # None)
     THEN Step("prune") /\ todo' = todo \ {n}
     ELSE GetService(n) /\ Step("setError") /\ todo' = {}
  /\ UNCHANGED <<objects, copy, fresh>>

(* Variant: a phase that is declared but that no path sets.                *)
UpdateHealthUnknown(o) ==
  /\ pc = "prune" /\ todo = {} /\ o = "ok"
  /\ Spend(o) /\ Step("writeStatus")
  /\ copy' = [copy EXCEPT !.registered = copy.apiGroups, !.phase = "Degraded", !.observed = TRUE]
  /\ UNCHANGED <<fresh, todo, objects, services>>

(* Status.RegisteredAPIServices is set; updateHealthStatus settles on a    *)
(* phase, or returns an error that ends the pass without a status write.   *)
UpdateHealth(o) ==
  /\ pc = "prune" /\ todo = {} /\ o # "lost"
  /\ Spend(o)
  /\ IF o = "ok"
     THEN /\ Step("writeStatus")
          /\ \E phase \in {"Provisioning", "Ready"} :
               copy' = [copy EXCEPT !.registered = copy.apiGroups,
                                    !.phase = phase, !.observed = TRUE]
          /\ UNCHANGED <<fresh, todo>>
     ELSE Return(TRUE)
  /\ UNCHANGED <<objects, services>>

(* Variant: no RequeueAfter.                                               *)
WriteStatusOnce(o) ==
  /\ pc = "writeStatus"
  /\ Spend(o)
  /\ Write(o, copy)
  /\ Return(~Written(o))
  /\ UNCHANGED services

(* The status write that ends a pass; every phase but Ready asks for       *)
(* another pass after ten seconds.                                         *)
WriteStatus(o) ==
  /\ pc = "writeStatus"
  /\ Spend(o)
  /\ Write(o, copy)
  /\ Return(~Written(o) \/ copy.phase # "Ready")
  /\ UNCHANGED services

(* setErrorAndRequeue: a failed status write is only logged, the error is  *)
(* returned either way.                                                    *)
SetError(o) ==
  /\ pc = "setError"
  /\ Spend(o)
  /\ Write(o, [copy EXCEPT !.phase = "Error", !.observed = TRUE])
  /\ Return(TRUE)
  /\ UNCHANGED services

(* The operator restarts: what the worker held is gone, the informers list *)
(* afresh and deliver every existing shard.                                *)
Restart ==
  /\ faults < MaxFaults
  /\ faults' = faults + 1
  /\ stream' = [s \in Shards |-> <<shard[s]>>]
  /\ seen' = {n \in APIServices : svc[n] # None}
  /\ notify' = [n \in APIServices |-> {}]
  /\ queue' = {s \in Shards : shard[s].exists}
  /\ pc' = "idle" /\ copy' = Absent(0) /\ fresh' = FALSE /\ todo' = {}
  /\ UNCHANGED <<shard, svc, cur, edits, drift>>

-----------------------------------------------------------------------------
Request(o) ==
  \/ \E n \in APIServices : Deregister(n, o) \/ Apply(n, o) \/ Prune(n, o)
  \/ RemoveFinalizer(o) \/ AddFinalizer(o) \/ EnsureNamespace(o) \/ InitPhase(o)
  \/ Provision(o) \/ UpdateHealth(o) \/ WriteStatus(o) \/ SetError(o)

Progress == StartPrune \/ \E o \in Outcomes : Request(o)

Next ==
  \/ \E s \in Shards : Create(s) \/ Edit(s) \/ Delete(s) \/ ObserveShard(s) \/ Start(s)
  \/ \E n \in APIServices : Drift(n) \/ CollectGarbage(n) \/ ObserveService(n)
  \/ Progress
  \/ Restart

(* A running Reconcile goes on, the workqueue is first-in first-out, watch *)
(* streams deliver, and the garbage collector does its work.               *)
Fairness ==
  /\ WF_vars(Progress)
  /\ \A s \in Shards : SF_vars(Start(s)) /\ WF_vars(ObserveShard(s))
  /\ \A n \in APIServices : WF_vars(ObserveService(n)) /\ WF_vars(CollectGarbage(n))

Spec == Init /\ [][Next]_vars
FairSpec == Spec /\ Fairness
-----------------------------------------------------------------------------
(* Properties.                                                             *)

(* Types of the variables; the informer's stream always ends in the        *)
(* current version of the object.                                          *)
TypeOK ==
  /\ shard \in [Shards -> Objects]
  /\ stream \in [Shards -> Seq(Objects) \ {<<>>}]
  /\ svc \in [APIServices -> Owners \cup {None}]
  /\ seen \in SUBSET APIServices
  /\ notify \in [APIServices -> SUBSET Shards]
  /\ queue \in SUBSET Shards
  /\ pc \in PCs /\ cur \in Shards
  /\ copy \in Objects /\ fresh \in BOOLEAN /\ todo \in SUBSET APIServices
  /\ edits \in Nat /\ faults \in Nat /\ drift \in Nat

(* "Ensure the finalizer is present before any resource creation": an      *)
(* APIService is only ever registered for an incarnation of a shard that   *)
(* still exists in the API server and carries the finalizer, however old   *)
(* the copy Reconcile works on.                                            *)
AppliedUnderFinalizer ==
  [][\A n \in APIServices : svc'[n] # svc[n] /\ svc'[n] # None =>
       Alive(svc'[n]) /\ shard[svc'[n][1]].finalizer]_vars

(* The deletion branch of Reconcile: when the object goes, an APIService   *)
(* that status.registeredAPIServices named is left registered for it only  *)
(* if the loop's Get was answered by an informer that was behind: the      *)
(* event of its creation is still on its way, or an event has queued the   *)
(* shard again since the pass began.  A failed deletion, a lost answer or  *)
(* a restart leaves none.                                                  *)
RecordedDeregistered ==
  [][\A s \in Shards : shard[s].exists /\ shard[s].finalizer /\ ~shard'[s].exists =>
       \A n \in shard[s].registered :
         svc'[n] = Owner(s, shard[s].uid) => s \in notify[n] \/ s \in queue]_vars

(* A shard is settled when it is gone, or Ready for its current generation *)
(* with every API it asks for registered to it and recorded in its status. *)
Settled(s) ==
  shard[s].exists =>
    /\ ~shard[s].deleting
    /\ shard[s].phase = "Ready" /\ shard[s].observed
    /\ shard[s].registered = shard[s].apiGroups
    /\ \A n \in shard[s].apiGroups : svc[n] = Owner(s, shard[s].uid)

(* Something is on its way that makes the controller look at s again.      *)
Pending(s) ==
  \/ s \in queue
  \/ pc # "idle" /\ cur = s
  \/ Len(stream[s]) > 1
  \/ \E n \in APIServices : s \in notify[n]

(* No lost wake-up: the early returns, the returns without an error, the   *)
(* status writes without effect and the watches of SetupWithManager never  *)
(* leave a shard that is not settled without a further reconcile.          *)
SettledWhenQuiet == \A s \in Shards : Pending(s) \/ Settled(s)

(* Deletion is never stuck: a NotFound, a conflict, a failed request or a  *)
(* restart in the deletion branch only delays it.                          *)
DeletionCompletes ==
  \A s \in Shards : shard[s].exists /\ shard[s].deleting ~> ~shard[s].exists

(* Once users, faults and drift stop, every live shard ends up with all    *)
(* the APIs it asks for registered to it and recorded, and a deleted shard *)
(* with none.                                                              *)
Converged(s) ==
  IF shard[s].exists
  THEN shard[s].registered = shard[s].apiGroups /\
       \A n \in shard[s].apiGroups : svc[n] = Owner(s, shard[s].uid)
  ELSE \A n \in APIServices : svc[n] # None => svc[n][1] # s
Converges == <>[](\A s \in Shards : Converged(s))

(* "The finalizer ensures APIServices are deregistered first, stopping     *)
(* traffic routing, before the rest of the stack is torn down."            *)
DeregisteredFirst == \A n \in APIServices : svc[n] # None => Alive(svc[n])

(* "... and cleans up stale ones when API groups are removed from the      *)
(* spec": with nothing pending, a live shard holds no API it does not ask  *)
(* for.                                                                    *)
StaleCleanedUp ==
  \A s \in Shards : Pending(s) \/
    \A n \in APIServices :
      svc[n] = Owner(s, shard[s].uid) /\ Alive(svc[n]) => n \in shard[s].apiGroups

(* "... deleting resources it doesn't own": Reconcile for one shard never  *)
(* deletes an APIService that routes to another live shard.                *)
DeletesOnlyOwn ==
  [][\A n \in APIServices :
       svc[n] # None /\ svc'[n] = None /\ Alive(svc[n]) /\ drift' = drift
         => svc[n][1] = cur]_vars
=============================================================================
