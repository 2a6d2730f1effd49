---------------------------- MODULE NamespaceSync ----------------------------
(***************************************************************************)
(* The NamespaceSync controller: Reconcile compares the namespaces of the  *)
(* primary that match the selector, read from the informer cache, with the *)
(* namespaces the secondary lists, creates what is missing and deletes     *)
(* what is not desired, one request at a time.                             *)
(*                                                                         *)
(* Failed requests of the loops are collected and do not fail the pass: it *)
(* returns nil, and what brings the object back is an event, the write of  *)
(* its own status, or the ticker.                                          *)
(***************************************************************************)
EXTENDS Naturals, FiniteSets

CONSTANTS
  Names,        \* names of namespaces
  System,       \* systemNamespaces
  MaxChanges,   \* bound: changes on the primary
  MaxDrifts,    \* bound: changes on the secondary made by others
  MaxFaults     \* bound: failed requests

ASSUME NamesAssumption == IsFiniteSet(Names) /\ System \subseteq Names
ASSUME BoundsAssumption == MaxChanges \in Nat /\ MaxDrifts \in Nat /\ MaxFaults \in Nat

VARIABLES
  primary,    \* label of every namespace of the primary
  spec,       \* the stored NamespaceSync
  seen,       \* the informer caches of both
  latest,     \* the cached NamespaceSync is the stored one, status included
  secondary,  \* state of every namespace on the secondary
  status,     \* Ready condition and SyncedNamespaces of the stored object
  slot,       \* the ticker's channel holds an event
  queued,     \* the object is in the workqueue
  pc,         \* "idle" or, in Reconcile after both lists were read, "sync"
  view,       \* desiredNames of the running or else the last pass
  create, delete,  \* what is left of the two loops of the running pass
  failed,     \* syncErrors is not empty
  fresh,      \* the pass's copy of the NamespaceSync is still the stored one
  touched,    \* namespaces of the secondary others changed since it was listed
  changes, drifts, faults

world == <<primary, spec>>
cache == <<seen, latest>>
worker == <<pc, view, create, delete, failed, fresh>>
budgets == <<changes, drifts, faults>>
vars == <<world, cache, secondary, status, slot, queued, worker, touched, budgets>>

-----------------------------------------------------------------------------
(* A namespace is told apart by whether it exists and which of two labels  *)
(* it has.                                                                 *)
Labels == {"a", "b"}
Specs == [exists: BOOLEAN, selector: Labels \cup {"invalid"}, excluded: SUBSET Names]

(* Terminating: deleted, and held by the finalizer every namespace has and *)
(* a controller-manager would remove.                                      *)
States == {"absent", "active", "terminating"}

Statuses == [ready: {"unset", "False", "True"}, synced: Nat]
NoStatus == [ready |-> "unset", synced |-> 0]

Init ==
  /\ primary \in [Names -> {"absent", "a"}]
  /\ spec = [exists |-> TRUE, selector |-> "a", excluded |-> {}]
  /\ seen = [primary |-> primary, spec |-> spec]
  /\ secondary = [n \in Names |-> IF n \in System THEN "active" ELSE "absent"]
  /\ latest = TRUE /\ fresh = FALSE
  /\ status = NoStatus
  /\ slot = FALSE /\ queued = TRUE
  /\ pc = "idle" /\ view = {} /\ create = {} /\ delete = {} /\ failed = FALSE
  /\ touched = {}
  /\ changes = 0 /\ drifts = 0 /\ faults = 0

(* desiredNames: the namespaces that match the selector, less exclusions.  *)
Desired(p, s) == {n \in Names : p[n] = s.selector} \ s.excluded

-----------------------------------------------------------------------------
(* The primary, the secondary and the informers (external).                *)

Relabel(n) ==
  /\ changes < MaxChanges
  /\ \E l \in ({"absent"} \cup Labels) \ {primary[n]} :
       primary' = [primary EXCEPT ![n] = l]
  /\ changes' = changes + 1
  /\ UNCHANGED <<spec, cache, secondary, status, slot, queued, worker, touched, drifts, faults>>

EditSpec ==
  /\ changes < MaxChanges
  /\ spec' \in {[spec EXCEPT !.exists = ~@]}
                \cup {[spec EXCEPT !.selector = l] : l \in {"b", "invalid"}}
                \cup {[spec EXCEPT !.excluded = @ \cup {n}] : n \in Names}
  /\ spec' # spec
  /\ status' = IF spec'.exists = spec.exists THEN status ELSE NoStatus
  /\ latest' = FALSE /\ fresh' = FALSE
  /\ changes' = changes + 1
  /\ UNCHANGED <<primary, seen, secondary, slot, queued, pc, view, create, delete, failed,
                 touched, drifts, faults>>

(* Others create or delete a namespace.                                    *)
Drift(n) ==
  /\ drifts < MaxDrifts /\ secondary[n] # "terminating"
  /\ secondary' = [secondary EXCEPT ![n] = IF @ = "absent" THEN "active" ELSE "terminating"]
  /\ touched' = touched \cup {n}
  /\ drifts' = drifts + 1
  /\ UNCHANGED <<world, cache, status, slot, queued, worker, changes, faults>>

(* Somebody removes the finalizer by hand: the secondary runs without a    *)
(* controller-manager.                                                     *)
Finalize(n) ==
  /\ secondary[n] = "terminating"
  /\ secondary' = [secondary EXCEPT ![n] = "absent"]
  /\ touched' = touched \cup {n}
  /\ UNCHANGED <<world, cache, status, slot, queued, worker, budgets>>

(* A namespace event enqueues every NamespaceSync.  One watch delivers the *)
(* namespaces in order, so the cache is some past state of all of them.    *)
ObserveNamespaces ==
  /\ seen.primary # primary
  /\ seen' = [seen EXCEPT !.primary = primary]
  /\ queued' = (queued \/ seen.spec.exists)
  /\ UNCHANGED <<world, latest, secondary, status, slot, worker, touched, budgets>>

(* For without a predicate: every change of the object enqueues it, the    *)
(* controller's own status writes included.                                *)
ObserveSpec ==
  /\ ~latest /\ latest' = TRUE
  /\ seen' = [seen EXCEPT !.spec = spec]
  /\ queued' = TRUE
  /\ UNCHANGED <<world, secondary, status, slot, worker, touched, budgets>>

(* secretToNamespaceSyncMapper: a Secret of the connection changes.        *)
SecretEvent ==
  /\ changes < MaxChanges
  /\ changes' = changes + 1
  /\ queued' = (queued \/ seen.spec.exists)
  /\ UNCHANGED <<world, cache, secondary, status, slot, worker, touched, drifts, faults>>

(* The ticker puts an event into its channel, unless it is full.           *)
Tick ==
  /\ ~slot /\ slot' = TRUE
  /\ UNCHANGED <<world, cache, secondary, status, queued, worker, touched, budgets>>

(* Variant: the channel is drained without enqueueing.                     *)
TickReceivedDropped ==
  /\ slot /\ slot' = FALSE
  /\ UNCHANGED <<world, cache, secondary, status, queued, worker, touched, budgets>>

(* The channel source enqueues every NamespaceSync of the cache.           *)
TickReceived ==
  /\ slot /\ slot' = FALSE
  /\ queued' = (queued \/ seen.spec.exists)
  /\ UNCHANGED <<world, cache, secondary, status, worker, touched, budgets>>

-----------------------------------------------------------------------------
(* Reconcile.                                                              *)

(* A request succeeds, is rejected, or takes effect and loses its answer.  *)
Outcomes == {"ok", "rejected", "lost"}
Spend(o) ==
  /\ o = "ok" \/ faults < MaxFaults
  /\ faults' = IF o = "ok" THEN faults ELSE faults + 1
  /\ UNCHANGED <<changes, drifts>>

(* The object is gone.                                                     *)
StartGone ==
  /\ pc = "idle" /\ queued /\ ~seen.spec.exists
  /\ queued' = FALSE
  /\ UNCHANGED <<world, cache, secondary, status, slot, worker, touched, budgets>>

(* What a status write leaves: one based on an old copy is a conflict, and *)
(* one that changes something makes the cached object an old one.          *)
WriteStatus(o, base, new) ==
  LET written == o # "rejected" /\ base
  IN  /\ status' = IF written THEN new ELSE status
      /\ \E newSecond \in BOOLEAN :
           latest' = (latest /\ ~(written /\ (new # status \/ newSecond)))

(* The client cannot be built or the secondary cannot be listed.  The      *)
(* error is returned, whatever becomes of the status write.                *)
StartUnavailable(o) ==
  /\ pc = "idle" /\ queued /\ seen.spec.exists
  /\ faults < MaxFaults /\ faults' = faults + 1
  /\ WriteStatus(o, latest, [status EXCEPT !.ready = "False"])
  /\ UNCHANGED <<world, seen, secondary, slot, queued, worker, touched, changes, drifts>>

(* The selector cannot be parsed: the error is returned, the object is     *)
(* queued again.                                                           *)
StartInvalid ==
  /\ pc = "idle" /\ queued /\ seen.spec.exists /\ seen.spec.selector = "invalid"
  /\ UNCHANGED vars

(* The cached object exists and its selector can be parsed.                *)
Syncs == seen.spec.exists /\ seen.spec.selector # "invalid"

(* Variant: the delete loop does not spare the system namespaces.          *)
StartUnsparing ==
  /\ pc = "idle" /\ queued /\ Syncs
  /\ queued' = FALSE
  /\ view' = Desired(seen.primary, seen.spec)
  /\ create' = view' \ {n \in Names : secondary[n] # "absent"}
  /\ delete' = {n \in Names : secondary[n] # "absent"} \ view'
  /\ failed' = FALSE /\ fresh' = latest /\ pc' = "sync" /\ touched' = {}
  /\ UNCHANGED <<world, cache, secondary, status, slot, budgets>>

(* Both lists are read: the primary's from the cache, then the             *)
(* secondary's.                                                            *)
Start ==
  LET secondaryExisting == {n \in Names : secondary[n] # "absent"}
  IN  /\ pc = "idle" /\ queued /\ Syncs
      /\ queued' = FALSE
      /\ view' = Desired(seen.primary, seen.spec)
      /\ create' = view' \ secondaryExisting
      /\ delete' = secondaryExisting \ (view' \cup System)
      /\ failed' = FALSE /\ fresh' = latest /\ pc' = "sync" /\ touched' = {}
      /\ UNCHANGED <<world, cache, secondary, status, slot, budgets>>

(* ensureNamespaceOnSecondary: AlreadyExists is no error.                  *)
Create(n, o) ==
  /\ pc = "sync" /\ n \in create
  /\ Spend(o)
  /\ create' = create \ {n}
  /\ failed' = (failed \/ o # "ok")
  /\ secondary' = IF o # "rejected" /\ secondary[n] = "absent"
                  THEN [secondary EXCEPT ![n] = "active"] ELSE secondary
  /\ UNCHANGED <<world, cache, status, slot, queued, pc, view, delete, fresh, touched>>

(* Variant: a failed deletion is not counted as an error.                  *)
DeleteUnchecked(n, o) ==
  /\ pc = "sync" /\ create = {} /\ n \in delete
  /\ Spend(o)
  /\ delete' = delete \ {n}
  /\ secondary' = IF o # "rejected" /\ secondary[n] = "active"
                  THEN [secondary EXCEPT ![n] = "terminating"] ELSE secondary
  /\ UNCHANGED <<world, cache, status, slot, queued, pc, view, create, failed, fresh, touched>>

(* deleteNamespaceOnSecondary: NotFound is no error.  The namespace is     *)
(* marked as terminating and stays until its finalizer is removed.         *)
Delete(n, o) ==
  /\ pc = "sync" /\ create = {} /\ n \in delete
  /\ Spend(o)
  /\ delete' = delete \ {n}
  /\ failed' = (failed \/ o # "ok")
  /\ secondary' = IF o # "rejected" /\ secondary[n] = "active"
                  THEN [secondary EXCEPT ![n] = "terminating"] ELSE secondary
  /\ UNCHANGED <<world, cache, status, slot, queued, pc, view, create, fresh, touched>>

(* The status write.  A failed one is returned as the pass's error.        *)
Finish(o) ==
  /\ pc = "sync" /\ create = {} /\ delete = {}
  /\ Spend(o)
  /\ WriteStatus(o, fresh, [ready |-> IF failed THEN "False" ELSE "True",
                            synced |-> Cardinality(view)])
  /\ queued' = (queued \/ o # "ok" \/ ~fresh)
  /\ pc' = "idle" /\ failed' = FALSE /\ fresh' = FALSE
  /\ UNCHANGED <<world, seen, secondary, slot, view, create, delete, touched>>

-----------------------------------------------------------------------------
Reconcile ==
  \/ StartGone \/ StartInvalid \/ Start
  \/ \E o \in Outcomes : StartUnavailable(o) \/ Finish(o)
  \/ \E n \in Names, o \in Outcomes : Create(n, o) \/ Delete(n, o)

Next ==
  \/ \E n \in Names : Relabel(n) \/ Drift(n) \/ Finalize(n)
  \/ EditSpec \/ SecretEvent
  \/ ObserveNamespaces \/ ObserveSpec \/ Tick \/ TickReceived
  \/ Reconcile

Spec == Init /\ [][Next]_vars

(* The informers and the ticker keep delivering, the worker keeps taking   *)
(* what is queued and finishes its passes.  Nothing makes the finalizer of *)
(* a deleted namespace go.                                                 *)
Fairness ==
  /\ WF_vars(ObserveNamespaces) /\ WF_vars(ObserveSpec)
  /\ WF_vars(Tick) /\ WF_vars(TickReceived)
  /\ WF_vars(Reconcile)

FairSpec == Spec /\ Fairness
-----------------------------------------------------------------------------
(* Properties.                                                             *)

(* Every variable keeps the shape Reconcile and the handlers give it; the  *)
(* loops are over disjoint names and only while a pass runs.               *)
TypeOK ==
  /\ primary \in [Names -> {"absent"} \cup Labels] /\ spec \in Specs
  /\ seen \in [primary: [Names -> {"absent"} \cup Labels], spec: Specs]
  /\ secondary \in [Names -> States] /\ status \in Statuses
  /\ slot \in BOOLEAN /\ queued \in BOOLEAN /\ latest \in BOOLEAN /\ fresh \in BOOLEAN /\ pc \in {"idle", "sync"}
  /\ view \in SUBSET Names /\ touched \in SUBSET Names /\ failed \in BOOLEAN
  /\ create \in SUBSET view /\ delete \in SUBSET (Names \ (view \cup System))
  /\ pc = "idle" => create = {} /\ delete = {} /\ ~failed /\ ~fresh
  /\ latest => seen.spec = spec
  /\ changes \in 0..MaxChanges /\ drifts \in 0..MaxDrifts /\ faults \in 0..MaxFaults

(* On the secondary, except for what others did since it was listed,       *)
(* nothing of the set is missing and nothing else is in use.               *)
Mirrors(set) ==
  \A n \in Names \ touched :
    /\ n \in set => secondary[n] # "absent"
    /\ n \notin set \cup System => secondary[n] # "active"

(* When nothing is queued, no pass runs and the caches are up to date,     *)
(* Ready=True (SyncComplete) means that the secondary mirrors the primary  *)
(* of this moment and SyncedNamespaces is their number: no request that    *)
(* failed and no change during the pass is forgotten.                      *)
ReadyMeansMirrored ==
  (/\ pc = "idle" /\ ~queued /\ seen = [primary |-> primary, spec |-> spec] /\ Syncs
   /\ status.ready = "True")
  => /\ Mirrors(Desired(primary, spec))
     /\ status.synced = Cardinality(Desired(primary, spec))

(* The strengthening of ReadyMeansMirrored that every step preserves: what *)
(* a pass has not yet done is in its loops or counted as failed, and its   *)
(* view is out of date only if the object is queued.                       *)
Progress ==
  /\ Syncs => queued \/ view = Desired(seen.primary, seen.spec)
  /\ pc = "sync" /\ ~failed =>
       \A n \in Names \ touched :
         /\ n \in view \ create => secondary[n] # "absent"
         /\ n \notin view \cup System \cup delete => secondary[n] # "active"
  /\ pc = "idle" /\ ~queued /\ Syncs /\ status.ready = "True" =>
       Mirrors(view) /\ status.synced = Cardinality(view)

(* The refinement mapping: what is wanted is what the caches say, and a    *)
(* namespace that is going away does not count.  A deleted NamespaceSync   *)
(* wants nothing new.                                                      *)
Content(set) == [n \in Names |-> IF n \in set THEN "present" ELSE "absent"]
M == INSTANCE Mirror WITH
       Values <- {"present"}, None <- "absent", Protected <- System,
       wanted <- Content(IF Syncs THEN Desired(seen.primary, seen.spec) ELSE view),
       view <- Content(view),
       have <- Content({n \in Names : secondary[n] = "active"}),
       leaving <- {n \in Names : secondary[n] = "terminating"},
       foreign <- drifts

(* Reconcile implements Mirror: it creates only what was desired when it   *)
(* read the cache, and deletes only what was not, never a system           *)
(* namespace, however its requests fail and whatever happens in between.   *)
ImplementsMirror == M!Spec

(* Reconcile keeps Mirror's promise of progress as long as the object      *)
(* exists with a valid selector, although failed requests do not fail the  *)
(* pass: what is left over is deleted, and what is missing is created      *)
(* unless its name is held by a namespace that is terminating.             *)
MirrorKeptUp == <>[]Syncs => M!Fairness

(* Once changes and faults stop, no desired namespace is missing on the    *)
(* secondary and no other is in use but the system ones, and the status    *)
(* says so.                                                                *)
Converges ==
  <>[](spec.exists /\ spec.selector # "invalid" =>
         /\ status.ready = "True"
         /\ \A n \in Names :
              /\ n \in Desired(primary, spec) => secondary[n] # "absent"
              /\ n \notin Desired(primary, spec) \cup System => secondary[n] # "active")

(* "watches Namespaces and mirrors create/delete to the secondary": what   *)
(* is deleted goes, and what is desired is there and not on its way out.   *)
CreateDeleteMirrored ==
  <>[](spec.exists /\ spec.selector # "invalid" =>
         \A n \in Names \ System :
           secondary[n] = IF n \in Desired(primary, spec) THEN "active" ELSE "absent")
=============================================================================
