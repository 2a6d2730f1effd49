----------------------------- MODULE WebhookSync -----------------------------
(***************************************************************************)
(* The WebhookSync controller: Reconcile copies the webhook configurations *)
(* of the primary whose rules name one of the API groups to the secondary, *)
(* first the validating and then the mutating ones, and then deletes from  *)
(* the secondary, kind by kind, what is not in the set of names it has     *)
(* just copied.                                                            *)
(***************************************************************************)
EXTENDS Naturals, FiniteSets

CONSTANTS
  Validating, Mutating,  \* names of configurations of either kind
  Configs,               \* what a configuration of the primary can look like
  None,                  \* no configuration of that name
  MaxChanges,            \* bound: changes on the primary
  MaxDrifts,             \* bound: changes on the secondary made by others
  MaxFaults              \* bound: failed requests

Hooks == Validating \cup Mutating
Of(kind) == IF kind = "validating" THEN Validating ELSE Mutating
Kinds == {"validating", "mutating"}

ASSUME HooksAssumption == IsFiniteSet(Hooks) /\ Validating \cap Mutating = {}
ASSUME BoundsAssumption == MaxChanges \in Nat /\ MaxDrifts \in Nat /\ MaxFaults \in Nat

VARIABLES
  primary,    \* the configurations on the primary
  spec,       \* the stored WebhookSync: whether it exists, and its apiGroups
  seen,       \* the informer caches
  latest,     \* the cached WebhookSync is the stored one, status included
  secondary,  \* the configurations on the secondary
  status,     \* Ready condition and SyncedWebhooks of the stored object
  slot,       \* the ticker's channel holds an event
  queued,     \* the object is in the workqueue
  pc,         \* "idle", or the loop Reconcile is in
  todo,       \* what is left of that loop
  targets,    \* targetGroups of the running pass
  view,       \* the transformed matching configurations, as listed
  synced,     \* syncedValidating and syncedMutating
  failed,     \* syncErrors is not empty
  fresh,      \* the pass's copy of the WebhookSync is still the stored one
  touched,    \* what others changed on the secondary since the pass began
  changes, drifts, faults

world == <<primary, spec>>
cache == <<seen, latest>>
worker == <<pc, todo, targets, view, synced, failed, fresh>>
budgets == <<changes, drifts, faults>>
vars == <<world, cache, secondary, status, slot, queued, worker, touched, budgets>>

-----------------------------------------------------------------------------
(* A configuration has the API groups of its rules and the client          *)
(* configuration of its webhooks: a Service with an optional port, or a    *)
(* URL.                                                                    *)
ServicePort(port) == IF port = None THEN 443 ELSE port

Transform(config) ==
  [groups |-> config.groups,
   url    |-> IF config.service = None THEN config.url
              ELSE <<config.service, ServicePort(config.port)>>]

ShouldSync(config, targetGroups) ==
  config # None /\ config.groups \cap (targetGroups \cup {"*"}) # {}

(* What should be on the secondary for this content of the caches.         *)
Desired(hooks, targetGroups) ==
  [n \in Hooks |-> IF ShouldSync(hooks[n], targetGroups) THEN Transform(hooks[n]) ELSE None]

Copies == {Transform(config) : config \in Configs}
Groups == UNION {config.groups : config \in Configs} \ {"*"}
Specs == [exists: BOOLEAN, groups: SUBSET Groups]
Nothing == [n \in Hooks |-> None]
NoStatus == [ready |-> "unset", validating |-> 0, mutating |-> 0]

Init ==
  /\ primary \in [Hooks -> Configs \cup {None}]
  /\ \E g \in Groups : spec = [exists |-> TRUE, groups |-> {g}]
  /\ seen = [hooks |-> primary, spec |-> spec] /\ latest = TRUE
  /\ secondary = Nothing
  /\ status = NoStatus
  /\ slot = FALSE /\ queued = TRUE
  /\ pc = "idle" /\ todo = {} /\ targets = {} /\ view = Nothing /\ synced = {}
  /\ failed = FALSE /\ fresh = FALSE /\ touched = {}
  /\ changes = 0 /\ drifts = 0 /\ faults = 0

-----------------------------------------------------------------------------
(* The primary, the secondary and the informers (external).                *)

ChangeHook(n) ==
  /\ changes < MaxChanges
  /\ \E c \in (Configs \cup {None}) \ {primary[n]} : primary' = [primary EXCEPT ![n] = c]
  /\ changes' = changes + 1
  /\ UNCHANGED <<spec, cache, secondary, status, slot, queued, worker, touched, drifts, faults>>

EditSpec ==
  /\ changes < MaxChanges
  /\ spec' \in {[spec EXCEPT !.exists = ~@]}
                \cup {[spec EXCEPT !.groups = {g}] : g \in Groups}
  /\ spec' # spec
  /\ status' = IF spec'.exists = spec.exists THEN status ELSE NoStatus
  /\ latest' = FALSE /\ fresh' = FALSE
  /\ changes' = changes + 1
  /\ UNCHANGED <<primary, seen, secondary, slot, queued, pc, todo, targets, view, synced, failed,
                 touched, drifts, faults>>

(* secretToWebhookSyncMapper: a Secret of the connection changes.          *)
SecretEvent ==
  /\ changes < MaxChanges
  /\ changes' = changes + 1
  /\ queued' = (queued \/ seen.spec.exists)
  /\ UNCHANGED <<world, cache, secondary, status, slot, worker, touched, drifts, faults>>

Drift(n) ==
  /\ drifts < MaxDrifts
  /\ \E c \in (Copies \cup {None}) \ {secondary[n]} :
       secondary' = [secondary EXCEPT ![n] = c]
  /\ touched' = touched \cup {n}
  /\ drifts' = drifts + 1
  /\ UNCHANGED <<world, cache, status, slot, queued, worker, changes, faults>>

(* Variant: mutating configurations are not watched.                       *)
ObserveHooksValidating(kind) ==
  /\ \E n \in Of(kind) : seen.hooks[n] # primary[n]
  /\ seen' = [seen EXCEPT !.hooks = [n \in Hooks |-> IF n \in Of(kind) THEN primary[n] ELSE @[n]]]
  /\ queued' = (queued \/ (seen.spec.exists /\ kind = "validating"))
  /\ UNCHANGED <<world, latest, secondary, status, slot, worker, touched, budgets>>

(* One watch for each kind; an event of either enqueues every WebhookSync. *)
ObserveHooks(kind) ==
  /\ \E n \in Of(kind) : seen.hooks[n] # primary[n]
  /\ seen' = [seen EXCEPT !.hooks = [n \in Hooks |-> IF n \in Of(kind) THEN primary[n] ELSE @[n]]]
  /\ queued' = (queued \/ seen.spec.exists)
  /\ UNCHANGED <<world, latest, secondary, status, slot, worker, touched, budgets>>

(* For without a predicate: every change of the object enqueues it, the    *)
(* controller's own status writes included.                                *)
ObserveSpec ==
  /\ ~latest /\ latest' = TRUE
  /\ seen' = [seen EXCEPT !.spec = spec]
  /\ queued' = TRUE
  /\ UNCHANGED <<world, secondary, status, slot, worker, touched, budgets>>

(* The ticker puts an event into its channel, unless it is full.           *)
Tick ==
  /\ ~slot /\ slot' = TRUE
  /\ UNCHANGED <<world, cache, secondary, status, queued, worker, touched, budgets>>

(* Variant: the channel is drained without enqueueing.                     *)
TickReceivedDropped ==
  /\ slot /\ slot' = FALSE
  /\ UNCHANGED <<world, cache, secondary, status, queued, worker, touched, budgets>>

TickReceived ==
  /\ slot /\ slot' = FALSE
  /\ queued' = (queued \/ seen.spec.exists)
  /\ UNCHANGED <<world, cache, secondary, status, worker, touched, budgets>>

-----------------------------------------------------------------------------
(* Reconcile.                                                              *)

(* A request succeeds, is rejected, or takes effect and loses its answer.  *)
Outcomes == {"ok", "rejected", "lost"}
Spend(o) ==
  /\ o = "ok" \/ faults < MaxFaults
  /\ faults' = IF o = "ok" THEN faults ELSE faults + 1
  /\ UNCHANGED <<changes, drifts>>

(* What a status write leaves: one based on an old copy is a conflict, and *)
(* one that changes something makes the cached object an old one.          *)
WriteStatus(o, base, new) ==
  LET written == o # "rejected" /\ base
  IN  /\ status' = IF written THEN new ELSE status
      /\ \E newSecond \in BOOLEAN :
           latest' = (latest /\ ~(written /\ (new # status \/ newSecond)))

(* The object is gone.                                                     *)
StartGone ==
  /\ pc = "idle" /\ queued /\ ~seen.spec.exists
  /\ queued' = FALSE
  /\ UNCHANGED <<world, cache, secondary, status, slot, worker, touched, budgets>>

(* The client cannot be built.  The error is returned, whatever becomes of *)
(* the status write.  A failed list of the validating configurations is    *)
(* the case without a status write.                                        *)
StartUnavailable(o) ==
  /\ pc = "idle" /\ queued /\ seen.spec.exists
  /\ faults < MaxFaults /\ faults' = faults + 1
  /\ WriteStatus(o, latest, [status EXCEPT !.ready = "False"])
  /\ UNCHANGED <<world, seen, secondary, slot, queued, worker, touched, changes, drifts>>

(* What the cache lists of a kind, and what matches of it.                 *)
List(kind, targetGroups) ==
  LET desired == Desired(seen.hooks, targetGroups)
  IN  /\ view' = [n \in Hooks |-> IF n \in Of(kind) THEN desired[n] ELSE view[n]]
      /\ todo' = {n \in Of(kind) : desired[n] # None}

(* The pass reads the object and lists the validating configurations.      *)
Start ==
  /\ pc = "idle" /\ queued /\ seen.spec.exists
  /\ queued' = FALSE /\ pc' = "validating"
  /\ targets' = seen.spec.groups
  /\ List("validating", seen.spec.groups)
  /\ synced' = {} /\ failed' = FALSE /\ fresh' = latest /\ touched' = {}
  /\ UNCHANGED <<world, cache, secondary, status, slot, budgets>>

(* It lists the mutating ones when the validating ones are done.           *)
StartMutating ==
  /\ pc = "validating" /\ todo = {} /\ pc' = "mutating"
  /\ List("mutating", targets)
  /\ UNCHANGED <<world, cache, secondary, status, slot, queued, targets, synced, failed, fresh,
                 touched, budgets>>

(* That list fails: the error is returned, without a status write and      *)
(* before anything stale is deleted.                                       *)
ListMutatingFails ==
  /\ pc = "validating" /\ todo = {} /\ pc' = "idle"
  /\ faults < MaxFaults /\ faults' = faults + 1
  /\ queued' = TRUE /\ targets' = {} /\ synced' = {} /\ failed' = FALSE /\ fresh' = FALSE
  /\ UNCHANGED <<world, cache, secondary, status, slot, todo, view, touched, changes, drifts>>

(* Get, then Create or Update.  Whatever error either has (a change by     *)
(* others in between, which is a conflict, is one) leaves the name out of  *)
(* the synced ones.                                                        *)
Sync(n, o) ==
  /\ pc \in Kinds /\ n \in todo
  /\ Spend(o)
  /\ todo' = todo \ {n}
  /\ synced' = IF o = "ok" THEN synced \cup {n} ELSE synced
  /\ failed' = (failed \/ o # "ok")
  /\ secondary' = IF o = "rejected" THEN secondary ELSE [secondary EXCEPT ![n] = view[n]]
  /\ UNCHANGED <<world, cache, status, slot, queued, pc, targets, view, fresh, touched>>

(* Variant: each of the two is given the names of the other kind.          *)
ListStaleSwapped(o) ==
  LET kind == IF pc = "mutating" THEN "validating" ELSE "mutating"
  IN  /\ pc \in {"mutating", "staleValidating"} /\ todo = {}
      /\ o # "lost" /\ Spend(o)
      /\ pc' = IF pc = "mutating" THEN "staleValidating" ELSE "staleMutating"
      /\ todo' = IF o = "ok" THEN {n \in Of(kind) : secondary[n] # None} ELSE {}
      /\ failed' = (failed \/ o # "ok")
      /\ UNCHANGED <<world, cache, secondary, status, slot, queued, targets, view, synced,
                     fresh, touched>>

(* The list deleteStaleValidating or deleteStaleMutating begins with.      *)
ListStale(o) ==
  LET kind == IF pc = "mutating" THEN "validating" ELSE "mutating"
  IN  /\ pc \in {"mutating", "staleValidating"} /\ todo = {}
      /\ o # "lost" /\ Spend(o)
      /\ pc' = IF pc = "mutating" THEN "staleValidating" ELSE "staleMutating"
      /\ todo' = IF o = "ok" THEN {n \in Of(kind) \ synced : secondary[n] # None} ELSE {}
      /\ failed' = (failed \/ o # "ok")
      /\ UNCHANGED <<world, cache, secondary, status, slot, queued, targets, view, synced,
                     fresh, touched>>

(* One deletion of their loop.  NotFound is no error; any other ends the   *)
(* loop.                                                                   *)
DeleteStale(n, o) ==
  /\ pc \in {"staleValidating", "staleMutating"} /\ n \in todo
  /\ Spend(o)
  /\ todo' = IF o = "ok" THEN todo \ {n} ELSE {}
  /\ failed' = (failed \/ o # "ok")
  /\ secondary' = IF o = "rejected" THEN secondary ELSE [secondary EXCEPT ![n] = None]
  /\ UNCHANGED <<world, cache, status, slot, queued, pc, targets, view, synced, fresh, touched>>

(* The status write.  A failed one is returned as the pass's error.        *)
Finish(o) ==
  /\ pc = "staleMutating" /\ todo = {}
  /\ Spend(o)
  /\ WriteStatus(o, fresh, [ready |-> IF failed THEN "False" ELSE "True",
                            validating |-> Cardinality(synced \cap Validating),
                            mutating |-> Cardinality(synced \cap Mutating)])
  /\ queued' = (queued \/ o # "ok" \/ ~fresh)
  /\ pc' = "idle" /\ targets' = {} /\ synced' = {} /\ failed' = FALSE /\ fresh' = FALSE
  /\ UNCHANGED <<world, seen, secondary, slot, todo, view, touched>>

-----------------------------------------------------------------------------
Reconcile ==
  \/ StartGone \/ Start \/ StartMutating \/ ListMutatingFails
  \/ \E o \in Outcomes : StartUnavailable(o) \/ ListStale(o) \/ Finish(o)
  \/ \E n \in Hooks, o \in Outcomes : Sync(n, o) \/ DeleteStale(n, o)

Next ==
  \/ \E n \in Hooks : ChangeHook(n) \/ Drift(n)
  \/ EditSpec \/ SecretEvent
  \/ \E kind \in Kinds : ObserveHooks(kind)
  \/ ObserveSpec \/ Tick \/ TickReceived
  \/ Reconcile

Spec == Init /\ [][Next]_vars

(* The informers and the ticker keep delivering, and the worker keeps      *)
(* taking what is queued and finishes its passes.                          *)
Fairness ==
  /\ \A kind \in Kinds : WF_vars(ObserveHooks(kind))
  /\ WF_vars(ObserveSpec) /\ WF_vars(Tick) /\ WF_vars(TickReceived)
  /\ WF_vars(Reconcile)

FairSpec == Spec /\ Fairness
-----------------------------------------------------------------------------
(* Properties.                                                             *)

(* Every variable keeps the shape Reconcile and the handlers give it.      *)
TypeOK ==
  /\ primary \in [Hooks -> Configs \cup {None}] /\ spec \in Specs
  /\ seen \in [hooks: [Hooks -> Configs \cup {None}], spec: Specs]
  /\ secondary \in [Hooks -> Copies \cup {None}] /\ view \in [Hooks -> Copies \cup {None}]
  /\ status \in [ready: {"unset", "False", "True"}, validating: Nat, mutating: Nat]
  /\ slot \in BOOLEAN /\ queued \in BOOLEAN /\ latest \in BOOLEAN /\ failed \in BOOLEAN
  /\ fresh \in BOOLEAN
  /\ pc \in {"idle", "staleValidating", "staleMutating"} \cup Kinds
  /\ todo \in SUBSET Hooks /\ synced \in SUBSET Hooks /\ touched \in SUBSET Hooks
  /\ targets \in SUBSET Groups
  /\ changes \in 0..MaxChanges /\ drifts \in 0..MaxDrifts /\ faults \in 0..MaxFaults

(* When nothing is queued, no pass runs and the caches are up to date,     *)
(* Ready=True (SyncComplete) means that the secondary has exactly the      *)
(* transformed matching configurations of the primary of this moment, and  *)
(* SyncedWebhooks counts them, except for what others did since the pass   *)
(* began.                                                                  *)
ReadyMeansSynced ==
  LET desired == Desired(primary, spec.groups)
      Count(kind) == Cardinality({n \in Of(kind) : desired[n] # None})
  IN  (/\ pc = "idle" /\ ~queued /\ seen = [hooks |-> primary, spec |-> spec]
       /\ spec.exists /\ status.ready = "True")
      => /\ \A n \in Hooks \ touched : secondary[n] = desired[n]
         /\ \A kind \in Kinds : status[kind] = Count(kind)

(* The refinement mapping, for the configurations of one kind.             *)
Only(kind, f) == [n \in Of(kind) |-> f[n]]
Wanted(kind) == Only(kind, IF seen.spec.exists THEN Desired(seen.hooks, seen.spec.groups) ELSE view)
V == INSTANCE Mirror WITH
       Names <- Validating, Values <- Copies, Protected <- {}, leaving <- {}, foreign <- drifts,
       wanted <- Wanted("validating"), view <- Only("validating", view),
       have <- Only("validating", secondary)

(* As long as no request has failed, Reconcile implements Mirror: of the   *)
(* validating configurations it puts only what matched when the cache was  *)
(* listed, and removes only what did not.                                  *)
ImplementsMirror == V!Init /\ [][faults' = 0 => V!Next]_(V!vars)

(* deleteStaleValidating and deleteStaleMutating remove configurations     *)
(* "not in the currentNames set (i.e. no longer match the primary)": the   *)
(* controller removes nothing that matched when the pass listed it.        *)
RemovesOnlyStale ==
  [][\A n \in Hooks :
       secondary[n] # None /\ secondary'[n] = None /\ drifts' = drifts => view[n] = None]_vars

(* Once changes and faults stop, the secondary ends up with exactly the    *)
(* matching configurations, also the ones that a failed request made the   *)
(* controller delete, and the status says so.                              *)
Converges ==
  <>[](spec.exists => /\ status.ready = "True"
                      /\ secondary = Desired(primary, spec.groups))
=============================================================================
