--------------------------- MODULE WebhookSyncProofs ---------------------------
(***************************************************************************)
(* For every set of webhook configurations and API groups: the invariants  *)
(* of WebhookSync, and that it implements Mirror until a request fails.    *)
(***************************************************************************)
EXTENDS WebhookSync, FiniteSetTheorems, TLAPS

USE DEF vars, world, cache, worker, budgets

(* What the pass has listed, matched, and gone through to delete.          *)
Stale == {"staleValidating", "staleMutating"}
Matched == {n \in IF pc = "validating" THEN Validating ELSE Hooks : view[n] # None}
Copied == IF pc \in Kinds THEN Matched \ todo ELSE Matched
Swept == CASE pc \in Kinds -> {} [] pc = "staleValidating" -> Validating [] OTHER -> Hooks

(* The loops keep to their kind.  Without a failure every match is copied  *)
(* and every other configuration deleted, but for what is left to do and   *)
(* what others have changed.                                               *)
Progress ==
  /\ pc \in Kinds => todo \subseteq Of(pc) \cap Matched
  /\ pc = "staleValidating" => todo \subseteq Validating \ synced
  /\ pc = "staleMutating" => todo \subseteq Mutating \ synced
  /\ faults = 0 => ~failed
  /\ pc # "idle" /\ ~failed =>
       /\ synced = Copied
       /\ \A n \in Copied \ touched : secondary[n] = view[n]
       /\ \A n \in (Swept \ todo) \ touched : view[n] = None => secondary[n] = None

(* While nothing is queued, the caches still hold what the pass has read.  *)
Matches == Desired(seen.hooks, seen.spec.groups)
Current ==
  /\ pc # "idle" /\ ~queued =>
       /\ seen.spec.exists /\ targets = seen.spec.groups
       /\ \A n \in IF pc = "validating" THEN Validating ELSE Hooks : view[n] = Matches[n]
  /\ pc = "idle" /\ ~queued /\ seen.spec.exists /\ status.ready = "True" =>
       /\ \A n \in Hooks \ touched : secondary[n] = Matches[n]
       /\ \A kind \in Kinds : status[kind] = Cardinality({n \in Of(kind) : Matches[n] # None})

(* A configuration that matches is copied in its transformed form.         *)
LEMMA DesiredType ==
  ASSUME NEW hooks \in [Hooks -> Configs \cup {None}], NEW g
  PROVE  Desired(hooks, g) \in [Hooks -> Copies \cup {None}]
<1>1. ASSUME NEW n \in Hooks, ShouldSync(hooks[n], g) PROVE Transform(hooks[n]) \in Copies
  BY <1>1, Zenon DEF ShouldSync, Copies
<1> QED  BY <1>1, Zenon DEF Desired

LEMMA OfIs == Of("validating") = Validating /\ Of("mutating") = Mutating
  BY Zenon DEF Of

LEMMA HooksFinite ==
  ASSUME NEW S, S \subseteq Hooks
  PROVE  IsFiniteSet(S) /\ Cardinality(S) \in Nat
  BY HooksAssumption, FS_Subset, FS_CardinalityType, Zenon

LEMMA InitTypes == Init => TypeOK
<1> SUFFICES ASSUME Init PROVE TypeOK
  BY Zenon
<1>1. spec \in Specs
  BY DEF Init, Specs
<1>2. seen \in [hooks: [Hooks -> Configs \cup {None}], spec: Specs]
  BY <1>1, Zenon DEF Init
<1>3. status \in [ready: {"unset", "False", "True"}, validating: Nat, mutating: Nat]
  BY Zenon DEF Init, NoStatus
<1>4. 0 \in 0..MaxChanges /\ 0 \in 0..MaxDrifts /\ 0 \in 0..MaxFaults
  BY BoundsAssumption
<1>5. Nothing \in [Hooks -> Copies \cup {None}]
  BY Zenon DEF Nothing
<1> QED  BY <1>1, <1>2, <1>3, <1>4, <1>5, Zenon DEF Init, TypeOK

LEMMA StepTypes == TypeOK /\ [Next]_vars => TypeOK'
<1> SUFFICES ASSUME TypeOK, [Next]_vars PROVE TypeOK'
  BY Zenon
<1> USE BoundsAssumption
<1> DEFINE Statuses == [ready: {"unset", "False", "True"}, validating: Nat, mutating: Nat]
<1>1. ASSUME NEW n \in Hooks, ChangeHook(n) PROVE TypeOK'
  BY <1>1 DEF TypeOK, ChangeHook
<1>2. ASSUME NEW n \in Hooks, Drift(n) PROVE TypeOK'
  BY <1>2 DEF TypeOK, Drift
<1>3. CASE EditSpec
  <2>1. spec' \in Specs
    <3>1. CASE spec' = [spec EXCEPT !.exists = ~@]
      <4>1. (~ spec.exists) \in BOOLEAN
        BY Zenon
      <4> QED  BY <3>1, <4>1, Zenon DEF TypeOK, Specs
    <3>2. CASE \E g \in Groups : spec' = [spec EXCEPT !.groups = {g}]
      BY <3>2 DEF TypeOK, Specs
    <3> QED  BY <1>3, <3>1, <3>2, Zenon DEF EditSpec
  <2>2. status' \in Statuses
    BY <1>3, Zenon DEF TypeOK, EditSpec, NoStatus
  <2>3. /\ latest' = FALSE /\ fresh' = FALSE /\ changes' \in 0..MaxChanges
        /\ UNCHANGED <<primary, seen, secondary, slot, queued, pc, todo, targets, view, synced,
                       failed, touched, drifts, faults>>
    BY <1>3 DEF TypeOK, EditSpec
  <2> QED  BY <2>1, <2>2, <2>3, Zenon DEF TypeOK
<1>4. CASE SecretEvent
  BY <1>4 DEF TypeOK, SecretEvent, Specs
<1>5. ASSUME NEW kind \in Kinds, ObserveHooks(kind) PROVE TypeOK'
  <2>1. seen' \in [hooks: [Hooks -> Configs \cup {None}], spec: Specs]
    <3> DEFINE now == [n \in Hooks |-> IF n \in Of(kind) THEN primary[n] ELSE seen.hooks[n]]
    <3>1. now \in [Hooks -> Configs \cup {None}]
      BY Zenon DEF TypeOK
    <3>2. seen' = [seen EXCEPT !.hooks = now]
      BY <1>5, Zenon DEF ObserveHooks
    <3> HIDE DEF now
    <3> QED  BY <3>1, <3>2, Zenon DEF TypeOK
  <2>2. queued' \in BOOLEAN
    BY <1>5, Zenon DEF ObserveHooks
  <2>3. UNCHANGED <<world, latest, secondary, status, slot, worker, touched, budgets>>
    BY <1>5, Zenon DEF ObserveHooks
  <2> QED  BY <2>1, <2>2, <2>3 DEF TypeOK
<1>6. CASE ObserveSpec
  BY <1>6, Zenon DEF TypeOK, ObserveSpec
<1>7. CASE Tick \/ TickReceived
  <2>1. UNCHANGED <<world, cache, secondary, status, worker, touched, budgets>>
    BY <1>7, Zenon DEF Tick, TickReceived
  <2>2. slot' \in BOOLEAN /\ queued' \in BOOLEAN
    BY <1>7, Zenon DEF TypeOK, Tick, TickReceived
  <2> QED  BY <2>1, <2>2, Zenon DEF TypeOK, world, cache, worker, budgets
<1>8. CASE StartGone
  BY <1>8, Zenon DEF TypeOK, StartGone
<1>9. ASSUME NEW o \in Outcomes, StartUnavailable(o) PROVE TypeOK'
  <2>1. status' \in Statuses
    BY <1>9, Zenon DEF TypeOK, StartUnavailable, WriteStatus
  <2>2. latest' \in BOOLEAN /\ faults' \in 0..MaxFaults
    BY <1>9 DEF TypeOK, StartUnavailable, WriteStatus
  <2>3. UNCHANGED <<world, seen, secondary, slot, queued, worker, touched, changes, drifts>>
    BY <1>9, Zenon DEF StartUnavailable
  <2> QED  BY <2>1, <2>2, <2>3, Zenon DEF TypeOK
<1>10. ASSUME NEW kind \in Kinds, NEW g, List(kind, g)
       PROVE  view' \in [Hooks -> Copies \cup {None}] /\ todo' \in SUBSET Hooks
  <2>1. Desired(seen.hooks, g) \in [Hooks -> Copies \cup {None}] /\ Of(kind) \subseteq Hooks
    BY DesiredType, Zenon DEF TypeOK, Of, Hooks
  <2> QED  BY <1>10, <2>1, Zenon DEF List, TypeOK
<1>11. CASE Start
  <2>1. view' \in [Hooks -> Copies \cup {None}] /\ todo' \in SUBSET Hooks
    BY <1>10, <1>11, Zenon DEF Start, Kinds
  <2>2. targets' \in SUBSET Groups
    BY <1>11, Zenon DEF Start, TypeOK, Specs
  <2> QED  BY <1>11, <2>1, <2>2, Zenon DEF Start, TypeOK, Kinds
<1>12. CASE StartMutating
  <2>1. view' \in [Hooks -> Copies \cup {None}] /\ todo' \in SUBSET Hooks
    BY <1>10, <1>12, Zenon DEF StartMutating, Kinds
  <2> QED  BY <1>12, <2>1, Zenon DEF StartMutating, TypeOK, Kinds
<1>18. CASE ListMutatingFails
  <2>1. faults' \in 0..MaxFaults
    BY <1>18 DEF TypeOK, ListMutatingFails
  <2> QED  BY <1>18, <2>1, Zenon DEF TypeOK, ListMutatingFails
<1>13. ASSUME NEW n \in Hooks, NEW o \in Outcomes, Sync(n, o) PROVE TypeOK'
  BY <1>13 DEF TypeOK, Sync, Spend
<1>14. ASSUME NEW o \in Outcomes, ListStale(o) PROVE TypeOK'
  <2>1. todo' \in SUBSET Hooks
    BY <1>14, Zenon DEF ListStale, Of, Hooks
  <2> QED  BY <1>14, <2>1 DEF TypeOK, ListStale, Spend
<1>15. ASSUME NEW n \in Hooks, NEW o \in Outcomes, DeleteStale(n, o) PROVE TypeOK'
  BY <1>15 DEF TypeOK, DeleteStale, Spend
<1>16. ASSUME NEW o \in Outcomes, Finish(o) PROVE TypeOK'
  <2>1. Cardinality(synced \cap Validating) \in Nat /\ Cardinality(synced \cap Mutating) \in Nat
    BY HooksFinite, Zenon DEF TypeOK
  <2>2. status' \in Statuses /\ latest' \in BOOLEAN
    BY <1>16, <2>1, Zenon DEF TypeOK, Finish, WriteStatus
  <2>3. faults' \in 0..MaxFaults /\ UNCHANGED <<changes, drifts>>
    BY <1>16 DEF TypeOK, Finish, Spend
  <2> QED  BY <1>16, <2>2, <2>3, Zenon DEF TypeOK, Finish
<1>17. CASE UNCHANGED vars
  BY <1>17 DEF TypeOK
<1> QED
  BY <1>1, <1>2, <1>3, <1>4, <1>5, <1>6, <1>7, <1>8, <1>9, <1>11, <1>12, <1>13, <1>14, <1>15,
     <1>16, <1>17, <1>18, Zenon DEF Next, Reconcile

(* TypeOK holds in every state of every instance.                          *)
THEOREM TypeCorrect == Spec => []TypeOK
  BY InitTypes, StepTypes, PTL DEF Spec
-----------------------------------------------------------------------------
(* What a pass listed of one kind.                                         *)
LEMMA ListIs ==
  ASSUME TypeOK, NEW kind \in Kinds, NEW g, List(kind, g)
  PROVE  /\ \A n \in Of(kind) : view'[n] = Desired(seen.hooks, g)[n]
         /\ \A n \in Hooks \ Of(kind) : view'[n] = view[n]
         /\ todo' = {n \in Of(kind) : view'[n] # None}
<1>1. Of(kind) \subseteq Hooks
  BY Zenon DEF Of, Hooks
<1> QED  BY <1>1, Zenon DEF List

LEMMA StepProgress == TypeOK /\ Progress /\ [Next]_vars => Progress'
<1> SUFFICES ASSUME TypeOK, Progress, [Next]_vars PROVE Progress'
  BY Zenon
<1>0. Validating \subseteq Hooks /\ Mutating \subseteq Hooks /\ Hooks = Validating \cup Mutating
      /\ Validating \cap Mutating = {}
  BY HooksAssumption, Zenon DEF Hooks
<1>1. ASSUME UNCHANGED <<secondary, pc, todo, view, synced, failed, touched>>,
             faults' = 0 => faults = 0
      PROVE  Progress'
  BY <1>1 DEF Progress, Matched, Copied, Swept
<1>2. ASSUME NEW n \in Hooks, Drift(n) PROVE Progress'
  <2>1. /\ \A m \in Hooks \ {n} : secondary'[m] = secondary[m]
        /\ touched' = touched \cup {n}
        /\ UNCHANGED <<pc, todo, view, synced, failed, faults>>
    BY <1>2, Zenon DEF Drift, TypeOK
  <2>2. Copied' = Copied /\ Swept' = Swept /\ Matched' = Matched /\ Copied \subseteq Hooks /\ Swept \subseteq Hooks
    BY <1>0, <2>1, Zenon DEF Copied, Swept, Matched
  <2> QED  BY <2>1, <2>2, Zenon DEF Progress
<1>3. CASE Start
  <2>1. /\ pc' = "validating" /\ todo' = {n \in Validating : view'[n] # None}
        /\ synced' = {} /\ failed' = FALSE
    BY <1>3, ListIs, OfIs, Zenon DEF Start, Kinds
  <2>2. Matched' = todo' /\ Copied' = {} /\ Swept' = {}
    BY <2>1, Zenon DEF Matched, Copied, Swept, Kinds
  <2> QED  BY <2>1, <2>2, OfIs, Zenon DEF Progress, Kinds
<1>4. CASE StartMutating
  <2>1. /\ pc = "validating" /\ todo = {} /\ pc' = "mutating"
        /\ todo' = {n \in Mutating : view'[n] # None}
        /\ \A n \in Hooks \ Mutating : view'[n] = view[n]
        /\ UNCHANGED <<secondary, synced, failed, touched, faults>>
    BY <1>4, ListIs, OfIs, Zenon DEF StartMutating, Kinds
  <2>2. Copied = {n \in Validating : view[n] # None}
    BY <2>1, Zenon DEF Matched, Copied, Kinds
  <2>3. Matched' = Copied \cup todo' /\ Copied' = Copied /\ Swept' = {}
    BY <1>0, <2>1, <2>2 DEF Matched, Copied, Swept, Kinds
  <2>4. \A n \in Copied : view'[n] = view[n]
    BY <1>0, <2>1, <2>2, Zenon
  <2> QED  BY <1>0, <2>1, <2>3, <2>4, OfIs, Zenon DEF Progress, Kinds
<1>5. ASSUME NEW n \in Hooks, NEW o \in Outcomes, Sync(n, o) PROVE Progress'
  <2>1. /\ pc \in Kinds /\ n \in todo /\ todo' = todo \ {n} /\ UNCHANGED <<pc, view, touched>>
        /\ \A m \in Hooks \ {n} : secondary'[m] = secondary[m]
    BY <1>5, Zenon DEF Sync, TypeOK
  <2>2. todo \subseteq Of(pc) \cap Matched /\ Matched' = Matched /\ Copied = Matched \ todo
        /\ Copied' = Copied \cup {n} /\ Swept' = {} /\ Matched \subseteq Hooks
    <3>1. todo \subseteq Of(pc) \cap Matched
      BY <2>1, Zenon DEF Progress
    <3>2. Matched' = Matched /\ Copied = Matched \ todo /\ Copied' = Matched \ (todo \ {n}) /\ Swept' = {}
      <4>1. Matched' = Matched
        BY <2>1, Zenon DEF Matched
      <4>2. Copied = Matched \ todo /\ Copied' = Matched' \ todo'
        BY <2>1, Zenon DEF Copied
      <4>3. Swept' = {}
        BY <2>1, Zenon DEF Swept, Kinds
      <4> QED  BY <2>1, <4>1, <4>2, <4>3, Zenon
    <3>3. Matched \subseteq Hooks
      BY <1>0, Zenon DEF Matched
    <3> QED  BY <2>1, <3>1, <3>2, <3>3, Zenon
  <2>3. pc # "staleValidating" /\ pc # "staleMutating" /\ pc # "idle"
    BY <2>1, Zenon DEF Kinds
  <2>4. CASE o = "ok"
    <3>1. synced' = synced \cup {n} /\ failed' = failed /\ secondary'[n] = view[n] /\ faults' = faults
      BY <1>5, <2>4, Zenon DEF Sync, Spend, TypeOK
    <3> QED  BY <2>1, <2>2, <2>3, <3>1, Zenon DEF Progress
  <2>5. CASE o # "ok"
    <3>1. faults' = faults + 1 /\ faults \in Nat
      BY <1>5, <2>5 DEF Sync, Spend, TypeOK
    <3>2. failed'
      BY <1>5, <2>5, Zenon DEF Sync
    <3> QED  BY <2>1, <2>2, <2>3, <3>1, <3>2 DEF Progress
  <2> QED  BY <2>4, <2>5, Zenon
<1>6. ASSUME NEW o \in Outcomes, ListStale(o) PROVE Progress'
  <2>1. /\ todo = {} /\ UNCHANGED <<secondary, view, synced, touched>>
        /\ failed' = (failed \/ o # "ok")
    BY <1>6, Zenon DEF ListStale
  <2>a. o # "ok" => failed'
    BY <2>1, Zenon
  <2>b. o # "ok" => faults' = faults + 1 /\ faults \in Nat
    BY <1>6 DEF ListStale, Spend, TypeOK
  <2>2. o # "ok" => failed' /\ faults' = faults + 1 /\ faults \in Nat
    BY <2>a, <2>b, Zenon
  <2>3. o = "ok" => failed' = failed /\ faults' = faults
    BY <1>6, Zenon DEF ListStale, Spend, TypeOK
  <2>4. CASE pc = "mutating"
    <3>1. /\ pc' = "staleValidating"
          /\ todo' = IF o = "ok" THEN {n \in Validating \ synced : secondary[n] # None} ELSE {}
      BY <1>6, <2>4, OfIs, Zenon DEF ListStale
    <3>2. Copied' = Copied /\ Swept' = Validating /\ todo' \subseteq Validating \ synced
      BY <2>1, <2>4, <3>1, Zenon DEF Copied, Matched, Swept, Kinds
    <3>3. o = "ok" => \A n \in Validating \ todo' : n \in synced \/ secondary[n] = None
      BY <3>1, Zenon
    <3>4. \A n \in Copied : view[n] # None
      BY Zenon DEF Copied, Matched
    <3> QED  BY <2>1, <2>2, <2>3, <2>4, <3>1, <3>2, <3>3, <3>4 DEF Progress, Kinds
  <2>5. CASE pc = "staleValidating"
    <3>1. /\ pc' = "staleMutating"
          /\ todo' = IF o = "ok" THEN {n \in Mutating \ synced : secondary[n] # None} ELSE {}
      BY <1>6, <2>5, OfIs, Zenon DEF ListStale
    <3>2. /\ Copied' = Copied /\ Swept' = Hooks /\ Swept = Validating
          /\ todo' \subseteq Mutating \ synced
      BY <2>1, <2>5, <3>1, Zenon DEF Copied, Matched, Swept, Kinds
    <3>3. o = "ok" => \A n \in Mutating \ todo' : n \in synced \/ secondary[n] = None
      BY <3>1, Zenon
    <3>4. \A n \in Copied : view[n] # None
      BY Zenon DEF Copied, Matched
    <3> QED  BY <1>0, <2>1, <2>2, <2>3, <2>5, <3>1, <3>2, <3>3, <3>4 DEF Progress, Kinds
  <2> QED  BY <1>6, <2>4, <2>5, Zenon DEF ListStale
<1>7. ASSUME NEW n \in Hooks, NEW o \in Outcomes, DeleteStale(n, o) PROVE Progress'
  <2>1. /\ pc \in Stale /\ n \in todo /\ UNCHANGED <<pc, view, touched, synced>>
        /\ todo' = IF o = "ok" THEN todo \ {n} ELSE {}
        /\ \A m \in Hooks \ {n} : secondary'[m] = secondary[m]
    BY <1>7, Zenon DEF DeleteStale, TypeOK, Stale
  <2>2. Copied' = Copied /\ Swept' = Swept /\ n \notin synced /\ todo' \subseteq todo
        /\ Copied \subseteq Hooks /\ Swept \subseteq Hooks /\ pc \notin Kinds
    BY <1>0, <2>1, Zenon DEF Copied, Matched, Swept, Stale, Kinds, Progress
  <2>3. CASE o = "ok"
    <3>1. failed' = failed /\ secondary'[n] = None /\ faults' = faults
      BY <1>7, <2>3, Zenon DEF DeleteStale, Spend, TypeOK
    <3> QED  BY <2>1, <2>2, <2>3, <3>1 DEF Progress, Stale
  <2>4. CASE o # "ok"
    <3>1. faults' = faults + 1 /\ faults \in Nat
      BY <1>7, <2>4 DEF DeleteStale, Spend, TypeOK
    <3>2. failed'
      BY <1>7, <2>4, Zenon DEF DeleteStale
    <3> QED  BY <2>1, <2>2, <2>4, <3>1, <3>2 DEF Progress, Stale
  <2> QED  BY <2>3, <2>4, Zenon
<1>8. ASSUME NEW o \in Outcomes, Finish(o) PROVE Progress'
  <2>1. pc' = "idle" /\ failed' = FALSE
    BY <1>8, Zenon DEF Finish
  <2> QED  BY <2>1, Zenon DEF Progress, Kinds
<1>11. CASE ListMutatingFails
  <2>1. pc' = "idle" /\ failed' = FALSE
    BY <1>11, Zenon DEF ListMutatingFails
  <2> QED  BY <2>1, Zenon DEF Progress, Kinds
<1>9. CASE \/ Tick \/ TickReceived \/ EditSpec \/ SecretEvent \/ ObserveSpec \/ StartGone
           \/ UNCHANGED vars \/ (\E n \in Hooks : ChangeHook(n))
           \/ (\E kind \in Kinds : ObserveHooks(kind))
  BY <1>1, <1>9, Zenon DEF Tick, TickReceived, EditSpec, SecretEvent, ObserveSpec, StartGone, ChangeHook,
     ObserveHooks
<1>10. ASSUME NEW o \in Outcomes, StartUnavailable(o) PROVE Progress'
  <2>1. faults' = faults + 1 /\ faults \in Nat
        /\ UNCHANGED <<secondary, pc, todo, view, synced, failed, touched>>
    BY <1>10 DEF StartUnavailable, TypeOK
  <2> QED  BY <1>1, <2>1
<1> QED
  BY <1>2, <1>3, <1>4, <1>5, <1>6, <1>7, <1>8, <1>9, <1>10, <1>11 DEF Next, Reconcile

-----------------------------------------------------------------------------
(* The last write of a pass of which nothing has failed, and since whose   *)
(* start nothing was queued, reports what the caches still hold.           *)
LEMMA FinishCurrent ==
  ASSUME TypeOK, Progress, Current, NEW o \in Outcomes, Finish(o), ~queued', status'.ready = "True"
  PROVE  /\ \A n \in Hooks \ touched : secondary[n] = Matches[n]
         /\ status'.validating = Cardinality({n \in Validating : Matches[n] # None})
         /\ status'.mutating = Cardinality({n \in Mutating : Matches[n] # None})
<1>0. Validating \subseteq Hooks /\ Mutating \subseteq Hooks /\ Hooks = Validating \cup Mutating
  BY Zenon DEF Hooks
<1>1. pc = "staleMutating" /\ todo = {} /\ ~queued /\ o = "ok" /\ fresh
  BY Zenon DEF Finish
<1>2. status' = [ready |-> IF failed THEN "False" ELSE "True",
                 validating |-> Cardinality(synced \cap Validating),
                 mutating |-> Cardinality(synced \cap Mutating)]
  BY <1>1, Zenon DEF Finish, WriteStatus
<1>3. ~failed
  BY <1>2, Zenon
<1>4. Copied = {n \in Hooks : view[n] # None} /\ Swept = Hooks
  BY <1>1, Zenon DEF Copied, Matched, Swept, Kinds
<1>5. \A n \in Hooks : view[n] = Matches[n]
  BY <1>1, Zenon DEF Current
<1>6. synced = Copied /\ \A n \in Hooks \ touched : secondary[n] = view[n]
  BY <1>1, <1>3, <1>4, Zenon DEF Progress
<1>7. /\ synced \cap Validating = {n \in Validating : Matches[n] # None}
      /\ synced \cap Mutating = {n \in Mutating : Matches[n] # None}
  BY <1>0, <1>4, <1>5, <1>6, Zenon
<1> QED  BY <1>2, <1>5, <1>6, <1>7, Zenon

LEMMA StepCurrent == TypeOK /\ Progress /\ Current /\ [Next]_vars => Current'
<1> SUFFICES ASSUME TypeOK, Progress, Current, [Next]_vars PROVE Current'
  BY Zenon
<1>0. Validating \subseteq Hooks /\ Mutating \subseteq Hooks /\ Hooks = Validating \cup Mutating
  BY Zenon DEF Hooks
<1>1. ASSUME UNCHANGED <<seen, secondary, pc, targets, view, touched>>, queued => queued',
             status' = status \/ status'.ready # "True"
      PROVE  Current'
  <2>1. Matches' = Matches
    BY <1>1, Zenon DEF Matches
  <2> QED  BY <1>1, <2>1, Zenon DEF Current
<1>2. ASSUME queued' \/ (~seen'.spec.exists /\ pc' = "idle") PROVE Current'
  BY <1>2, Zenon DEF Current
<1>3. ASSUME seen.spec.exists => queued', queued => queued', pc' = pc,
             seen'.spec.exists => seen.spec.exists \/ queued'
      PROVE  Current'
  <2>1. CASE pc = "idle"
    BY <1>2, <1>3, <2>1, Zenon
  <2>2. CASE pc # "idle"
    <3>1. seen.spec.exists \/ queued
      BY <2>2, Zenon DEF Current
    <3> QED  BY <1>2, <1>3, <3>1, Zenon
  <2> QED  BY <2>1, <2>2, Zenon
<1>4. ASSUME NEW n \in Hooks, Drift(n) PROVE Current'
  <2>1. /\ \A m \in Hooks \ {n} : secondary'[m] = secondary[m]
        /\ touched' = touched \cup {n}
        /\ UNCHANGED <<seen, pc, queued, view, targets, status>>
    BY <1>4, Zenon DEF Drift, TypeOK
  <2>2. Matches' = Matches
    BY <2>1, Zenon DEF Matches
  <2> QED  BY <2>1, <2>2, Zenon DEF Current
<1>5. CASE Start
  <2>1. /\ seen.spec.exists /\ pc' = "validating" /\ targets' = seen.spec.groups
        /\ \A n \in Validating : view'[n] = Matches[n]
    BY <1>5, ListIs, OfIs, Zenon DEF Start, Kinds, Matches
  <2>2. seen' = seen /\ Matches' = Matches
    BY <1>5, Zenon DEF Start, Matches
  <2> QED  BY <2>1, <2>2, Zenon DEF Current
<1>6. CASE StartMutating
  <2>1. /\ pc = "validating" /\ pc' = "mutating"
        /\ \A n \in Mutating : view'[n] = Desired(seen.hooks, targets)[n]
        /\ \A n \in Hooks \ Mutating : view'[n] = view[n]
        /\ UNCHANGED <<seen, queued, targets>>
    BY <1>6, ListIs, OfIs, Zenon DEF StartMutating, Kinds
  <2>2. Matches' = Matches
    BY <2>1, Zenon DEF Matches
  <2>3. CASE ~queued
    <3>1. /\ seen.spec.exists /\ targets = seen.spec.groups
          /\ \A n \in Validating : view[n] = Matches[n]
      BY <2>1, <2>3, Zenon DEF Current
    <3>2. \A n \in Mutating : view'[n] = Matches[n]
      BY <2>1, <3>1, Zenon DEF Matches
    <3>3. \A n \in Hooks : view'[n] = Matches[n]
      BY <1>0, <2>1, <3>1, <3>2, Zenon
    <3> QED  BY <2>1, <2>2, <3>1, <3>3, Zenon DEF Current
  <2> QED  BY <1>2, <2>1, <2>3, Zenon
<1>7. ASSUME NEW n \in Hooks, NEW o \in Outcomes, Sync(n, o) \/ DeleteStale(n, o) PROVE Current'
  <2>1. pc # "idle" /\ UNCHANGED <<seen, pc, targets, view, queued>>
    BY <1>7, Zenon DEF Sync, DeleteStale, Kinds
  <2>2. Matches' = Matches
    BY <2>1, Zenon DEF Matches
  <2> QED  BY <2>1, <2>2, Zenon DEF Current
<1>8. ASSUME NEW o \in Outcomes, ListStale(o) PROVE Current'
  <2>1. /\ pc \in {"mutating", "staleValidating"} /\ pc' \in Stale
        /\ UNCHANGED <<seen, targets, view, queued>>
    BY <1>8, Zenon DEF ListStale, Stale
  <2>2. Matches' = Matches
    BY <2>1, Zenon DEF Matches
  <2> QED  BY <2>1, <2>2, Zenon DEF Current, Stale
<1>9. ASSUME NEW o \in Outcomes, Finish(o) PROVE Current'
  <2>1. pc' = "idle" /\ UNCHANGED <<seen, secondary, touched>>
    BY <1>9, Zenon DEF Finish
  <2>2. Matches' = Matches
    BY <2>1, Zenon DEF Matches
  <2>3. CASE queued' \/ status'.ready # "True"
    BY <2>1, <2>3, Zenon DEF Current
  <2>4. CASE ~queued' /\ status'.ready = "True"
    <3>1. /\ \A n \in Hooks \ touched : secondary[n] = Matches[n]
          /\ status'.validating = Cardinality({n \in Validating : Matches[n] # None})
          /\ status'.mutating = Cardinality({n \in Mutating : Matches[n] # None})
      BY <1>9, <2>4, FinishCurrent, Zenon
    <3>2. \A kind \in Kinds : status'[kind] = Cardinality({n \in Of(kind) : Matches[n] # None})
      BY <3>1, OfIs, Zenon DEF Kinds
    <3> QED  BY <2>1, <2>2, <3>1, <3>2, Zenon DEF Current
  <2> QED  BY <2>3, <2>4, Zenon
<1>10. CASE Tick \/ UNCHANGED vars \/ (\E n \in Hooks : ChangeHook(n)) \/ EditSpec
  <2>1. status' = status \/ status'.ready # "True"
    BY <1>10 DEF Tick, ChangeHook, EditSpec, NoStatus
  <2>2. queued' = queued /\ UNCHANGED <<seen, secondary, pc, targets, view, touched>>
    BY <1>10, Zenon DEF Tick, ChangeHook, EditSpec
  <2> QED  BY <1>1, <2>1, <2>2, Zenon
<1>11. CASE SecretEvent \/ TickReceived \/ ObserveSpec \/ (\E kind \in Kinds : ObserveHooks(kind))
  <2>1. (seen.spec.exists => queued') /\ (queued => queued')
    BY <1>11, Zenon DEF SecretEvent, TickReceived, ObserveSpec, ObserveHooks
  <2>2. pc' = pc /\ (seen'.spec.exists => seen.spec.exists \/ queued')
    <3>1. CASE ObserveSpec
      BY <3>1, Zenon DEF ObserveSpec
    <3>2. CASE SecretEvent \/ TickReceived
      BY <3>2, Zenon DEF SecretEvent, TickReceived
    <3>3. ASSUME NEW kind \in Kinds, ObserveHooks(kind) PROVE pc' = pc /\ seen'.spec = seen.spec
      BY <3>3, Zenon DEF ObserveHooks, TypeOK
    <3> QED  BY <1>11, <3>1, <3>2, <3>3, Zenon
  <2> QED  BY <1>3, <2>1, <2>2, Zenon
<1>12. CASE StartGone \/ ListMutatingFails \/ (\E o \in Outcomes : StartUnavailable(o))
  BY <1>2, <1>12 DEF StartGone, ListMutatingFails, StartUnavailable
<1> QED
  BY <1>4, <1>5, <1>6, <1>7, <1>8, <1>9, <1>10, <1>11, <1>12 DEF Next, Reconcile

(* Ready=True at rest means that the secondary has exactly the matching    *)
(* configurations of the primary, and that SyncedWebhooks counts them, for *)
(* every set of configurations and API groups.                             *)
THEOREM ReadySynced == Spec => []ReadyMeansSynced
<1> DEFINE Inv == TypeOK /\ Progress /\ Current
<1>1. Init => Inv
  <2> SUFFICES ASSUME Init PROVE Progress /\ Current
    BY InitTypes, Zenon
  <2> QED  BY Zenon DEF Init, Progress, Current, Kinds
<1>2. Inv /\ [Next]_vars => Inv'
  BY StepTypes, StepProgress, StepCurrent, Zenon
<1>3. Inv => ReadyMeansSynced
  BY DEF Current, Matches, ReadyMeansSynced
<1> QED  BY <1>1, <1>2, <1>3, PTL DEF Spec

-----------------------------------------------------------------------------
(* What the mapping makes of a state.                                      *)
Mapped ==
  /\ Wanted("validating") \in [Validating -> Copies \cup {None}]
  /\ Only("validating", secondary) \in [Validating -> Copies \cup {None}]

LEMMA MappedType == TypeOK => Mapped
<1> SUFFICES ASSUME TypeOK PROVE Mapped
  BY Zenon
<1>1. Validating \subseteq Hooks /\ Of("validating") = Validating
  BY Zenon DEF Hooks, Of
<1>2. seen.hooks \in [Hooks -> Configs \cup {None}]
  BY Zenon DEF TypeOK
<1>3. Desired(seen.hooks, seen.spec.groups) \in [Hooks -> Copies \cup {None}]
  BY <1>2, DesiredType, Zenon
<1>4. ASSUME NEW f \in [Hooks -> Copies \cup {None}]
      PROVE  Only("validating", f) \in [Validating -> Copies \cup {None}]
  BY <1>1, Zenon DEF Only
<1>5. (IF seen.spec.exists THEN Desired(seen.hooks, seen.spec.groups) ELSE view)
        \in [Hooks -> Copies \cup {None}]
  BY <1>3, Zenon DEF TypeOK
<1> QED  BY <1>4, <1>5, Zenon DEF Wanted, TypeOK, Mapped

LEMMA NextMapped == TypeOK' => Mapped'
  BY MappedType, PTL

(* A step after which no request has failed is a step of Mirror.           *)
LEMMA StepRefines ==
  ASSUME Validating # {}, TypeOK, TypeOK', Progress, [Next]_vars, faults' = 0
  PROVE  V!Next \/ UNCHANGED V!vars
<1>0. Validating \subseteq Hooks /\ Of("validating") = Validating /\ Validating \cap Mutating = {}
      /\ Hooks = Validating \cup Mutating
  BY HooksAssumption, Zenon DEF Hooks, Of
<1>a. ASSUME seen' = seen, \A n \in Validating : view'[n] = view[n]
      PROVE  UNCHANGED <<Wanted("validating"), Only("validating", view)>>
  BY <1>0, <1>a, Zenon DEF Wanted, Only
<1>b. ASSUME \A n \in Validating : secondary'[n] = secondary[n]
      PROVE  UNCHANGED Only("validating", secondary)
  BY <1>0, <1>b, Zenon DEF Only
<1>1. ASSUME UNCHANGED <<seen, view, secondary, drifts>> PROVE UNCHANGED V!vars
  BY <1>1, <1>a, <1>b, Zenon DEF V!vars
<1>2. ASSUME UNCHANGED <<view, secondary, drifts>> PROVE V!Change
  <2>1. Wanted("validating")' \in [Validating -> Copies \cup {None}]
    BY NextMapped, Zenon DEF Mapped
  <2>2. UNCHANGED <<Only("validating", view), Only("validating", secondary)>>
    BY <1>2, Zenon DEF Only
  <2> QED  BY <1>2, <2>1, <2>2, Zenon DEF V!Change, V!Contents
<1>3. ASSUME NEW n \in Hooks, Drift(n) PROVE V!Next
  <2>1. UNCHANGED <<seen, view>> /\ drifts' = drifts + 1
    BY <1>3, Zenon DEF Drift
  <2>2. UNCHANGED <<Wanted("validating"), Only("validating", view)>>
    BY <2>1, <1>a, Zenon
  <2>3. PICK c \in Copies \cup {None} : secondary' = [secondary EXCEPT ![n] = c]
    BY <1>3, Zenon DEF Drift
  <2>4. CASE n \in Validating
    <3>1. Only("validating", secondary)' = [Only("validating", secondary) EXCEPT ![n] = c]
      BY <1>0, <2>3, <2>4, Zenon DEF Only, TypeOK
    <3>2. V!Foreign(n)
      BY <2>1, <2>2, <3>1, Zenon DEF V!Foreign
    <3> QED  BY <2>4, <3>2, Zenon DEF V!Next
  <2>5. CASE n \notin Validating
    <3>1. PICK m \in Validating : TRUE
      BY Zenon
    <3>2. Only("validating", secondary)' = Only("validating", secondary)
      BY <1>b, <2>3, <2>5, <1>0 DEF TypeOK
    <3>3. Only("validating", secondary)
            = [Only("validating", secondary) EXCEPT ![m] = Only("validating", secondary)[m]]
          /\ Only("validating", secondary)[m] \in Copies \cup {None}
      BY MappedType, <3>1, Zenon DEF Mapped
    <3>4. V!Foreign(m)
      BY <2>1, <2>2, <3>2, <3>3, Zenon DEF V!Foreign
    <3> QED  BY <3>4, Zenon DEF V!Next
  <2> QED  BY <2>4, <2>5, Zenon
<1>4. CASE Start
  <2>1. seen.spec.exists /\ UNCHANGED <<seen, secondary, drifts>>
    BY <1>4, Zenon DEF Start
  <2>2. \A n \in Validating : view'[n] = Desired(seen.hooks, seen.spec.groups)[n]
    BY <1>4, ListIs, OfIs, Zenon DEF Start, Kinds
  <2>3. /\ Only("validating", view)' = Wanted("validating")
        /\ Wanted("validating")' = Wanted("validating")
    BY <1>0, <2>1, <2>2, Zenon DEF Only, Wanted
  <2>4. V!Look
    BY <1>b, <2>1, <2>3, Zenon DEF V!Look
  <2> QED  BY <2>4, Zenon DEF V!Next
<1>5. CASE StartMutating
  <2>1. UNCHANGED <<seen, secondary, drifts>>
    BY <1>5, Zenon DEF StartMutating
  <2>2. \A n \in Hooks \ Mutating : view'[n] = view[n]
    BY <1>5, ListIs, OfIs, Zenon DEF StartMutating, Kinds
  <2> QED  BY <1>0, <1>a, <1>b, <2>1, <2>2, Zenon DEF V!vars
<1>6. ASSUME NEW n \in Hooks, NEW o \in Outcomes, Sync(n, o) PROVE V!Next \/ UNCHANGED V!vars
  <2>1. pc \in Kinds /\ n \in todo /\ UNCHANGED <<seen, view, drifts>>
    BY <1>6, Zenon DEF Sync, Spend
  <2>2. view[n] # None
    BY <2>1, Zenon DEF Progress, Matched
  <2>3. secondary' = secondary \/ secondary' = [secondary EXCEPT ![n] = view[n]]
    BY <1>6, Zenon DEF Sync
  <2>4. CASE secondary' = secondary
    BY <1>1, <2>1, <2>4, Zenon
  <2>5. CASE secondary' = [secondary EXCEPT ![n] = view[n]] /\ n \in Validating
    <3>1. Only("validating", secondary)'
            = [Only("validating", secondary) EXCEPT ![n] = Only("validating", view)[n]]
          /\ Only("validating", view)[n] # None
      BY <1>0, <2>2, <2>5 DEF Only, TypeOK
    <3>2. V!Put(n)
      BY <1>a, <2>1, <3>1, Zenon DEF V!Put
    <3> QED  BY <2>5, <3>2, Zenon DEF V!Next
  <2>6. CASE secondary' = [secondary EXCEPT ![n] = view[n]] /\ n \notin Validating
    <3>1. \A m \in Validating : secondary'[m] = secondary[m]
      BY <1>0, <2>6 DEF TypeOK
    <3> QED  BY <1>a, <1>b, <2>1, <3>1, Zenon DEF V!vars
  <2> QED  BY <2>3, <2>4, <2>5, <2>6, Zenon
<1>7. ASSUME NEW n \in Hooks, NEW o \in Outcomes, DeleteStale(n, o)
      PROVE  V!Next \/ UNCHANGED V!vars
  <2>1. pc \in Stale /\ n \in todo /\ UNCHANGED <<seen, view, drifts>>
    BY <1>7, Zenon DEF DeleteStale, Spend, Stale
  <2>2. o = "ok" /\ faults = 0
    BY <1>7 DEF DeleteStale, Spend, TypeOK
  <2>3. ~failed /\ n \notin synced /\ synced = Copied
    BY <2>1, <2>2, Zenon DEF Progress, Stale
  <2>4. Copied = {m \in Hooks : view[m] # None}
    BY <2>1, Zenon DEF Copied, Matched, Stale, Kinds
  <2>5. view[n] = None
    BY <2>3, <2>4, Zenon
  <2>6. secondary' = [secondary EXCEPT ![n] = None]
    BY <1>7, <2>2, Zenon DEF DeleteStale
  <2>7. CASE n \in Validating
    <3>1. Only("validating", secondary)' = [Only("validating", secondary) EXCEPT ![n] = None]
          /\ Only("validating", view)[n] = None
      BY <1>0, <2>5, <2>6, <2>7, Zenon DEF Only, TypeOK
    <3>2. CASE Only("validating", secondary)[n] # None
      <4>1. V!Remove(n)
        BY <1>a, <2>1, <3>1, <3>2, Zenon DEF V!Remove
      <4> QED  BY <2>7, <4>1, Zenon DEF V!Next
    <3>3. CASE Only("validating", secondary)[n] = None
      <4>1. Only("validating", secondary)' = Only("validating", secondary)
        BY <3>1, <3>3, MappedType, Zenon DEF Mapped
      <4> QED  BY <1>a, <2>1, <4>1, Zenon DEF V!vars
    <3> QED  BY <3>2, <3>3, Zenon
  <2>8. CASE n \notin Validating
    <3>1. \A m \in Validating : secondary'[m] = secondary[m]
      BY <1>0, <2>6, <2>8, SMTT(30) DEF TypeOK
    <3> QED  BY <1>a, <1>b, <2>1, <3>1, Zenon DEF V!vars
  <2> QED  BY <2>7, <2>8, Zenon
<1>8. CASE \/ Tick \/ TickReceived \/ EditSpec \/ SecretEvent \/ StartGone \/ UNCHANGED vars
           \/ ListMutatingFails \/ (\E n \in Hooks : ChangeHook(n))
           \/ (\E o \in Outcomes : StartUnavailable(o) \/ ListStale(o) \/ Finish(o))
  BY <1>1, <1>8 DEF Tick, TickReceived, EditSpec, SecretEvent, StartGone, ListMutatingFails, ChangeHook,
     StartUnavailable, ListStale, Finish, Spend
<1>9. CASE ObserveSpec \/ (\E kind \in Kinds : ObserveHooks(kind))
  <2>1. UNCHANGED <<view, secondary, drifts>>
    BY <1>9, Zenon DEF ObserveSpec, ObserveHooks
  <2> QED  BY <1>2, <2>1, Zenon DEF V!Next
<1> QED
  BY <1>3, <1>4, <1>5, <1>6, <1>7, <1>8, <1>9, Zenon DEF Next, Reconcile

(* As long as no request has failed, Reconcile implements Mirror for the   *)
(* validating configurations: it puts only what matched when it listed     *)
(* them, and deleteStaleValidating removes only what did not.  A change    *)
(* that others make to a mutating one counts for Mirror as one that leaves *)
(* some validating one as it was, so there has to be one.                  *)
THEOREM Refines ==
  ASSUME Validating # {}
  PROVE  Spec => ImplementsMirror
<1> DEFINE Inv == TypeOK /\ Progress
<1>1. Init => Inv
  <2> SUFFICES ASSUME Init PROVE Progress
    BY InitTypes, Zenon
  <2> QED  BY Zenon DEF Init, Progress, Kinds
<1>2. Inv /\ [Next]_vars => Inv'
  BY StepTypes, StepProgress, Zenon
<1>3. Init => V!Init
  <2> SUFFICES ASSUME Init PROVE V!Init
    BY Zenon
  <2>1. Only("validating", view) = [n \in Validating |-> None]
    BY Zenon DEF Init, Nothing, Only, Of, Hooks
  <2> QED  BY <2>1, InitTypes, MappedType, Zenon DEF Init, Mapped, V!Init, V!Contents
<1>4. Inv /\ Inv' /\ [Next]_vars => [faults' = 0 => V!Next]_(V!vars)
  BY StepRefines, Zenon
<1> QED  BY <1>1, <1>2, <1>3, <1>4, PTL DEF Spec, ImplementsMirror
=============================================================================
