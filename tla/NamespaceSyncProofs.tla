-------------------------- MODULE NamespaceSyncProofs --------------------------
(* For every set of namespaces: the invariants of NamespaceSync, and that it *)
(* implements Mirror.                                                        *)
EXTENDS NamespaceSync, FiniteSetTheorems, TLAPS

(* TypeOK and what a pass has done so far.                                   *)
IInv == TypeOK /\ Progress

USE DEF vars, world, cache, worker, budgets

(* The states Init allows have the right types.                              *)
LEMMA InitTypes == Init => TypeOK
<1> SUFFICES ASSUME Init PROVE TypeOK
  BY Zenon
<1>1. primary \in [Names -> {"absent"} \cup Labels] /\ spec \in Specs
  BY Zenon DEF Init, Specs, Labels
<1>2. seen = [primary |-> primary, spec |-> spec]
  BY Zenon DEF Init
<1>3. secondary \in [Names -> States] /\ status \in Statuses
  BY Zenon DEF Init, States, Statuses, NoStatus
<1>4. /\ slot = FALSE /\ queued = TRUE /\ latest = TRUE /\ fresh = FALSE
      /\ pc = "idle" /\ view = {} /\ create = {} /\ delete = {} /\ failed = FALSE
      /\ touched = {} /\ changes = 0 /\ drifts = 0 /\ faults = 0
  BY Zenon DEF Init
<1>5. seen \in [primary: [Names -> {"absent"} \cup Labels], spec: Specs] /\ seen.spec = spec
  BY <1>1, <1>2, Zenon
<1>6. 0 \in 0..MaxChanges /\ 0 \in 0..MaxDrifts /\ 0 \in 0..MaxFaults
  BY BoundsAssumption
<1> QED
  BY <1>1, <1>3, <1>4, <1>5, <1>6, Zenon DEF TypeOK

(* Every step keeps the types, and the loops to names they may touch.        *)
LEMMA StepTypes == TypeOK /\ [Next]_vars => TypeOK'
<1> SUFFICES ASSUME TypeOK, [Next]_vars PROVE TypeOK'
  BY Zenon
<1> USE NamesAssumption, BoundsAssumption
<1>1. ASSUME NEW n \in Names, Relabel(n) PROVE TypeOK'
  BY <1>1 DEF TypeOK, Relabel, Labels
<1>2. ASSUME NEW n \in Names, Drift(n) PROVE TypeOK'
  BY <1>2 DEF TypeOK, Drift, States
<1>3. ASSUME NEW n \in Names, Finalize(n) PROVE TypeOK'
  BY <1>3, Zenon DEF TypeOK, Finalize, States
<1>4. CASE EditSpec
  <2>1. spec' \in Specs
    <3>1. CASE spec' = [spec EXCEPT !.exists = ~@]
      <4>1. (~ spec.exists) \in BOOLEAN
        BY Zenon
      <4> QED
        BY <3>1, <4>1, Zenon DEF TypeOK, Specs
    <3>2. CASE \E l \in {"b", "invalid"} : spec' = [spec EXCEPT !.selector = l]
      BY <3>2 DEF TypeOK, Specs, Labels
    <3>3. CASE \E n \in Names : spec' = [spec EXCEPT !.excluded = @ \cup {n}]
      BY <3>3 DEF TypeOK, Specs
    <3> QED
      BY <1>4, <3>1, <3>2, <3>3, Zenon DEF EditSpec
  <2>2. status' \in Statuses
    BY <1>4, Zenon DEF TypeOK, EditSpec, Statuses, NoStatus
  <2>3. /\ latest' = FALSE /\ fresh' = FALSE /\ changes' \in 0..MaxChanges
        /\ UNCHANGED <<primary, seen, secondary, slot, queued, pc, view, create, delete, failed,
                       touched, drifts, faults>>
    BY <1>4 DEF TypeOK, EditSpec
  <2> QED
    BY <2>1, <2>2, <2>3, Zenon DEF TypeOK
<1>5. CASE SecretEvent
  BY <1>5 DEF TypeOK, SecretEvent, Specs
<1>6. CASE ObserveNamespaces
  BY <1>6 DEF TypeOK, ObserveNamespaces, Specs
<1>7. CASE ObserveSpec
  BY <1>7, Zenon DEF TypeOK, ObserveSpec
<1>8. CASE Tick
  BY <1>8, Zenon DEF TypeOK, Tick
<1>16. CASE TickReceived
  <2>1. slot' \in BOOLEAN /\ queued' \in BOOLEAN
    BY <1>16, Zenon DEF TickReceived
  <2>2. UNCHANGED <<world, cache, secondary, status, worker, touched, budgets>>
    BY <1>16, Zenon DEF TickReceived
  <2> QED  BY <2>1, <2>2, Zenon DEF TypeOK, world, cache, worker, budgets
<1>9. CASE StartGone
  BY <1>9, Zenon DEF TypeOK, StartGone
<1>17. CASE StartInvalid
  BY <1>17, Zenon DEF TypeOK, StartInvalid
<1>10. CASE Start
  BY <1>10, Zenon DEF TypeOK, Start, Desired
<1>11. ASSUME NEW o \in Outcomes, StartUnavailable(o) PROVE TypeOK'
  BY <1>11 DEF TypeOK, StartUnavailable, WriteStatus, Statuses
<1>12. ASSUME NEW o \in Outcomes, Finish(o) PROVE TypeOK'
  <2>1. Cardinality(view) \in Nat
    BY FS_Subset, FS_CardinalityType, Zenon DEF TypeOK
  <2>2. status' \in Statuses
    BY <1>12, <2>1, Zenon DEF TypeOK, Finish, WriteStatus, Statuses
  <2>3. faults' \in 0..MaxFaults /\ latest' \in BOOLEAN /\ (latest' => latest)
    BY <1>12 DEF TypeOK, Finish, WriteStatus, Spend
  <2> QED
    BY <1>12, <2>2, <2>3, Zenon DEF TypeOK, Finish, Spend
<1>13. ASSUME NEW n \in Names, NEW o \in Outcomes, Create(n, o) PROVE TypeOK'
  BY <1>13 DEF TypeOK, Create, Spend, States
<1>14. ASSUME NEW n \in Names, NEW o \in Outcomes, Delete(n, o) PROVE TypeOK'
  BY <1>14, SMTT(30) DEF TypeOK, Delete, Spend, States
<1>15. CASE UNCHANGED vars
  BY <1>15, Zenon DEF TypeOK
<1> QED
  BY <1>1, <1>2, <1>3, <1>4, <1>5, <1>6, <1>7, <1>8, <1>9, <1>10, <1>11, <1>12, <1>13,
     <1>14, <1>15, <1>16, <1>17 DEF Next, Reconcile

(* TypeOK holds in every state of every instance.                            *)
THEOREM TypeCorrect == Spec => []TypeOK
  BY InitTypes, StepTypes, PTL DEF Spec

(* What a pass has not yet done is in its loops or counted as failed, and    *)
(* its view is out of date only while the object is queued.                  *)
LEMMA StepProgress == IInv /\ [Next]_vars => Progress'
<1> SUFFICES ASSUME IInv, [Next]_vars PROVE Progress'
  BY Zenon
<1> USE DEF IInv, Progress, Mirrors, Syncs
<1>1. ASSUME NEW n \in Names, Relabel(n) PROVE Progress'
  BY <1>1, Zenon DEF Relabel
<1>2. ASSUME NEW n \in Names, Drift(n) PROVE Progress'
  BY <1>2 DEF Drift, TypeOK
<1>3. ASSUME NEW n \in Names, Finalize(n) PROVE Progress'
  BY <1>3 DEF Finalize, TypeOK
<1>4. CASE EditSpec
  <2>1. UNCHANGED <<seen, secondary, queued, pc, view, create, delete, failed, touched>>
    BY <1>4, Zenon DEF EditSpec
  <2>2. status' = status \/ status'.ready = "unset"
    BY <1>4, Zenon DEF EditSpec, NoStatus
  <2> QED
    BY <2>1, <2>2, Zenon
<1>5. CASE SecretEvent
  BY <1>5, Zenon DEF SecretEvent
<1>6. CASE ObserveNamespaces
  BY <1>6, Zenon DEF ObserveNamespaces, TypeOK
<1>7. CASE ObserveSpec
  BY <1>7, Zenon DEF ObserveSpec, TypeOK
<1>8. CASE Tick
  BY <1>8, Zenon DEF Tick
<1>9. CASE TickReceived
  BY <1>9, Zenon DEF TickReceived
<1>10. CASE StartGone
  BY <1>10, Zenon DEF StartGone
<1>11. CASE StartInvalid
  BY <1>11, Zenon DEF StartInvalid
<1>12. CASE Start
  BY <1>12, Zenon DEF Start, TypeOK
<1>13. ASSUME NEW o \in Outcomes, StartUnavailable(o) PROVE Progress'
  BY <1>13, Zenon DEF StartUnavailable
<1>14. ASSUME NEW o \in Outcomes, Finish(o) PROVE Progress'
  <2>1. queued' \/ (o = "ok" /\ fresh)
    BY <1>14, Zenon DEF Finish
  <2>2. CASE o = "ok" /\ fresh
    <3>1. status' = [ready |-> IF failed THEN "False" ELSE "True", synced |-> Cardinality(view)]
      BY <1>14, <2>2, Zenon DEF Finish, WriteStatus
    <3> QED
      BY <1>14, <3>1, Zenon DEF Finish
  <2> QED
    BY <1>14, <2>1, <2>2, Zenon DEF Finish
<1>15. ASSUME NEW n \in Names, NEW o \in Outcomes, Create(n, o) PROVE Progress'
  BY <1>15 DEF Create, TypeOK
<1>16. ASSUME NEW n \in Names, NEW o \in Outcomes, Delete(n, o) PROVE Progress'
  BY <1>16, ZenonT(30) DEF Delete, TypeOK
<1>17. CASE UNCHANGED vars
  BY <1>17, Zenon
<1> QED
  BY <1>1, <1>2, <1>3, <1>4, <1>5, <1>6, <1>7, <1>8, <1>9, <1>10, <1>11, <1>12, <1>13,
     <1>14, <1>15, <1>16, <1>17, ZenonT(30) DEF Next, Reconcile

(* The inductive invariant holds in every state.                             *)
LEMMA Inductive == Spec => []IInv
<1>1. Init => IInv
  <2>1. Init => Progress
    BY Zenon DEF Init, Progress, Syncs
  <2> QED
    BY <2>1, InitTypes, Zenon DEF IInv
<1>2. IInv /\ [Next]_vars => IInv'
  BY StepTypes, StepProgress, Zenon DEF IInv
<1> QED
  BY <1>1, <1>2, PTL DEF Spec

(* Ready=True is never a leftover: with nothing queued and caches up to date *)
(* the secondary has what the primary wants, whatever failed on the way.     *)
THEOREM ReadyMirrors == Spec => []ReadyMeansMirrored
<1>1. IInv => ReadyMeansMirrored
  BY DEF IInv, Progress, ReadyMeansMirrored, Mirrors, Syncs
<1> QED
  BY <1>1, Inductive, PTL

(* The abstract contents are functions from names to "present" or "absent".  *)
LEMMA ContentType == \A set : Content(set) \in M!Contents
  BY Zenon DEF Content, M!Contents

(* A step of Reconcile, of the informers or of the others is a step of       *)
(* Mirror or leaves its state alone.                                         *)
LEMMA StepRefines == IInv /\ [Next]_vars => [M!Next]_(M!vars)
<1> SUFFICES ASSUME IInv, [Next]_vars PROVE [M!Next]_(M!vars)
  BY Zenon
<1> DEFINE goal == Content(IF Syncs THEN Desired(seen.primary, seen.spec) ELSE view)
           active == {n \in Names : secondary[n] = "active"}
           ending == {n \in Names : secondary[n] = "terminating"}
<1>a. /\ goal \in M!Contents /\ goal' \in M!Contents
  BY ContentType, Zenon
<1>b. ASSUME UNCHANGED <<view, secondary, drifts>> PROVE [M!Next]_(M!vars)
  <2>1. UNCHANGED <<Content(view), Content(active), ending, drifts>>
    BY <1>b, Zenon
  <2> QED
    BY <1>a, <2>1, Zenon DEF M!Next, M!Change
<1>c. ASSUME NEW n \in Names, NEW to \in States, secondary' = [secondary EXCEPT ![n] = to]
      PROVE  /\ Content(active)' = [Content(active) EXCEPT ![n] = IF to = "active" THEN "present" ELSE "absent"]
             /\ ending' = IF to = "terminating" THEN ending \cup {n} ELSE ending \ {n}
  <2>1. \A m \in Names : secondary'[m] = IF m = n THEN to ELSE secondary[m]
    BY <1>c, Zenon DEF IInv, TypeOK
  <2>2. Content(active)' = [Content(active) EXCEPT ![n] = IF to = "active" THEN "present" ELSE "absent"]
    BY <2>1, Zenon DEF Content
  <2>3. ending' = IF to = "terminating" THEN ending \cup {n} ELSE ending \ {n}
    BY <2>1
  <2> QED
    BY <2>2, <2>3, Zenon
<1>1. ASSUME NEW n \in Names, Drift(n) PROVE [M!Next]_(M!vars)
  <2>1. PICK to \in {"active", "terminating"} :
          secondary[n] # "terminating" /\ secondary' = [secondary EXCEPT ![n] = to]
    BY <1>1, Zenon DEF Drift
  <2>2. /\ Content(active)' = [Content(active) EXCEPT ![n] = IF to = "active" THEN "present" ELSE "absent"]
        /\ ending' = IF to = "terminating" THEN ending \cup {n} ELSE ending \ {n}
    BY <1>c, <2>1, Zenon DEF States
  <2>3. ending' \in {ending, ending \cup {n}}
    BY <2>1, <2>2
  <2>4. drifts' = drifts + 1 /\ UNCHANGED <<Content(view), goal>>
    BY <1>1, Zenon DEF Drift, Syncs
  <2>5. M!Foreign(n)
    BY <2>2, <2>3, <2>4, Zenon DEF M!Foreign
  <2> QED
    BY <2>5, Zenon DEF M!Next
<1>2. ASSUME NEW n \in Names, Finalize(n) PROVE [M!Next]_(M!vars)
  <2>1. n \in ending /\ secondary' = [secondary EXCEPT ![n] = "absent"]
    BY <1>2, Zenon DEF Finalize
  <2>2. ending' = ending \ {n}
    BY <1>c, <2>1, Zenon DEF States
  <2>3. UNCHANGED <<goal, Content(view), drifts>>
    BY <1>2, Zenon DEF Finalize, Syncs
  <2>4. active' = active
    BY <1>2, Zenon DEF Finalize, IInv, TypeOK
  <2>5. M!Release(n)
    BY <2>1, <2>2, <2>3, <2>4, Zenon DEF M!Release
  <2> QED
    BY <2>5, Zenon DEF M!Next
<1>3. CASE Start
  <2>1. Syncs /\ UNCHANGED <<goal, Content(active), ending, drifts>>
    BY <1>3, Zenon DEF Start, Syncs
  <2>2. Content(view)' = goal
    BY <1>3, <2>1, Zenon DEF Start
  <2> QED
    BY <2>1, <2>2, Zenon DEF M!Next, M!Look
<1>4. ASSUME NEW n \in Names, NEW o \in Outcomes, Create(n, o) PROVE [M!Next]_(M!vars)
  <2>1. UNCHANGED <<goal, Content(view), drifts>> /\ n \in view
    BY <1>4, Zenon DEF Create, Spend, Syncs, IInv, TypeOK
  <2>2. CASE secondary' = secondary
    BY <2>1, <2>2, Zenon DEF M!vars
  <2>3. CASE secondary[n] = "absent" /\ secondary' = [secondary EXCEPT ![n] = "active"]
    <3>1. Content(active)' = [Content(active) EXCEPT ![n] = "present"] /\ ending' = ending \ {n}
      BY <1>c, <2>3, Zenon DEF States
    <3>2. Content(view)[n] = "present"
      BY <2>1, Zenon DEF Content
    <3>3. n \notin ending /\ ending' = ending
      BY <2>3, <3>1, Zenon
    <3>4. M!Put(n)
      BY <2>1, <3>1, <3>2, <3>3, Zenon DEF M!Put
    <3> QED
      BY <3>4, Zenon DEF M!Next
  <2> QED
    BY <1>4, <2>2, <2>3, Zenon DEF Create
<1>5. ASSUME NEW n \in Names, NEW o \in Outcomes, Delete(n, o) PROVE [M!Next]_(M!vars)
  <2>1. UNCHANGED <<goal, Content(view), drifts>> /\ n \notin view /\ n \notin System
    BY <1>5, Zenon DEF Delete, Spend, Syncs, IInv, TypeOK
  <2>2. CASE secondary' = secondary
    BY <2>1, <2>2, Zenon DEF M!vars
  <2>3. CASE secondary[n] = "active" /\ secondary' = [secondary EXCEPT ![n] = "terminating"]
    <3>1. Content(active)' = [Content(active) EXCEPT ![n] = "absent"] /\ ending' = ending \cup {n}
      BY <1>c, <2>3, Zenon DEF States
    <3>2. Content(view)[n] = "absent" /\ Content(active)[n] # "absent"
      BY <2>1, <2>3, Zenon DEF Content
    <3>3. M!Remove(n)
      BY <2>1, <3>1, <3>2, Zenon DEF M!Remove
    <3> QED
      BY <3>3, Zenon DEF M!Next
  <2> QED
    BY <1>5, <2>2, <2>3, Zenon DEF Delete
<1> QED
  <2>1. CASE Tick \/ TickReceived \/ EditSpec \/ SecretEvent \/ ObserveNamespaces \/ ObserveSpec
    BY <1>b, <2>1, Zenon DEF Tick, TickReceived, EditSpec, SecretEvent, ObserveNamespaces, ObserveSpec
  <2>2. CASE StartGone \/ StartInvalid
    BY <1>b, <2>2, Zenon DEF StartGone, StartInvalid
  <2>3. CASE \E n \in Names : Relabel(n)
    BY <1>b, <2>3, Zenon DEF Relabel
  <2>4. CASE \E o \in Outcomes : StartUnavailable(o) \/ Finish(o)
    BY <1>b, <2>4, Zenon DEF StartUnavailable, Finish, Spend
  <2>5. CASE UNCHANGED vars
    BY <1>b, <2>5, Zenon
  <2> QED
    BY <1>1, <1>2, <1>3, <1>4, <1>5, <2>1, <2>2, <2>3, <2>4, <2>5 DEF Next, Reconcile

(* NamespaceSync implements Mirror: whatever fails and whatever interleaves, *)
(* it creates only what it read as desired, and never deletes such a         *)
(* namespace or a system one.                                                *)
THEOREM Refines == Spec => ImplementsMirror
<1>1. Init => M!Init
  <2> SUFFICES ASSUME Init PROVE M!Init
    BY Zenon
  <2>1. Content(view) = [n \in Names |-> "absent"] /\ drifts = 0
    BY Zenon DEF Init, Content
  <2>2. {n \in Names : secondary[n] = "terminating"} = {}
    BY Zenon DEF Init
  <2> QED
    BY <2>1, <2>2, ContentType, Zenon DEF M!Init
<1> QED
  BY <1>1, Inductive, StepRefines, PTL DEF Spec, ImplementsMirror, M!Spec
=============================================================================
