--------------------- MODULE APIShardRegistrationProofs ---------------------
(***************************************************************************)
(* Proofs about APIShardRegistration, for every set of shards and          *)
(* APIServices and every value of the bounds.                              *)
(***************************************************************************)
EXTENDS APIShardRegistration, TLAPS

-----------------------------------------------------------------------------
(* The inductive invariant.                                                *)

Versions(s) == {stream[s][i] : i \in 1 .. Len(stream[s])}

(* The last version in a watch stream is the object in the API server.     *)
StreamEndsCurrent == \A s \in Shards : stream[s][Len(stream[s])] = shard[s]

(* An object that is being deleted is held by its finalizer.               *)
DeletingIsHeld ==
  \A s \in Shards : \A v \in Versions(s) : v.deleting => v.exists /\ v.finalizer

(* A version on its way that is live and has the finalizer belongs to the  *)
(* incarnation that exists: only the worker drops the finalizer, and only  *)
(* after the informer has shown it the deletion.                           *)
LiveVersionsExist ==
  \A s \in Shards : \A v \in Versions(s) :
    v.exists /\ v.finalizer /\ ~v.deleting =>
      shard[s].exists /\ shard[s].uid = v.uid /\ shard[s].finalizer

(* A copy with the current resourceVersion agrees with the object.         *)
CopyAgrees ==
  pc # "idle" /\ fresh =>
    /\ copy.exists = shard[cur].exists
    /\ copy.uid = shard[cur].uid
    /\ copy.deleting = shard[cur].deleting
    /\ copy.finalizer = shard[cur].finalizer
    /\ copy.apiGroups = shard[cur].apiGroups
    /\ pc = "deregister" => copy.registered = shard[cur].registered

(* The deletion branch works on a deleted object; if its copy is current,  *)
(* so is the informer.                                                     *)
DeregisterBranch ==
  pc = "deregister" =>
    /\ copy.exists /\ copy.deleting /\ copy.finalizer
    /\ fresh => Len(stream[cur]) = 1

(* Past the finalizer, the incarnation being reconciled exists and is held *)
(* by it.                                                                  *)
WorkingIsHeld ==
  pc \in Working =>
    shard[cur].exists /\ shard[cur].finalizer /\ shard[cur].uid = copy.uid

ObjectInv == StreamEndsCurrent /\ DeletingIsHeld /\ LiveVersionsExist
WorkerInv == CopyAgrees /\ DeregisterBranch /\ WorkingIsHeld
StructInv == TypeOK /\ ObjectInv /\ WorkerInv

(* An APIService the informer does not know of has its event on the way.   *)
UnseenNotified ==
  \A n \in APIServices : svc[n] # None /\ n \notin seen => svc[n][1] \in notify[n]

(* The deletion loop leaves nothing registered behind it, unless the event *)
(* was on its way when the loop looked.                                    *)
DeregisteredSoFar ==
  pc = "deregister" =>
    \A n \in copy.registered :
      n \in todo \/ svc[n] # Owner(cur, copy.uid) \/ cur \in notify[n] \/ cur \in queue

-----------------------------------------------------------------------------
(* Lemmas about the operators of the model.                                *)

(* The absent object and the objects users create are objects.             *)
LEMMA AbsentType == \A u \in Nat : Absent(u) \in Objects
  BY Zenon DEF Absent, Objects, Phases

(* An APIService that does not exist has no owner.                         *)
LEMMA NoneIsNoOwner == \A s, u : None # Owner(s, u)
  <1>1. TAKE s, u
  <1>2. Len(<<>>) = 0 /\ Len(<<s, u>>) = 2
    OBVIOUS
  <1> QED BY <1>2 DEF None, Owner

(* Store keeps the stream well formed, adds at most the new version and    *)
(* ends the stream with it.                                                *)
LEMMA StoreStream ==
  ASSUME TypeOK, StreamEndsCurrent, NEW s \in Shards, NEW o \in Objects, Store(s, o)
  PROVE  /\ shard' = [shard EXCEPT ![s] = o] /\ shard' \in [Shards -> Objects]
         /\ stream' \in [Shards -> Seq(Objects) \ {<<>>}]
         /\ StreamEndsCurrent'
         /\ \A t \in Shards : Versions(t)' \subseteq Versions(t) \cup {shard'[t]}
         /\ \A t \in Shards : t # s => stream'[t] = stream[t] /\ shard'[t] = shard[t]
         /\ Len(stream'[s]) = IF o = shard[s] THEN Len(stream[s]) ELSE Len(stream[s]) + 1
  <1>1. shard' = [shard EXCEPT ![s] = o] /\ shard' \in [Shards -> Objects]
    BY Zenon DEF Store, TypeOK
  <1>2. CASE o = shard[s]
    <2>1. stream' = stream /\ shard' = shard
      BY <1>2, Zenon DEF Store, TypeOK
    <2> QED BY <1>1, <1>2, <2>1 DEF TypeOK, StreamEndsCurrent, Versions
  <1>3. CASE o # shard[s]
    <2>1. stream' = [stream EXCEPT ![s] = Append(@, o)]
      BY <1>3, Zenon DEF Store
    <2>2. stream[s] \in Seq(Objects) /\ stream[s] # <<>>
      BY Zenon DEF TypeOK
    <2>3. /\ stream'[s] = Append(stream[s], o)
          /\ \A t \in Shards : t # s => stream'[t] = stream[t] /\ shard'[t] = shard[t]
      BY <1>1, <2>1, Zenon DEF TypeOK
    <2>4. /\ stream'[s] \in Seq(Objects) /\ stream'[s] # <<>>
          /\ Len(stream'[s]) = Len(stream[s]) + 1
          /\ stream'[s][Len(stream'[s])] = o
          /\ \A i \in 1 .. Len(stream[s]) : stream'[s][i] = stream[s][i]
      BY <2>2, <2>3
    <2>5. stream' \in [Shards -> Seq(Objects) \ {<<>>}]
      BY <2>1, <2>3, <2>4, Zenon DEF TypeOK
    <2>6. StreamEndsCurrent'
      BY <1>1, <2>3, <2>4, Zenon DEF StreamEndsCurrent, TypeOK
    <2>7. ASSUME NEW i \in 1 .. Len(stream'[s])
          PROVE  stream'[s][i] \in Versions(s) \cup {shard'[s]}
      <3>1. Len(stream[s]) \in Nat /\ shard'[s] = o
        BY <1>1, <2>2 DEF TypeOK
      <3>2. CASE i = Len(stream'[s])
        BY <2>4, <3>1, <3>2, Zenon
      <3>3. CASE i # Len(stream'[s])
        <4>1. i \in 1 .. Len(stream[s])
          BY <2>4, <3>1, <3>3
        <4> QED BY <2>4, <4>1, Zenon DEF Versions
      <3> QED BY <3>2, <3>3, Zenon
    <2>8. \A t \in Shards : Versions(t)' \subseteq Versions(t) \cup {shard'[t]}
      <3>1. Versions(s)' \subseteq Versions(s) \cup {shard'[s]}
        BY <2>7, Zenon DEF Versions
      <3>2. ASSUME NEW t \in Shards, t # s PROVE Versions(t)' = Versions(t)
        BY <2>3, <3>2, Zenon DEF Versions
      <3> QED BY <3>1, <3>2, Zenon
    <2> QED BY <1>1, <1>3, <2>3, <2>4, <2>5, <2>6, <2>8, Zenon
  <1> QED BY <1>2, <1>3, Zenon

(* The informer's copy, and the object itself, are versions of the stream. *)
LEMMA HeadAndLastAreVersions ==
  ASSUME TypeOK, StreamEndsCurrent, NEW s \in Shards
  PROVE  /\ Head(stream[s]) \in Versions(s) /\ Head(stream[s]) \in Objects
         /\ shard[s] \in Versions(s) /\ Versions(s) \subseteq Objects
         /\ Len(stream[s]) \in Nat \ {0}
         /\ Len(stream[s]) = 1 => Head(stream[s]) = shard[s]
  <1>1. stream[s] \in Seq(Objects) /\ stream[s] # <<>>
    BY Zenon DEF TypeOK
  <1>2. Len(stream[s]) \in Nat \ {0} /\ Head(stream[s]) = stream[s][1]
    BY <1>1
  <1> QED BY <1>1, <1>2 DEF Versions, StreamEndsCurrent

(* The three parts of TypeOK that actions change together.                 *)
ObjectTypes == shard \in [Shards -> Objects] /\ stream \in [Shards -> Seq(Objects) \ {<<>>}]
ServiceTypes ==
  /\ svc \in [APIServices -> Owners \cup {None}]
  /\ seen \in SUBSET APIServices /\ notify \in [APIServices -> SUBSET Shards]
WorkerTypes ==
  /\ queue \in SUBSET Shards /\ pc \in PCs /\ cur \in Shards
  /\ copy \in Objects /\ fresh \in BOOLEAN /\ todo \in SUBSET APIServices
BudgetTypes == edits \in Nat /\ faults \in Nat /\ drift \in Nat

LEMMA TypeParts ==
  ASSUME ObjectTypes', ServiceTypes', WorkerTypes', BudgetTypes' PROVE TypeOK'
  BY Zenon DEF TypeOK, ObjectTypes, ServiceTypes, WorkerTypes, BudgetTypes

(* Storing a version keeps what is known of the streams, provided that it  *)
(* does not contradict a live version that is still on its way.            *)
LEMMA StoreKeeps ==
  ASSUME TypeOK, ObjectInv, NEW s \in Shards, NEW o \in Objects, Store(s, o),
         o.deleting => o.exists /\ o.finalizer,
         \A v \in Versions(s) : v.exists /\ v.finalizer /\ ~v.deleting =>
           o.exists /\ o.uid = v.uid /\ o.finalizer
  PROVE  ObjectTypes' /\ ObjectInv'
  <1>1. /\ shard' = [shard EXCEPT ![s] = o] /\ shard' \in [Shards -> Objects]
        /\ stream' \in [Shards -> Seq(Objects) \ {<<>>}]
        /\ StreamEndsCurrent'
        /\ \A t \in Shards : Versions(t)' \subseteq Versions(t) \cup {shard'[t]}
        /\ \A t \in Shards : t # s => stream'[t] = stream[t] /\ shard'[t] = shard[t]
    BY StoreStream, Zenon DEF ObjectInv
  <1>2. shard'[s] = o
    BY <1>1, Zenon DEF TypeOK
  <1>3. ASSUME NEW t \in Shards, NEW v \in Versions(t)'
        PROVE  /\ v.deleting => v.exists /\ v.finalizer
               /\ v.exists /\ v.finalizer /\ ~v.deleting =>
                    shard'[t].exists /\ shard'[t].uid = v.uid /\ shard'[t].finalizer
    <2>1. CASE t = s
      <3>1. v \in Versions(s) \cup {o}
        BY <1>1, <1>2, <1>3, <2>1, Zenon
      <3>2. CASE v = o
        BY <1>2, <2>1, <3>2, Zenon
      <3>3. CASE v \in Versions(s)
        <4>1. v.deleting => v.exists /\ v.finalizer
          BY <3>3, Zenon DEF ObjectInv, DeletingIsHeld
        <4> QED  BY <1>2, <2>1, <3>3, <4>1, Zenon
      <3> QED  BY <3>1, <3>2, <3>3, Zenon
    <2>2. CASE t # s
      <3>1. v \in Versions(t) /\ shard'[t] = shard[t]
        BY <1>1, <1>3, <2>2 DEF Versions
      <3> QED BY <3>1, Zenon DEF ObjectInv, DeletingIsHeld, LiveVersionsExist
    <2> QED BY <2>1, <2>2, Zenon
  <1> QED BY <1>1, <1>3, Zenon DEF ObjectTypes, ObjectInv, DeletingIsHeld, LiveVersionsExist

(* Steps that do not touch the objects.                                    *)
LEMMA ObjectsUnchanged ==
  ASSUME TypeOK, ObjectInv, UNCHANGED objects
  PROVE  ObjectTypes' /\ ObjectInv'
  BY DEF TypeOK, ObjectTypes, ObjectInv, objects, StreamEndsCurrent, DeletingIsHeld,
         LiveVersionsExist, Versions

(* The informer moves on: the stream loses its oldest version.             *)
LEMMA ObserveKeeps ==
  ASSUME TypeOK, ObjectInv, NEW s \in Shards, ObserveShard(s)
  PROVE  ObjectTypes' /\ ObjectInv'
  <1>1. stream[s] \in Seq(Objects) /\ Len(stream[s]) > 1
    BY Zenon DEF TypeOK, ObserveShard
  <1>2. /\ stream'[s] = Tail(stream[s]) /\ shard' = shard
        /\ \A t \in Shards : t # s => stream'[t] = stream[t]
    BY Zenon DEF TypeOK, ObserveShard
  <1>3. /\ Tail(stream[s]) \in Seq(Objects)
        /\ Len(Tail(stream[s])) = Len(stream[s]) - 1
        /\ \A i \in 1 .. Len(stream[s]) - 1 : Tail(stream[s])[i] = stream[s][i + 1]
    BY <1>1
  <1>4. Tail(stream[s]) # <<>>
    <2>1. Len(Tail(stream[s])) > 0 /\ Len(<<>>) = 0
      BY <1>1, <1>3
    <2>2. \A x : Len(x) > 0 /\ Len(<<>>) = 0 => x # <<>>
      OBVIOUS
    <2> QED BY <2>1, <2>2, Zenon
  <1>5. ObjectTypes'
    BY <1>2, <1>3, <1>4, Zenon DEF ObserveShard, TypeOK, ObjectTypes
  <1>6. StreamEndsCurrent'
    <2>1. stream'[s][Len(stream'[s])] = stream[s][Len(stream[s])]
      BY <1>1, <1>2, <1>3
    <2> QED BY <1>2, <2>1, Zenon DEF ObjectInv, StreamEndsCurrent
  <1>7. ASSUME NEW t \in Shards PROVE Versions(t)' \subseteq Versions(t)
    <2>1. CASE t = s
      <3>1. ASSUME NEW i \in 1 .. Len(stream'[s])
            PROVE  \E j \in 1 .. Len(stream[s]) : stream'[s][i] = stream[s][j]
        <4>1. i + 1 \in 1 .. Len(stream[s]) /\ stream'[s][i] = stream[s][i + 1]
          BY <1>1, <1>2, <1>3
        <4> QED BY <4>1, Zenon
      <3> QED BY <2>1, <3>1, Zenon DEF Versions
    <2>2. CASE t # s
      BY <1>2, <2>2, Zenon DEF Versions
    <2> QED BY <2>1, <2>2, Zenon
  <1> QED BY <1>2, <1>5, <1>6, <1>7, Zenon DEF ObjectInv, DeletingIsHeld, LiveVersionsExist

(* Reconcile returns: nothing is left to be held of a copy.                *)
LEMMA ReturnKeeps ==
  ASSUME TypeOK, NEW r, Return(r)
  PROVE  WorkerTypes' /\ WorkerInv'
  <1>1. Absent(0) \in Objects
    BY AbsentType, Zenon
  <1> QED BY <1>1, Zenon DEF Return, TypeOK, WorkerTypes, WorkerInv, CopyAgrees, DeregisterBranch,
                      WorkingIsHeld, PCs, Working

LEMMA SetOwnerTypes ==
  ASSUME TypeOK, NEW n \in APIServices, NEW o \in Owners \cup {None}, SetOwner(n, o)
  PROVE  ServiceTypes'
  <1>1. \A p \in Owners \cup {None} : OwnerShards(p) \subseteq Shards
    BY Zenon DEF Owners, OwnerShards
  <1> QED BY <1>1, Zenon DEF SetOwner, TypeOK, ServiceTypes

LEMMA SpendTypes == ASSUME TypeOK, NEW o, Spend(o) PROVE BudgetTypes'
  BY DEF Spend, TypeOK, BudgetTypes

(* A user's write: the worker's copy is marked stale, and an object that   *)
(* the finalizer holds stays the same incarnation.                         *)
LEMMA UserStoreKeeps ==
  ASSUME StructInv, NEW s \in Shards, NEW o \in Objects, UserStore(s, o),
         o.deleting => o.exists /\ o.finalizer,
         shard[s].exists /\ shard[s].finalizer =>
           o.exists /\ o.finalizer /\ o.uid = shard[s].uid
  PROVE  ObjectTypes' /\ ObjectInv' /\ ServiceTypes' /\ WorkerTypes' /\ WorkerInv'
  <1>1. Store(s, o)
    BY Zenon DEF UserStore
  <1>2. \A v \in Versions(s) : v.exists /\ v.finalizer /\ ~v.deleting =>
          o.exists /\ o.uid = v.uid /\ o.finalizer
    BY Zenon DEF StructInv, ObjectInv, LiveVersionsExist
  <1>3. ObjectTypes' /\ ObjectInv'
    BY <1>1, <1>2, StoreKeeps, Zenon DEF StructInv
  <1>4. ServiceTypes' /\ WorkerTypes'
    BY Zenon DEF UserStore, StructInv, TypeOK, ServiceTypes, WorkerTypes, services
  <1>5. /\ shard'[s] = o
        /\ \A t \in Shards : t # s => stream'[t] = stream[t] /\ shard'[t] = shard[t]
        /\ o = shard[s] => stream' = stream
    BY <1>1, Zenon DEF Store, StructInv, TypeOK
  <1>6. /\ pc' = pc /\ cur' = cur /\ copy' = copy /\ cur \in Shards
        /\ fresh' => fresh /\ (pc = "idle" \/ cur # s \/ o = shard[s])
    BY Zenon DEF UserStore, StructInv, TypeOK
  <1>7. pc # "idle" /\ fresh' => shard'[cur] = shard[cur] /\ stream'[cur] = stream[cur] /\ fresh
    BY <1>5, <1>6, Zenon
  <1>8. CopyAgrees'
    BY <1>6, <1>7, Zenon DEF StructInv, WorkerInv, CopyAgrees
  <1>9. DeregisterBranch'
    BY <1>6, <1>7, Zenon DEF StructInv, WorkerInv, DeregisterBranch
  <1>10. WorkingIsHeld'
    BY <1>5, <1>6, Zenon DEF StructInv, WorkerInv, WorkingIsHeld
  <1> QED BY <1>3, <1>4, <1>8, <1>9, <1>10, Zenon DEF WorkerInv

(* A write of the worker past the finalizer changes only the status of the *)
(* object it has a current copy of.                                        *)
LEMMA WriteKeeps ==
  ASSUME StructInv, NEW o, NEW object \in Objects, Write(o, object), pc \in Working,
         object.exists = copy.exists, object.uid = copy.uid,
         object.deleting = copy.deleting, object.finalizer = copy.finalizer,
         object.apiGroups = copy.apiGroups
  PROVE  /\ ObjectTypes' /\ ObjectInv'
         /\ ~fresh => UNCHANGED objects
         /\ shard' = shard \/ shard' = [shard EXCEPT ![cur] = object]
  <1>1. CASE fresh /\ Effective(o)
    <2>1. Store(cur, object) /\ cur \in Shards
      BY <1>1, Zenon DEF Write, StructInv, TypeOK
    <2>2. /\ object.exists = shard[cur].exists /\ object.uid = shard[cur].uid
          /\ object.finalizer = shard[cur].finalizer
          /\ shard[cur].exists /\ shard[cur].finalizer
      BY <1>1, Zenon DEF StructInv, WorkerInv, CopyAgrees, WorkingIsHeld, Working
    <2>3. \A v \in Versions(cur) : v.exists /\ v.finalizer /\ ~v.deleting =>
            object.exists /\ object.uid = v.uid /\ object.finalizer
      BY <2>1, <2>2, Zenon DEF StructInv, ObjectInv, LiveVersionsExist
    <2>4. ObjectTypes' /\ ObjectInv'
      BY <2>1, <2>2, <2>3, StoreKeeps, Zenon DEF StructInv
    <2> QED BY <1>1, <2>1, <2>4, Zenon DEF Store
  <1>2. CASE ~(fresh /\ Effective(o))
    <2>1. UNCHANGED objects
      BY <1>2, Zenon DEF Write
    <2> QED BY <2>1, ObjectsUnchanged, Zenon DEF StructInv, objects
  <1> QED BY <1>1, <1>2, Zenon

-----------------------------------------------------------------------------
(* StructInv is inductive.                                                 *)

LEMMA StructInit == Init => StructInv
  <1> SUFFICES ASSUME Init PROVE StructInv
    BY Zenon
  <1>1. Absent(0) \in Objects /\ <<Absent(0)>> \in Seq(Objects) /\ <<Absent(0)>> # <<>>
    BY AbsentType
  <1>2. TypeOK
    BY <1>1, Zenon DEF Init, TypeOK, PCs
  <1>3. StreamEndsCurrent
    BY Zenon DEF Init, StreamEndsCurrent
  <1>4. \A s \in Shards : \A v \in Versions(s) : v = Absent(0)
    BY DEF Init, Versions
  <1>5. DeletingIsHeld /\ LiveVersionsExist
    <2>1. ~Absent(0).deleting /\ ~Absent(0).exists
      BY Zenon DEF Absent
    <2> QED BY <1>4, <2>1, Zenon DEF DeletingIsHeld, LiveVersionsExist
  <1>6. WorkerInv
    BY Zenon DEF Init, WorkerInv, CopyAgrees, DeregisterBranch, WorkingIsHeld, Working
  <1> QED BY <1>2, <1>3, <1>5, <1>6, Zenon DEF StructInv, ObjectInv

LEMMA StructUsers ==
  ASSUME StructInv, NEW s \in Shards, Create(s) \/ Edit(s) \/ Delete(s)
  PROVE  StructInv'
  <1> USE DEF StructInv
  <1>0. shard[s] \in Objects /\ BudgetTypes
    BY Zenon DEF TypeOK, BudgetTypes
  <1>1. CASE Create(s)
    <2>1. PICK groups \in SUBSET Claims[s] :
            UserStore(s, [Absent(shard[s].uid + 1) EXCEPT !.exists = TRUE, !.apiGroups = groups])
      BY <1>1, Zenon DEF Create
    <2> DEFINE o == [Absent(shard[s].uid + 1) EXCEPT !.exists = TRUE, !.apiGroups = groups]
    <2>2. o \in Objects /\ ~o.deleting
      <3>1. groups \in SUBSET APIServices /\ shard[s].uid + 1 \in Nat
        BY <1>0, ClaimsAssumption DEF Objects
      <3> QED BY <3>1, Zenon DEF Absent, Objects, Phases
    <2>3. ~shard[s].exists /\ BudgetTypes'
      BY <1>0, <1>1, Zenon DEF Create, BudgetTypes, budgets
    <2> HIDE DEF o
    <2>4. ObjectTypes' /\ ObjectInv' /\ ServiceTypes' /\ WorkerTypes' /\ WorkerInv'
      <3>1. UserStore(s, o)
        BY <2>1, Zenon DEF o
      <3> QED BY <2>2, <2>3, <3>1, UserStoreKeeps, Zenon
    <2> QED BY <2>3, <2>4, TypeParts, Zenon
  <1>2. CASE Edit(s)
    <2>1. PICK groups \in SUBSET Claims[s] :
            UserStore(s, [shard[s] EXCEPT !.apiGroups = groups, !.observed = FALSE])
      BY <1>2, Zenon DEF Edit
    <2> DEFINE o == [shard[s] EXCEPT !.apiGroups = groups, !.observed = FALSE]
    <2>2. /\ o \in Objects /\ o.exists = shard[s].exists /\ o.uid = shard[s].uid
          /\ o.deleting = shard[s].deleting /\ o.finalizer = shard[s].finalizer
      <3>1. groups \in SUBSET APIServices
        BY ClaimsAssumption, Zenon
      <3> QED BY <1>0, <3>1, Zenon DEF Objects
    <2>3. o.deleting => o.exists /\ o.finalizer
      <3>1. shard[s] \in Versions(s)
        BY HeadAndLastAreVersions, Zenon DEF ObjectInv
      <3> HIDE DEF o
      <3> QED BY <2>2, <3>1, Zenon DEF ObjectInv, DeletingIsHeld
    <2>4. BudgetTypes'
      <3>1. edits' = edits + 1 /\ UNCHANGED <<faults, drift>>
        BY <1>2, Zenon DEF Edit
      <3> QED BY <1>0, <3>1 DEF BudgetTypes
    <2> HIDE DEF o
    <2>5. ObjectTypes' /\ ObjectInv' /\ ServiceTypes' /\ WorkerTypes' /\ WorkerInv'
      <3>1. UserStore(s, o)
        BY <2>1, Zenon DEF o
      <3> QED BY <2>2, <2>3, <3>1, UserStoreKeeps, Zenon
    <2> QED BY <2>4, <2>5, TypeParts, Zenon
  <1>3. CASE Delete(s)
    <2> DEFINE o == IF shard[s].finalizer THEN [shard[s] EXCEPT !.deleting = TRUE]
                                          ELSE Absent(shard[s].uid)
    <2>1. o \in Objects
      BY <1>0, Zenon DEF Objects, Absent, Phases
    <2>2. /\ o.deleting => o.exists /\ o.finalizer
          /\ shard[s].exists /\ shard[s].finalizer =>
               o.exists /\ o.finalizer /\ o.uid = shard[s].uid
      BY <1>0, <1>3, Zenon DEF Delete, Objects, Absent
    <2>3. BudgetTypes' /\ UserStore(s, o)
      BY <1>0, <1>3, Zenon DEF Delete, BudgetTypes, budgets
    <2> HIDE DEF o
    <2>4. ObjectTypes' /\ ObjectInv' /\ ServiceTypes' /\ WorkerTypes' /\ WorkerInv'
      BY <2>1, <2>2, <2>3, UserStoreKeeps, Zenon
    <2> QED BY <2>3, <2>4, TypeParts, Zenon
  <1> QED BY <1>1, <1>2, <1>3, Zenon

(* Steps outside the worker that leave its variables alone.                *)
LEMMA WorkerUnchanged ==
  ASSUME StructInv, UNCHANGED <<shard, worker>>,
         \A s \in Shards : Len(stream[s]) = 1 => Len(stream'[s]) = 1
  PROVE  WorkerInv'
  BY Zenon DEF StructInv, TypeOK, WorkerInv, CopyAgrees, DeregisterBranch, WorkingIsHeld, worker

LEMMA StructEnvironment ==
  ASSUME StructInv, NEW n \in APIServices,
         Drift(n) \/ CollectGarbage(n) \/ ObserveService(n)
  PROVE  StructInv'
  <1> USE DEF StructInv
  <1>1. CASE Drift(n) \/ CollectGarbage(n)
    <2>1. SetOwner(n, None) /\ UNCHANGED <<objects, queue, worker, edits, faults>>
      BY <1>1, Zenon DEF Drift, CollectGarbage, budgets
    <2>2. ServiceTypes'
      BY <2>1, SetOwnerTypes, Zenon
    <2>3. WorkerTypes' /\ BudgetTypes'
      BY <1>1, <2>1 DEF Drift, CollectGarbage, TypeOK, WorkerTypes, BudgetTypes, worker, budgets
    <2>4. WorkerInv'
      BY <2>1, WorkerUnchanged, Zenon DEF objects
    <2> QED BY <2>1, <2>2, <2>3, <2>4, ObjectsUnchanged, TypeParts, Zenon
  <1>2. CASE ObserveService(n)
    <2>1. UNCHANGED <<objects, worker>>
      BY <1>2, Zenon DEF ObserveService
    <2>2. ServiceTypes' /\ WorkerTypes' /\ BudgetTypes'
      BY <1>2, Zenon DEF ObserveService, TypeOK, ServiceTypes, WorkerTypes, BudgetTypes, worker, budgets
    <2>3. WorkerInv'
      BY <2>1, WorkerUnchanged, Zenon DEF objects
    <2> QED BY <2>1, <2>2, <2>3, ObjectsUnchanged, TypeParts, Zenon
  <1> QED BY <1>1, <1>2, Zenon

LEMMA StructStart ==
  ASSUME StructInv, NEW s \in Shards, Start(s)
  PROVE  StructInv'
  <1> USE DEF StructInv
  <1> DEFINE cached == Head(stream[s])
  <1>1. /\ cached \in Versions(s) /\ cached \in Objects
        /\ Len(stream[s]) \in Nat \ {0}
        /\ Len(stream[s]) = 1 => cached = shard[s]
    BY HeadAndLastAreVersions, Zenon DEF ObjectInv
  <1>2. ObjectTypes' /\ ObjectInv' /\ UNCHANGED objects
    BY ObjectsUnchanged, Zenon DEF Start
  <1>3. ServiceTypes' /\ BudgetTypes'
    BY Zenon DEF Start, TypeOK, ServiceTypes, BudgetTypes, services, budgets
  <1>4. pc = "idle" /\ cur' = s /\ queue' = queue \ {s}
    BY Zenon DEF Start
  <1> HIDE DEF cached
  <1>5. CASE UNCHANGED <<pc, copy, fresh, todo>>
    BY <1>2, <1>3, <1>4, <1>5, TypeParts, Zenon DEF TypeOK, WorkerTypes, WorkerInv, CopyAgrees,
       DeregisterBranch, WorkingIsHeld, Working
  <1>6. CASE /\ cached.exists /\ cached.deleting /\ cached.finalizer
             /\ pc' = "deregister" /\ todo' = cached.registered
             /\ copy' = cached /\ fresh' = (Len(stream[s]) = 1)
    <2>1. WorkerTypes'
      BY <1>1, <1>4, <1>6, Zenon DEF TypeOK, WorkerTypes, PCs, Objects
    <2>2. CopyAgrees' /\ DeregisterBranch'
      <3>1. fresh' => Len(stream[s]) = 1 /\ cached = shard[s]
        BY <1>1, <1>6, Zenon
      <3>2. shard' = shard /\ stream' = stream
        BY <1>2, Zenon DEF objects
      <3> QED BY <1>4, <1>6, <3>1, <3>2, Zenon DEF CopyAgrees, DeregisterBranch
    <2>3. WorkingIsHeld'
      BY <1>6, Zenon DEF WorkingIsHeld, Working
    <2> QED BY <1>2, <1>3, <2>1, <2>2, <2>3, TypeParts, Zenon DEF WorkerInv
  <1>7. CASE /\ cached.exists /\ ~cached.deleting
             /\ pc' = (IF cached.finalizer THEN "namespace" ELSE "addFinalizer") /\ todo' = {}
             /\ copy' = cached /\ fresh' = (Len(stream[s]) = 1)
    <2>1. WorkerTypes'
      BY <1>1, <1>4, <1>7, Zenon DEF TypeOK, WorkerTypes, PCs, Working
    <2>2. CopyAgrees' /\ DeregisterBranch'
      <3>1. fresh' => Len(stream[s]) = 1 /\ cached = shard[s]
        BY <1>1, <1>7, Zenon
      <3>2. shard' = shard /\ stream' = stream
        BY <1>2, Zenon DEF objects
      <3> QED BY <1>4, <1>7, <3>1, <3>2, Zenon DEF CopyAgrees, DeregisterBranch
    <2>3. WorkingIsHeld'
      <3>1. cached.finalizer => shard[s].exists /\ shard[s].finalizer /\ shard[s].uid = cached.uid
        BY <1>1, <1>7, Zenon DEF ObjectInv, LiveVersionsExist
      <3> QED BY <1>2, <1>4, <1>7, <3>1, Zenon DEF WorkingIsHeld, Working, objects
    <2> QED BY <1>2, <1>3, <2>1, <2>2, <2>3, TypeParts, Zenon DEF WorkerInv
  <1> QED BY <1>5, <1>6, <1>7, Zenon DEF Start, cached

LEMMA StructDeregister ==
  ASSUME StructInv, NEW n \in APIServices, NEW o \in Outcomes, Deregister(n, o)
  PROVE  StructInv'
  <1> USE DEF StructInv
  <1>1. BudgetTypes' /\ ObjectTypes' /\ ObjectInv' /\ UNCHANGED objects
    BY SpendTypes, ObjectsUnchanged, Zenon DEF Deregister
  <1>2. ServiceTypes'
    <2>1. CASE SetOwner(n, None)
      BY <2>1, SetOwnerTypes, Zenon
    <2>2. CASE UNCHANGED services
      BY <2>2, Zenon DEF TypeOK, ServiceTypes, services
    <2> QED BY <2>1, <2>2, Zenon DEF Deregister
  <1>3. CASE o = "ok"
    <2>1. /\ pc = "deregister" /\ pc' = pc /\ todo' = todo \ {n}
          /\ UNCHANGED <<cur, queue, copy, fresh>>
      BY <1>3, Zenon DEF Deregister, Step
    <2>2. WorkerTypes'
      BY <2>1, Zenon DEF TypeOK, WorkerTypes
    <2>3. WorkerInv'
      BY <1>1, <2>1, Zenon DEF WorkerInv, CopyAgrees, DeregisterBranch, WorkingIsHeld, objects
    <2> QED BY <1>1, <1>2, <2>2, <2>3, TypeParts, Zenon
  <1>4. CASE o # "ok"
    <2>1. WorkerTypes' /\ WorkerInv'
      BY <1>4, ReturnKeeps, Zenon DEF Deregister
    <2> QED BY <1>1, <1>2, <2>1, TypeParts, Zenon
  <1> QED BY <1>3, <1>4, Zenon

LEMMA StructRemoveFinalizer ==
  ASSUME StructInv, NEW o \in Outcomes, RemoveFinalizer(o)
  PROVE  StructInv'
  <1> USE DEF StructInv
  <1>1. BudgetTypes' /\ ServiceTypes' /\ WorkerTypes' /\ WorkerInv'
    <2>1. BudgetTypes'
      BY SpendTypes, Zenon DEF RemoveFinalizer
    <2>2. ServiceTypes'
      BY Zenon DEF RemoveFinalizer, TypeOK, ServiceTypes, services
    <2> QED BY <2>1, <2>2, ReturnKeeps, Zenon DEF RemoveFinalizer
  <1>2. ObjectTypes' /\ ObjectInv'
    <2>1. CASE fresh /\ Effective(o)
      <3>1. Store(cur, Absent(copy.uid)) /\ cur \in Shards /\ Absent(copy.uid) \in Objects
        BY <2>1, AbsentType, ZenonT(30) DEF RemoveFinalizer, Write, TypeOK, Objects
      <3>2. Len(stream[cur]) = 1 /\ shard[cur].deleting
        BY <2>1, Zenon DEF RemoveFinalizer, WorkerInv, DeregisterBranch, CopyAgrees
      <3>3. \A v \in Versions(cur) : v.deleting
        <4>1. \A v \in Versions(cur) : v = shard[cur]
          BY <3>1, <3>2 DEF Versions, ObjectInv, StreamEndsCurrent
        <4> QED BY <3>2, <4>1, Zenon
      <3>4. ~Absent(copy.uid).deleting
        BY Zenon DEF Absent
      <3> QED BY <3>1, <3>3, <3>4, StoreKeeps, Zenon
    <2>2. CASE ~(fresh /\ Effective(o))
      BY <2>2, ObjectsUnchanged, Zenon DEF RemoveFinalizer, Write
    <2> QED BY <2>1, <2>2, Zenon
  <1> QED BY <1>1, <1>2, TypeParts, Zenon

LEMMA StructAddFinalizer ==
  ASSUME StructInv, NEW o \in Outcomes, AddFinalizer(o)
  PROVE  StructInv'
  <1> USE DEF StructInv
  <1> DEFINE patched == [shard[cur] EXCEPT !.finalizer = TRUE]
  <1>1. BudgetTypes' /\ ServiceTypes'
    <2>1. BudgetTypes'
      BY SpendTypes, Zenon DEF AddFinalizer
    <2> QED BY <2>1, Zenon DEF AddFinalizer, TypeOK, ServiceTypes, services
  <1>2. /\ cur \in Shards /\ shard[cur] \in Objects /\ patched \in Objects
        /\ patched.exists = shard[cur].exists /\ patched.uid = shard[cur].uid
        /\ patched.finalizer
    BY Zenon DEF TypeOK, Objects
  <1>3. /\ IF shard[cur].exists /\ Effective(o) THEN Store(cur, patched) ELSE UNCHANGED objects
        /\ IF shard[cur].exists /\ o = "ok"
           THEN /\ Step("namespace") /\ copy' = patched /\ fresh' = TRUE /\ UNCHANGED todo
           ELSE Return(TRUE)
    BY Zenon DEF AddFinalizer
  <1> HIDE DEF patched
  <1>4. ObjectTypes' /\ ObjectInv'
    <2>1. CASE shard[cur].exists /\ Effective(o)
      <3>1. \A v \in Versions(cur) : v.exists /\ v.finalizer /\ ~v.deleting =>
              patched.exists /\ patched.uid = v.uid /\ patched.finalizer
        BY <1>2, Zenon DEF ObjectInv, LiveVersionsExist
      <3> QED BY <1>2, <1>3, <2>1, <3>1, StoreKeeps, Zenon
    <2>2. CASE ~(shard[cur].exists /\ Effective(o))
      BY <1>3, <2>2, ObjectsUnchanged, Zenon
    <2> QED BY <2>1, <2>2, Zenon
  <1>5. WorkerTypes' /\ WorkerInv'
    <2>1. CASE shard[cur].exists /\ o = "ok"
      <3>1. shard'[cur] = patched
        BY <1>2, <1>3, <2>1, Zenon DEF Store, Effective, TypeOK
      <3>2. WorkerTypes'
        BY <1>2, <1>3, <2>1, Zenon DEF Step, TypeOK, WorkerTypes, PCs, Working
      <3>3. CopyAgrees' /\ DeregisterBranch' /\ WorkingIsHeld'
        BY <1>2, <1>3, <2>1, <3>1, Zenon DEF Step, CopyAgrees, DeregisterBranch, WorkingIsHeld
      <3> QED BY <3>2, <3>3, Zenon DEF WorkerInv
    <2>2. CASE ~(shard[cur].exists /\ o = "ok")
      BY <1>3, <2>2, ReturnKeeps, Zenon
    <2> QED BY <2>1, <2>2, Zenon
  <1> QED BY <1>1, <1>4, <1>5, TypeParts, Zenon

(* A step of the pass that leaves the object alone and the identity, the   *)
(* deletion mark and the spec in its copy.                                 *)
LEMMA WorkingStep ==
  ASSUME StructInv, UNCHANGED <<objects, cur, queue>>, pc \in Working, pc' \in Working,
         copy' \in Objects, copy'.exists = copy.exists, copy'.uid = copy.uid,
         copy'.deleting = copy.deleting, copy'.finalizer = copy.finalizer,
         copy'.apiGroups = copy.apiGroups, fresh' = fresh, todo' \in SUBSET APIServices
  PROVE  ObjectTypes' /\ ObjectInv' /\ WorkerTypes' /\ WorkerInv'
  <1>1. ObjectTypes' /\ ObjectInv'
    BY ObjectsUnchanged, Zenon DEF StructInv
  <1>2. WorkerTypes'
    BY Zenon DEF StructInv, TypeOK, WorkerTypes, PCs
  <1>3. CopyAgrees' /\ WorkingIsHeld'
    BY Zenon DEF StructInv, WorkerInv, CopyAgrees, WorkingIsHeld, Working, objects
  <1>4. DeregisterBranch'
    BY Zenon DEF DeregisterBranch, Working
  <1> QED BY <1>1, <1>2, <1>3, <1>4, Zenon DEF WorkerInv

LEMMA StructProvision ==
  ASSUME StructInv, NEW o \in Outcomes, EnsureNamespace(o) \/ Provision(o) \/ StartPrune
  PROVE  StructInv'
  <1> USE DEF StructInv
  <1>1. copy \in Objects /\ copy.apiGroups \in SUBSET APIServices /\ todo \in SUBSET APIServices
        /\ copy.registered \in SUBSET APIServices
    BY Zenon DEF TypeOK, Objects
  <1>2. CASE EnsureNamespace(o)
    <2>1. BudgetTypes' /\ ServiceTypes'
      BY <1>2, SpendTypes, Zenon DEF EnsureNamespace, TypeOK, ServiceTypes, services
    <2>2. ObjectTypes' /\ ObjectInv' /\ WorkerTypes' /\ WorkerInv'
      BY <1>1, <1>2, WorkingStep, Zenon DEF EnsureNamespace, Step, Working
    <2> QED BY <2>1, <2>2, TypeParts, Zenon
  <1>3. CASE Provision(o)
    <2>1. BudgetTypes' /\ ServiceTypes'
      BY <1>3, SpendTypes, Zenon DEF Provision, TypeOK, ServiceTypes, services
    <2>2. ObjectTypes' /\ ObjectInv' /\ WorkerTypes' /\ WorkerInv'
      BY <1>1, <1>3, WorkingStep, Zenon DEF Provision, Step, Working
    <2> QED BY <2>1, <2>2, TypeParts, Zenon
  <1>4. CASE StartPrune
    <2>1. BudgetTypes' /\ ServiceTypes'
      BY <1>4, Zenon DEF StartPrune, TypeOK, ServiceTypes, BudgetTypes, services, budgets
    <2>2. ObjectTypes' /\ ObjectInv' /\ WorkerTypes' /\ WorkerInv'
      BY <1>1, <1>4, WorkingStep, Zenon DEF StartPrune, Step, Working
    <2> QED BY <2>1, <2>2, TypeParts, Zenon
  <1> QED BY <1>2, <1>3, <1>4, Zenon

LEMMA StructServices ==
  ASSUME StructInv, NEW n \in APIServices, NEW o \in Outcomes, Apply(n, o) \/ Prune(n, o)
  PROVE  StructInv'
  <1> USE DEF StructInv
  <1>1. copy \in Objects /\ todo \in SUBSET APIServices /\ Owner(cur, copy.uid) \in Owners
    BY Zenon DEF TypeOK, Objects, Owner, Owners
  <1>2. CASE Apply(n, o)
    <2>1. BudgetTypes'
      BY <1>2, SpendTypes, Zenon DEF Apply
    <2>2. ServiceTypes'
      <3>1. CASE SetOwner(n, Owner(cur, copy.uid))
        BY <1>1, <3>1, SetOwnerTypes, Zenon
      <3>2. CASE UNCHANGED services
        BY <3>2, Zenon DEF TypeOK, ServiceTypes, services
      <3> QED BY <1>2, <3>1, <3>2, Zenon DEF Apply
    <2>3. ObjectTypes' /\ ObjectInv' /\ WorkerTypes' /\ WorkerInv'
      BY <1>1, <1>2, WorkingStep, Zenon DEF Apply, Step, Working
    <2> QED BY <2>1, <2>2, <2>3, TypeParts, Zenon
  <1>3. CASE Prune(n, o)
    <2>1. BudgetTypes'
      BY <1>3, SpendTypes, Zenon DEF Prune
    <2>2. ServiceTypes'
      <3>1. CASE SetOwner(n, None)
        BY <3>1, SetOwnerTypes, Zenon
      <3>2. CASE UNCHANGED services
        BY <3>2, Zenon DEF TypeOK, ServiceTypes, services
      <3> QED BY <1>3, <3>1, <3>2, Zenon DEF Prune
    <2>3. /\ UNCHANGED <<objects, cur, queue, copy, fresh>> /\ pc = "prune"
          /\ pc' \in {"prune", "setError"} /\ todo' \in {todo \ {n}, {}}
      BY <1>3, Zenon DEF Prune, Step
    <2>4. ObjectTypes' /\ ObjectInv' /\ WorkerTypes' /\ WorkerInv'
      BY <1>1, <2>3, WorkingStep, Zenon DEF Working
    <2> QED BY <2>1, <2>2, <2>4, TypeParts, Zenon
  <1> QED BY <1>2, <1>3, Zenon

LEMMA StructStatus ==
  ASSUME StructInv, NEW o \in Outcomes,
         InitPhase(o) \/ UpdateHealth(o) \/ WriteStatus(o) \/ SetError(o)
  PROVE  StructInv'
  <1> USE DEF StructInv
  <1>1. BudgetTypes' /\ ServiceTypes'
    <2>1. Spend(o) /\ UNCHANGED services
      BY Zenon DEF InitPhase, UpdateHealth, WriteStatus, SetError
    <2> QED BY <2>1, SpendTypes, Zenon DEF TypeOK, ServiceTypes, services
  <1>2. copy \in Objects /\ cur \in Shards
    BY Zenon DEF TypeOK
  <1>3. CASE InitPhase(o)
    <2> DEFINE object == [copy EXCEPT !.phase = "Provisioning"]
    <2>1. /\ object \in Objects /\ object.exists = copy.exists /\ object.uid = copy.uid
          /\ object.deleting = copy.deleting /\ object.finalizer = copy.finalizer
          /\ object.apiGroups = copy.apiGroups
      BY <1>2, Zenon DEF Objects, Phases
    <2>2. /\ Write(o, object) /\ pc = "initPhase"
          /\ IF Written(o) THEN Step("provision") /\ copy' = object /\ UNCHANGED <<fresh, todo>>
                           ELSE Return(TRUE)
      BY <1>3, Zenon DEF InitPhase
    <2> HIDE DEF object
    <2>3. /\ ObjectTypes' /\ ObjectInv'
          /\ shard' = shard \/ shard' = [shard EXCEPT ![cur] = object]
      BY <2>1, <2>2, WriteKeeps, Zenon DEF Working
    <2>4. CASE Written(o)
      <3>1. WorkerTypes'
        BY <2>1, <2>2, <2>4, Zenon DEF Step, TypeOK, WorkerTypes, PCs, Working
      <3>2. fresh /\ shard'[cur] = object
        BY <1>2, <2>2, <2>4, Zenon DEF Written, Write, Effective, Store, TypeOK
      <3>3. CopyAgrees' /\ DeregisterBranch'
        BY <2>2, <2>4, <3>2, Zenon DEF Step, CopyAgrees, DeregisterBranch
      <3>4. WorkingIsHeld'
        BY <2>1, <2>2, <2>4, <3>2, Zenon DEF Step, WorkerInv, WorkingIsHeld, Working, CopyAgrees
      <3> QED BY <1>1, <2>3, <3>1, <3>3, <3>4, TypeParts, Zenon DEF WorkerInv
    <2>5. CASE ~Written(o)
      BY <1>1, <2>2, <2>3, <2>5, ReturnKeeps, TypeParts, Zenon
    <2> QED BY <2>4, <2>5, Zenon
  <1>4. CASE UpdateHealth(o)
    <2>1. CASE o = "ok"
      <3>1. PICK phase \in {"Provisioning", "Ready"} :
              copy' = [copy EXCEPT !.registered = copy.apiGroups, !.phase = phase,
                                   !.observed = TRUE]
        BY <1>4, <2>1, Zenon DEF UpdateHealth
      <3>2. /\ copy' \in Objects /\ copy'.exists = copy.exists /\ copy'.uid = copy.uid
            /\ copy'.deleting = copy.deleting /\ copy'.finalizer = copy.finalizer
            /\ copy'.apiGroups = copy.apiGroups
        BY <1>2, <3>1, Zenon DEF Objects, Phases
      <3>3. /\ UNCHANGED <<objects, cur, queue, fresh, todo>>
            /\ pc \in Working /\ pc' \in Working /\ todo \in SUBSET APIServices
        BY <1>4, <2>1, Zenon DEF UpdateHealth, Step, Working, TypeOK
      <3>4. ObjectTypes' /\ ObjectInv' /\ WorkerTypes' /\ WorkerInv'
        BY <3>2, <3>3, WorkingStep, Zenon
      <3> QED BY <1>1, <3>4, TypeParts, Zenon
    <2>2. CASE o # "ok"
      BY <1>1, <1>4, <2>2, ReturnKeeps, ObjectsUnchanged, TypeParts, Zenon DEF UpdateHealth
    <2> QED BY <2>1, <2>2, Zenon
  <1>5. CASE WriteStatus(o)
    <2>1. ObjectTypes' /\ ObjectInv'
      BY <1>2, <1>5, WriteKeeps, Zenon DEF WriteStatus, Working
    <2>2. WorkerTypes' /\ WorkerInv'
      BY <1>5, ReturnKeeps, Zenon DEF WriteStatus
    <2> QED BY <1>1, <2>1, <2>2, TypeParts, Zenon
  <1>6. CASE SetError(o)
    <2> DEFINE object == [copy EXCEPT !.phase = "Error", !.observed = TRUE]
    <2>1. /\ object \in Objects /\ object.exists = copy.exists /\ object.uid = copy.uid
          /\ object.deleting = copy.deleting /\ object.finalizer = copy.finalizer
          /\ object.apiGroups = copy.apiGroups
      BY <1>2, Zenon DEF Objects, Phases
    <2>2. Write(o, object) /\ pc \in Working
      BY <1>6, Zenon DEF SetError, Working
    <2> HIDE DEF object
    <2>3. ObjectTypes' /\ ObjectInv'
      BY <2>1, <2>2, WriteKeeps, Zenon
    <2>4. WorkerTypes' /\ WorkerInv'
      BY <1>6, ReturnKeeps, Zenon DEF SetError
    <2> QED BY <1>1, <2>3, <2>4, TypeParts, Zenon
  <1> QED BY <1>3, <1>4, <1>5, <1>6, Zenon

LEMMA StructRestart ==
  ASSUME StructInv, Restart
  PROVE  StructInv'
  <1> USE DEF StructInv
  <1>1. Absent(0) \in Objects
    BY AbsentType, Zenon
  <1>2. \A s \in Shards : /\ shard[s] \in Objects /\ stream'[s] = <<shard[s]>>
                          /\ <<shard[s]>> \in Seq(Objects) /\ <<shard[s]>> # <<>>
    BY DEF Restart, TypeOK
  <1>3. ObjectTypes'
    BY <1>2, Zenon DEF Restart, TypeOK, ObjectTypes
  <1>4. ServiceTypes' /\ WorkerTypes' /\ BudgetTypes'
    <2>1. ServiceTypes'
      BY Zenon DEF Restart, TypeOK, ServiceTypes
    <2>2. WorkerTypes'
      BY <1>1, Zenon DEF Restart, TypeOK, WorkerTypes, PCs
    <2>3. BudgetTypes'
      BY DEF Restart, TypeOK, BudgetTypes
    <2> QED BY <2>1, <2>2, <2>3, Zenon
  <1>5. StreamEndsCurrent' /\ \A s \in Shards : Versions(s)' = {shard[s]}
    <2>1. \A s \in Shards : Len(stream'[s]) = 1 /\ stream'[s][1] = shard[s]
      BY <1>2
    <2> QED BY <2>1 DEF Restart, StreamEndsCurrent, Versions
  <1>6. DeletingIsHeld' /\ LiveVersionsExist'
    <2>1. \A s \in Shards : shard[s] \in Versions(s)
      BY HeadAndLastAreVersions, Zenon DEF ObjectInv
    <2> QED BY <1>5, <2>1 DEF Restart, ObjectInv, DeletingIsHeld, LiveVersionsExist
  <1>7. WorkerInv'
    BY Zenon DEF Restart, WorkerInv, CopyAgrees, DeregisterBranch, WorkingIsHeld, Working
  <1> QED BY <1>3, <1>4, <1>5, <1>6, <1>7, TypeParts, Zenon DEF ObjectInv

LEMMA StructStutter == ASSUME StructInv, UNCHANGED vars PROVE StructInv'
  <1>1. UNCHANGED <<objects, worker>>
    BY Zenon DEF vars
  <1>2. ObjectTypes' /\ ObjectInv'
    BY <1>1, ObjectsUnchanged, Zenon DEF StructInv
  <1>3. WorkerInv'
    BY <1>1, WorkerUnchanged, Zenon DEF StructInv, objects
  <1>4. ServiceTypes' /\ WorkerTypes' /\ BudgetTypes'
    BY Zenon DEF vars, StructInv, TypeOK, ServiceTypes, WorkerTypes, BudgetTypes, services,
           worker, budgets
  <1> QED BY <1>2, <1>3, <1>4, TypeParts, Zenon DEF StructInv

LEMMA StructStep == StructInv /\ [Next]_vars => StructInv'
  <1> SUFFICES ASSUME StructInv, [Next]_vars PROVE StructInv'
    BY Zenon
  <1>1. ASSUME NEW s \in Shards, Create(s) \/ Edit(s) \/ Delete(s) PROVE StructInv'
    BY <1>1, StructUsers, Zenon
  <1>2. ASSUME NEW s \in Shards, ObserveShard(s) PROVE StructInv'
    <2>1. ObjectTypes' /\ ObjectInv'
      BY <1>2, ObserveKeeps, Zenon DEF StructInv
    <2>2. ServiceTypes' /\ WorkerTypes' /\ BudgetTypes'
      BY <1>2, Zenon DEF StructInv, ObserveShard, TypeOK, ServiceTypes, WorkerTypes, BudgetTypes,
                  services, worker, budgets
    <2>3. \A t \in Shards : Len(stream[t]) = 1 => Len(stream'[t]) = 1
      BY <1>2 DEF StructInv, ObserveShard, TypeOK
    <2>4. WorkerInv'
      BY <1>2, <2>3, WorkerUnchanged, Zenon DEF ObserveShard
    <2> QED BY <2>1, <2>2, <2>4, TypeParts, Zenon DEF StructInv
  <1>3. ASSUME NEW s \in Shards, Start(s) PROVE StructInv'
    BY <1>3, StructStart, Zenon
  <1>4. ASSUME NEW n \in APIServices, Drift(n) \/ CollectGarbage(n) \/ ObserveService(n)
        PROVE  StructInv'
    BY <1>4, StructEnvironment, Zenon
  <1>5. ASSUME NEW o \in Outcomes, NEW n \in APIServices,
               Deregister(n, o) \/ Apply(n, o) \/ Prune(n, o)
        PROVE  StructInv'
    BY <1>5, StructDeregister, StructServices, Zenon
  <1>6. ASSUME NEW o \in Outcomes, RemoveFinalizer(o) \/ AddFinalizer(o) PROVE StructInv'
    BY <1>6, StructRemoveFinalizer, StructAddFinalizer, Zenon
  <1>7. ASSUME NEW o \in Outcomes, EnsureNamespace(o) \/ Provision(o) \/ StartPrune
        PROVE  StructInv'
    BY <1>7, StructProvision, Zenon
  <1>8. ASSUME NEW o \in Outcomes,
               InitPhase(o) \/ UpdateHealth(o) \/ WriteStatus(o) \/ SetError(o)
        PROVE  StructInv'
    BY <1>8, StructStatus, Zenon
  <1>9. CASE Restart
    BY <1>9, StructRestart, Zenon
  <1>10. CASE UNCHANGED vars
    BY <1>10, StructStutter, Zenon
  <1>11. "ok" \in Outcomes
    BY Zenon DEF Outcomes
  <1> QED BY <1>1, <1>2, <1>3, <1>4, <1>5, <1>6, <1>7, <1>8, <1>9, <1>10, <1>11
          DEF Next, Progress, Request

(* Outside Apply no APIService gets an owner.                              *)
LEMMA ServiceMoves ==
  ASSUME Next
  PROVE  \/ UNCHANGED svc
         \/ \E n \in APIServices : svc' = [svc EXCEPT ![n] = None]
         \/ \E n \in APIServices, o \in Outcomes : Apply(n, o)
  <1>1. ASSUME NEW s \in Shards,
               Create(s) \/ Edit(s) \/ Delete(s) \/ ObserveShard(s) \/ Start(s)
        PROVE  UNCHANGED svc
    BY <1>1, Zenon DEF Create, Edit, Delete, UserStore, ObserveShard, Start, services
  <1>2. ASSUME NEW n \in APIServices, Drift(n) \/ CollectGarbage(n) \/ ObserveService(n)
        PROVE  UNCHANGED svc \/ svc' = [svc EXCEPT ![n] = None]
    BY <1>2, Zenon DEF Drift, CollectGarbage, ObserveService, SetOwner
  <1>3. ASSUME NEW o \in Outcomes, NEW n \in APIServices, Deregister(n, o) \/ Prune(n, o)
        PROVE  UNCHANGED svc \/ svc' = [svc EXCEPT ![n] = None]
    BY <1>3, Zenon DEF Deregister, Prune, SetOwner, services
  <1>4. ASSUME NEW o \in Outcomes,
               RemoveFinalizer(o) \/ AddFinalizer(o) \/ EnsureNamespace(o) \/ InitPhase(o)
                 \/ Provision(o) \/ UpdateHealth(o) \/ WriteStatus(o) \/ SetError(o)
        PROVE  UNCHANGED svc
    BY <1>4, Zenon DEF RemoveFinalizer, AddFinalizer, EnsureNamespace, InitPhase, Provision,
                UpdateHealth, WriteStatus, SetError, services
  <1>5. CASE StartPrune \/ Restart
    BY <1>5, Zenon DEF StartPrune, Restart, services
  <1> QED BY <1>1, <1>2, <1>3, <1>4, <1>5, Zenon DEF Next, Progress, Request

-----------------------------------------------------------------------------
(* Theorems.                                                               *)

(* What Reconcile knows of the shard it works on, whatever users, the      *)
(* informers, failing requests and restarts do meanwhile.                  *)
THEOREM StructCorrect == Spec => []StructInv
  BY StructInit, StructStep, PTL DEF Spec

(* Type correctness of the model of the APIShard controller.               *)
THEOREM TypeCorrect == Spec => []TypeOK
  <1>1. StructInv => TypeOK
    BY Zenon DEF StructInv
  <1> QED BY <1>1, StructCorrect, PTL

(* reconcileAPIServices never registers an APIService for a shard that is  *)
(* gone, recreated or without its finalizer: the finalizer patch, and the  *)
(* cache that shows a deletion before the finalizer is dropped, rule it    *)
(* out for every copy Reconcile can be working on.                         *)
THEOREM FinalizerFirst == Spec => AppliedUnderFinalizer
  <1> DEFINE P == \A n \in APIServices : svc'[n] # svc[n] /\ svc'[n] # None =>
                    Alive(svc'[n]) /\ shard[svc'[n][1]].finalizer
  <1>1. StructInv /\ [Next]_vars => [P]_vars
    <2> SUFFICES ASSUME StructInv, Next PROVE P
      BY Zenon
    <2>1. ASSUME NEW m \in APIServices, svc' = [svc EXCEPT ![m] = None] PROVE P
      BY <2>1, Zenon DEF StructInv, TypeOK
    <2>2. CASE UNCHANGED svc
      BY <2>2, Zenon
    <2>3. ASSUME NEW m \in APIServices, NEW o \in Outcomes, Apply(m, o) PROVE P
      <3>1. pc = "apply" /\ (UNCHANGED svc \/ svc' = [svc EXCEPT ![m] = Owner(cur, copy.uid)])
        BY <2>3, Zenon DEF Apply, SetOwner, services
      <3>2. shard[cur].exists /\ shard[cur].finalizer /\ shard[cur].uid = copy.uid
        BY <3>1, Zenon DEF StructInv, WorkerInv, WorkingIsHeld, Working
      <3>3. Owner(cur, copy.uid)[1] = cur /\ Owner(cur, copy.uid)[2] = copy.uid
        BY Zenon DEF Owner
      <3> QED BY <3>1, <3>2, <3>3, Zenon DEF Alive, StructInv, TypeOK
    <2> QED BY <2>1, <2>2, <2>3, ServiceMoves, Zenon
  <1> QED BY <1>1, StructCorrect, PTL DEF Spec, AppliedUnderFinalizer

-----------------------------------------------------------------------------
(* The deletion branch, when Get on an APIService is not served by a       *)
(* lagging cache.                                                          *)

(* How the worker's variables move while the deletion loop runs.           *)
LEMMA DeregisterMoves ==
  ASSUME TypeOK, Next, pc' = "deregister"
  PROVE  \/ pc = "deregister" /\ UNCHANGED <<cur, copy, todo>>
         \/ \E n \in APIServices, o \in Outcomes : Deregister(n, o) /\ o = "ok"
         \/ todo' = copy'.registered
  <1>1. ASSUME NEW s \in Shards, Create(s) \/ Edit(s) \/ Delete(s) \/ ObserveShard(s)
        PROVE  UNCHANGED <<pc, cur, copy, todo>>
    BY <1>1, ZenonT(30) DEF Create, Edit, Delete, UserStore, ObserveShard, worker
  <1>2. ASSUME NEW s \in Shards, Start(s) PROVE todo' = copy'.registered
    BY <1>2, Zenon DEF Start
  <1>3. ASSUME NEW n \in APIServices, Drift(n) \/ CollectGarbage(n) \/ ObserveService(n)
        PROVE  UNCHANGED <<pc, cur, copy, todo>>
    BY <1>3, Zenon DEF Drift, CollectGarbage, ObserveService, worker
  <1>4. ASSUME NEW o \in Outcomes, NEW n \in APIServices, Deregister(n, o) PROVE o = "ok"
    BY <1>4, Zenon DEF Deregister, Return
  <1>5. ASSUME NEW o \in Outcomes, NEW n \in APIServices, Apply(n, o) \/ Prune(n, o) PROVE FALSE
    BY <1>5, Zenon DEF Apply, Prune, Step
  <1>6. ASSUME NEW o \in Outcomes,
               RemoveFinalizer(o) \/ AddFinalizer(o) \/ EnsureNamespace(o) \/ InitPhase(o)
                 \/ Provision(o) \/ UpdateHealth(o) \/ WriteStatus(o) \/ SetError(o)
        PROVE  FALSE
    BY <1>6, Zenon DEF RemoveFinalizer, AddFinalizer, EnsureNamespace, InitPhase, Provision,
                UpdateHealth, WriteStatus, SetError, Step, Return
  <1>7. CASE StartPrune \/ Restart
    BY <1>7, Zenon DEF StartPrune, Restart, Step
  <1> QED BY <1>1, <1>2, <1>3, <1>4, <1>5, <1>6, <1>7, Zenon DEF Next, Progress, Request

(* A request on an APIService leaves the informer's view alone and, where  *)
(* it makes shard t the owner, puts an event for t on its way.             *)
LEMMA SetOwnerNotifies ==
  ASSUME TypeOK, NEW n \in APIServices, NEW o \in Owners \cup {None},
         SetOwner(n, o) \/ UNCHANGED services
  PROVE  /\ seen' = seen
         /\ \A m \in APIServices : notify[m] \subseteq notify'[m]
         /\ \A m \in APIServices : svc'[m] = svc[m] \/ svc'[m] = None \/ svc'[m][1] \in notify'[m]
  <1>1. CASE UNCHANGED services
    BY <1>1, Zenon DEF services
  <1>2. CASE SetOwner(n, o) /\ o = svc[n]
    BY <1>2, Zenon DEF SetOwner, TypeOK
  <1>3. CASE SetOwner(n, o) /\ o # svc[n]
    <2>1. /\ seen' = seen /\ svc' = [svc EXCEPT ![n] = o]
          /\ notify' = [notify EXCEPT ![n] = @ \cup OwnerShards(svc[n]) \cup OwnerShards(o)]
      BY <1>3, Zenon DEF SetOwner
    <2>2. notify'[n] = notify[n] \cup OwnerShards(svc[n]) \cup OwnerShards(o)
      BY <2>1, Zenon DEF TypeOK
    <2>3. \A m \in APIServices : m # n => svc'[m] = svc[m] /\ notify'[m] = notify[m]
      BY <2>1, Zenon DEF TypeOK
    <2>4. svc'[n] = o
      BY <2>1, Zenon DEF TypeOK
    <2>5. o = None \/ o[1] \in OwnerShards(o)
      BY Zenon DEF OwnerShards
    <2> QED BY <2>1, <2>2, <2>3, <2>4, <2>5, Zenon
  <1> QED BY <1>1, <1>2, <1>3, Zenon

(* What every step but those of the informer and the restart does to the   *)
(* APIServices.                                                            *)
LEMMA ServicesNotify ==
  ASSUME TypeOK, Next, \A n \in APIServices : ~ObserveService(n), ~Restart
  PROVE  /\ seen' = seen
         /\ \A m \in APIServices : notify[m] \subseteq notify'[m]
         /\ \A m \in APIServices : svc'[m] = svc[m] \/ svc'[m] = None \/ svc'[m][1] \in notify'[m]
  <1> DEFINE Touched == \E n \in APIServices, o \in Owners \cup {None} :
                          SetOwner(n, o) \/ UNCHANGED services
  <1>1. CASE UNCHANGED services
    BY <1>1, Zenon DEF services
  <1>2. CASE Touched
    BY <1>2, SetOwnerNotifies, Zenon
  <1>3. ASSUME NEW n \in APIServices, Drift(n) \/ CollectGarbage(n) PROVE Touched
    BY <1>3, Zenon DEF Drift, CollectGarbage
  <1>4. ASSUME NEW n \in APIServices, NEW o \in Outcomes, Deregister(n, o) \/ Prune(n, o)
        PROVE  Touched
    BY <1>4, Zenon DEF Deregister, Prune
  <1>5. ASSUME NEW n \in APIServices, NEW o \in Outcomes, Apply(n, o) PROVE Touched
    <2>1. Owner(cur, copy.uid) \in Owners
      BY DEF Owner, Owners, TypeOK, Objects
    <2> QED BY <1>5, <2>1, Zenon DEF Apply
  <1>6. ASSUME NEW s \in Shards, Create(s) \/ Edit(s) \/ Delete(s) \/ ObserveShard(s) \/ Start(s)
        PROVE  UNCHANGED services
    BY <1>6, Zenon DEF Create, Edit, Delete, UserStore, ObserveShard, Start
  <1>7. ASSUME NEW o \in Outcomes,
               RemoveFinalizer(o) \/ AddFinalizer(o) \/ EnsureNamespace(o) \/ InitPhase(o)
                 \/ Provision(o) \/ UpdateHealth(o) \/ WriteStatus(o) \/ SetError(o)
        PROVE  UNCHANGED services
    BY <1>7, Zenon DEF RemoveFinalizer, AddFinalizer, EnsureNamespace, InitPhase, Provision,
                UpdateHealth, WriteStatus, SetError
  <1>8. CASE StartPrune
    BY <1>1, <1>8, Zenon DEF StartPrune
  <1> HIDE DEF Touched
  <1> QED BY <1>1, <1>2, <1>3, <1>4, <1>5, <1>6, <1>7, <1>8, Zenon DEF Next, Progress, Request

LEMMA UnseenStep ==
  ASSUME TypeOK, UnseenNotified, [Next]_vars
  PROVE  UnseenNotified'
  <1>1. CASE UNCHANGED vars
    BY <1>1, Zenon DEF vars, services, UnseenNotified
  <1>2. ASSUME NEW n \in APIServices, ObserveService(n) PROVE UnseenNotified'
    <2>1. /\ svc' = svc /\ \A m \in APIServices : m # n => notify'[m] = notify[m]
          /\ \A m \in APIServices : m # n => (m \in seen' <=> m \in seen)
          /\ svc[n] # None => n \in seen'
      BY <1>2, Zenon DEF ObserveService, TypeOK
    <2> QED BY <2>1, Zenon DEF UnseenNotified
  <1>3. CASE Restart
    BY <1>3, Zenon DEF Restart, UnseenNotified
  <1>4. CASE Next /\ ~Restart /\ \A n \in APIServices : ~ObserveService(n)
    BY <1>4, ServicesNotify, Zenon DEF UnseenNotified
  <1> QED BY <1>1, <1>2, <1>3, <1>4, Zenon

(* While a pass runs, an event for its shard is on its way or has queued   *)
(* the shard.                                                              *)
LEMMA EventKept ==
  ASSUME TypeOK, Next, pc = "deregister", pc' = "deregister", NEW n \in APIServices,
         cur \in notify[n] \/ cur \in queue, cur' = cur
  PROVE  cur' \in notify'[n] \/ cur' \in queue'
  <1>1. ~Restart
    BY Zenon DEF Restart
  <1>2. queue \subseteq queue'
    <2>1. ASSUME NEW s \in Shards, Create(s) \/ Edit(s) \/ Delete(s) PROVE queue' = queue
      BY <2>1, Zenon DEF Create, Edit, Delete, UserStore
    <2>2. ASSUME NEW s \in Shards, ObserveShard(s) \/ Start(s) PROVE queue \subseteq queue'
      BY <2>2, Zenon DEF ObserveShard, Start
    <2>3. ASSUME NEW m \in APIServices, Drift(m) \/ CollectGarbage(m) \/ ObserveService(m)
          PROVE  queue \subseteq queue'
      BY <2>3, Zenon DEF Drift, CollectGarbage, ObserveService
    <2>4. ASSUME NEW o \in Outcomes, NEW m \in APIServices,
                 Deregister(m, o) \/ Apply(m, o) \/ Prune(m, o)
          PROVE  queue \subseteq queue'
      BY <2>4, Zenon DEF Deregister, Apply, Prune, Step, Return
    <2>5. ASSUME NEW o \in Outcomes,
                 RemoveFinalizer(o) \/ AddFinalizer(o) \/ EnsureNamespace(o) \/ InitPhase(o)
                   \/ Provision(o) \/ UpdateHealth(o) \/ WriteStatus(o) \/ SetError(o)
          PROVE  queue \subseteq queue'
      BY <2>5, Zenon DEF RemoveFinalizer, AddFinalizer, EnsureNamespace, InitPhase, Provision,
                  UpdateHealth, WriteStatus, SetError, Step, Return
    <2>6. CASE StartPrune
      BY <2>6, Zenon DEF StartPrune, Step
    <2> QED BY <1>1, <2>1, <2>2, <2>3, <2>4, <2>5, <2>6, Zenon DEF Next, Progress, Request
  <1>3. ASSUME NEW m \in APIServices, ObserveService(m)
        PROVE  (m = n /\ queue' = queue \cup notify[n]) \/ notify'[n] = notify[n]
    BY <1>3, Zenon DEF ObserveService, TypeOK
  <1>4. CASE \A m \in APIServices : ~ObserveService(m)
    BY <1>1, <1>2, <1>4, ServicesNotify, Zenon
  <1> QED BY <1>2, <1>3, <1>4, Zenon

LEMMA DeregisteredStep ==
  ASSUME StructInv, UnseenNotified, DeregisteredSoFar, [Next]_vars
  PROVE  DeregisteredSoFar'
  <1>1. CASE UNCHANGED vars
    BY <1>1, Zenon DEF vars, services, worker, DeregisteredSoFar
  <1>2. CASE Next /\ pc' = "deregister"
    <2>1. \A n \in APIServices : svc'[n] = svc[n] \/ svc'[n] = None
      <3>1. \A n \in APIServices, o \in Outcomes : ~Apply(n, o)
        BY <1>2, Zenon DEF Apply, Step
      <3>2. UNCHANGED svc \/ \E n \in APIServices : svc' = [svc EXCEPT ![n] = None]
        BY <1>2, <3>1, ServiceMoves, Zenon
      <3> QED BY <3>2, Zenon DEF StructInv, TypeOK
    <2>2. TypeOK /\ copy.registered \subseteq APIServices
      BY Zenon DEF StructInv, TypeOK, Objects
    <2>3. CASE pc = "deregister" /\ UNCHANGED <<cur, copy, todo>>
      <3>1. ASSUME NEW n \in copy.registered, cur \in notify[n] \/ cur \in queue
            PROVE  cur' \in notify'[n] \/ cur' \in queue'
        BY <1>2, <2>2, <2>3, <3>1, EventKept, Zenon
      <3> QED BY <2>1, <2>2, <2>3, <3>1, NoneIsNoOwner, Zenon DEF DeregisteredSoFar
    <2>4. ASSUME NEW n \in APIServices, Deregister(n, "ok") PROVE DeregisteredSoFar'
      <3>1. pc = "deregister" /\ UNCHANGED <<cur, copy>> /\ todo' = todo \ {n}
        BY <2>4, Zenon DEF Deregister, Step
      <3>2. ASSUME NEW m \in copy.registered, cur \in notify[m] \/ cur \in queue
            PROVE  cur' \in notify'[m] \/ cur' \in queue'
        BY <1>2, <2>2, <3>1, <3>2, EventKept, Zenon
      <3>3. svc'[n] = None \/ (n \notin seen /\ svc'[n] = svc[n])
        BY <2>1, <2>4, Zenon DEF Deregister, Effective, GetService, SetOwner, StructInv, TypeOK
      <3>4. n \notin seen /\ svc[n] = Owner(cur, copy.uid) => cur \in notify[n]
        <4>1. Owner(cur, copy.uid)[1] = cur
          BY DEF Owner
        <4> QED BY <4>1, NoneIsNoOwner, Zenon DEF UnseenNotified
      <3> QED BY <2>1, <2>2, <3>1, <3>2, <3>3, <3>4, NoneIsNoOwner, Zenon DEF DeregisteredSoFar
    <2>5. CASE todo' = copy'.registered
      BY <2>5, Zenon DEF DeregisteredSoFar
    <2> QED BY <1>2, <2>3, <2>4, <2>5, DeregisterMoves, Zenon DEF StructInv
  <1>3. CASE pc' # "deregister"
    BY <1>3, Zenon DEF DeregisteredSoFar
  <1> QED BY <1>1, <1>2, <1>3, Zenon

(* A write that leaves existence alone.                                    *)
LEMMA StoreKeepsExistence ==
  ASSUME TypeOK, NEW s \in Shards, NEW object, object.exists = shard[cur].exists,
         Store(cur, object) \/ UNCHANGED objects
  PROVE  shard'[s].exists = shard[s].exists
  BY Zenon DEF Store, objects, TypeOK

(* Only the removal of the finalizer ends the existence of an object that  *)
(* has one.                                                                *)
LEMMA HeldObjectsStay ==
  ASSUME StructInv, Next, NEW s \in Shards, shard[s].exists, shard[s].finalizer, ~shard'[s].exists
  PROVE  \E o \in Outcomes : RemoveFinalizer(o)
  <1> SUFFICES ASSUME \A o \in Outcomes : ~RemoveFinalizer(o) PROVE FALSE
    BY Zenon
  <1>1. \A t \in Shards : shard[t] \in Objects
    BY Zenon DEF StructInv, TypeOK
  <1>2. ASSUME NEW t \in Shards, Create(t) \/ Edit(t) \/ Delete(t) PROVE FALSE
    <2>1. CASE Create(t)
      BY <2>1, Zenon DEF Create, UserStore, Store, StructInv, TypeOK
    <2>2. CASE Edit(t)
      <3>1. PICK groups :
              shard' = [shard EXCEPT ![t] = [shard[t] EXCEPT !.apiGroups = groups, !.observed = FALSE]]
        BY <2>2, Zenon DEF Edit, UserStore, Store
      <3>2. shard'[t].exists = shard[t].exists /\ (t # s => shard'[s] = shard[s])
        BY <1>1, <3>1, Zenon DEF StructInv, TypeOK, Objects
      <3> QED BY <3>2, Zenon
    <2>3. CASE Delete(t)
      <3>1. t # s => shard'[s] = shard[s]
        BY <2>3, Zenon DEF Delete, UserStore, Store, StructInv, TypeOK
      <3>2. t = s => shard' = [shard EXCEPT ![s] = [shard[s] EXCEPT !.deleting = TRUE]]
        BY <2>3, Zenon DEF Delete, UserStore, Store
      <3>3. t = s => shard'[s].exists = shard[s].exists
        BY <1>1, <3>2, ZenonT(30) DEF StructInv, TypeOK, Objects
      <3> QED BY <3>1, <3>3, Zenon
    <2> QED BY <1>2, <2>1, <2>2, <2>3, Zenon
  <1>3. ASSUME NEW t \in Shards, ObserveShard(t) \/ Start(t) PROVE FALSE
    BY <1>3, Zenon DEF ObserveShard, Start, objects
  <1>4. ASSUME NEW n \in APIServices, Drift(n) \/ CollectGarbage(n) \/ ObserveService(n)
        PROVE  FALSE
    BY <1>4, Zenon DEF Drift, CollectGarbage, ObserveService, objects
  <1>5. ASSUME NEW o \in Outcomes, NEW n \in APIServices,
               Deregister(n, o) \/ Apply(n, o) \/ Prune(n, o)
        PROVE  FALSE
    BY <1>5, Zenon DEF Deregister, Apply, Prune, objects
  <1>6. ASSUME NEW o \in Outcomes,
               EnsureNamespace(o) \/ Provision(o) \/ UpdateHealth(o) \/ StartPrune \/ Restart
        PROVE  FALSE
    BY <1>6, Zenon DEF EnsureNamespace, Provision, UpdateHealth, StartPrune, Restart, objects
  <1>7. ASSUME NEW o \in Outcomes, AddFinalizer(o) PROVE FALSE
    <2> DEFINE patched == [shard[cur] EXCEPT !.finalizer = TRUE]
    <2>1. patched.exists = shard[cur].exists
      BY Zenon DEF StructInv, TypeOK, Objects
    <2>2. Store(cur, patched) \/ UNCHANGED objects
      BY <1>7, Zenon DEF AddFinalizer
    <2> HIDE DEF patched
    <2> QED BY <2>1, <2>2, StoreKeepsExistence, Zenon DEF StructInv
  <1>8. ASSUME NEW o, NEW object, object.exists = copy.exists, pc # "idle", Write(o, object)
        PROVE  FALSE
    <2>1. CASE UNCHANGED objects
      BY <2>1, Zenon DEF objects
    <2>2. CASE fresh /\ Store(cur, object)
      <3>1. object.exists = shard[cur].exists
        BY <1>8, <2>2, Zenon DEF StructInv, WorkerInv, CopyAgrees
      <3> QED BY <2>2, <3>1, StoreKeepsExistence, Zenon DEF StructInv
    <2> QED BY <1>8, <2>1, <2>2, Zenon DEF Write
  <1>9. ASSUME NEW o \in Outcomes, InitPhase(o) \/ WriteStatus(o) \/ SetError(o) PROVE FALSE
    <2>1. copy \in Objects
      BY Zenon DEF StructInv, TypeOK
    <2>2. PICK object : object.exists = copy.exists /\ Write(o, object)
      <3>1. CASE InitPhase(o)
        <4>1. [copy EXCEPT !.phase = "Provisioning"].exists = copy.exists
          BY <2>1, Zenon DEF Objects
        <4> QED BY <3>1, <4>1, Zenon DEF InitPhase
      <3>2. CASE WriteStatus(o)
        BY <3>2, Zenon DEF WriteStatus
      <3>3. CASE SetError(o)
        <4>1. [copy EXCEPT !.phase = "Error", !.observed = TRUE].exists = copy.exists
          BY <2>1, Zenon DEF Objects
        <4> QED BY <3>3, <4>1, Zenon DEF SetError
      <3> QED BY <1>9, <3>1, <3>2, <3>3, Zenon
    <2>3. pc # "idle"
      BY <1>9, Zenon DEF InitPhase, WriteStatus, SetError
    <2> QED BY <1>8, <2>2, <2>3, Zenon
  <1>10. "ok" \in Outcomes
    BY Zenon DEF Outcomes
  <1> QED BY <1>2, <1>3, <1>4, <1>5, <1>6, <1>7, <1>9, <1>10, Zenon DEF Next, Progress, Request

(* The deletion branch of Reconcile keeps its promise: the object, and     *)
(* with it the status that names what was registered, only goes after      *)
(* every recorded APIService has been deregistered, also when deletions    *)
(* fail, answers are lost and the operator restarts in between; the one    *)
(* exception is an APIService whose event had not reached the informer     *)
(* when the loop looked.                                                   *)
THEOREM RecordedFirst == Spec => RecordedDeregistered
  <1> DEFINE P == \A s \in Shards : shard[s].exists /\ shard[s].finalizer /\ ~shard'[s].exists =>
                    \A n \in shard[s].registered :
                      svc'[n] = Owner(s, shard[s].uid) => s \in notify[n] \/ s \in queue
  <1>1. Init => UnseenNotified /\ DeregisteredSoFar
    BY Zenon DEF Init, UnseenNotified, DeregisteredSoFar
  <1>2. StructInv /\ UnseenNotified /\ DeregisteredSoFar /\ [Next]_vars
          => UnseenNotified' /\ DeregisteredSoFar'
    BY UnseenStep, DeregisteredStep, Zenon DEF StructInv
  <1>3. StructInv /\ DeregisteredSoFar /\ [Next]_vars => [P]_vars
    <2> SUFFICES ASSUME StructInv, DeregisteredSoFar, Next, NEW s \in Shards,
                        shard[s].exists, shard[s].finalizer, ~shard'[s].exists,
                        NEW n \in shard[s].registered, svc'[n] = Owner(s, shard[s].uid)
                 PROVE  s \in notify[n] \/ s \in queue
      BY Zenon
    <2>1. PICK o \in Outcomes : RemoveFinalizer(o)
      BY HeldObjectsStay, Zenon
    <2>2. pc = "deregister" /\ todo = {} /\ svc' = svc
      BY <2>1, Zenon DEF RemoveFinalizer, services
    <2>3. fresh /\ cur = s
      BY <2>1, Zenon DEF RemoveFinalizer, Write, Store, objects, StructInv, TypeOK
    <2>4. copy.registered = shard[s].registered /\ copy.uid = shard[s].uid
      BY <2>2, <2>3, Zenon DEF StructInv, WorkerInv, CopyAgrees
    <2> QED BY <2>2, <2>3, <2>4, Zenon DEF DeregisteredSoFar
  <1>4. Spec => []DeregisteredSoFar
    BY <1>1, <1>2, StructCorrect, PTL DEF Spec
  <1> QED BY <1>3, <1>4, StructCorrect, PTL DEF Spec, RecordedDeregistered

-----------------------------------------------------------------------------
(* No wake-up of the controller is lost.  The proof of SettledWhenQuiet    *)
(* rests on StructInv, proved invariant above.                             *)

(* A deletion the running pass did not see is still to be noticed.         *)
DeletionNoticed ==
  pc \in Working \cup {"addFinalizer"} /\ shard[cur].deleting =>
    Len(stream[cur]) > 1 \/ cur \in queue

(* What the pass has applied is registered to the shard, or the change is  *)
(* on its way to the queue.                                                *)
AppliedHolds ==
  pc \in {"apply", "prune", "writeStatus"} =>
    \A n \in copy.apiGroups :
      \/ pc = "apply" /\ n \in todo
      \/ svc[n] = Owner(cur, copy.uid)
      \/ cur \in notify[n] \/ cur \in queue

(* What the final status write is about to record.                         *)
StatusToWrite ==
  pc = "writeStatus" => copy.registered = copy.apiGroups /\ copy.observed

WakeupInv == DeletionNoticed /\ AppliedHolds /\ StatusToWrite /\ SettledWhenQuiet

-----------------------------------------------------------------------------
(* A change of an APIService notifies whoever owned it, and pending        *)
(* notifications stay.                                                     *)
ServicesMonotone ==
  \A t \in Shards, m \in APIServices :
    /\ t \in notify[m] => t \in notify'[m]
    /\ \A u : svc[m] = Owner(t, u) => svc'[m] = Owner(t, u) \/ t \in notify'[m]

LEMMA SetOwnerMonotone ==
  ASSUME TypeOK, NEW n \in APIServices, NEW o, SetOwner(n, o)
  PROVE  ServicesMonotone
  <1> SUFFICES ASSUME NEW t \in Shards, NEW m \in APIServices
               PROVE  /\ t \in notify[m] => t \in notify'[m]
                      /\ \A u : svc[m] = Owner(t, u) => svc'[m] = Owner(t, u) \/ t \in notify'[m]
    BY Zenon DEF ServicesMonotone
  <1>1. CASE o = svc[n]
    BY <1>1, Zenon DEF SetOwner, TypeOK
  <1>2. CASE o # svc[n] /\ m = n
    <2>1. notify'[n] = notify[n] \cup OwnerShards(svc[n]) \cup OwnerShards(o)
      BY <1>2, Zenon DEF SetOwner, TypeOK
    <2>2. ASSUME NEW u, svc[n] = Owner(t, u) PROVE t \in OwnerShards(svc[n])
      <3>1. svc[n] # None
        BY <2>2, NoneIsNoOwner, Zenon
      <3> QED BY <2>2, <3>1 DEF OwnerShards, Owner
    <2> QED BY <1>2, <2>1, <2>2, Zenon
  <1>3. CASE o # svc[n] /\ m # n
    BY <1>3, Zenon DEF SetOwner, TypeOK
  <1> QED BY <1>1, <1>2, <1>3, Zenon

LEMMA ServicesUnchanged == ASSUME UNCHANGED services PROVE ServicesMonotone
  BY Zenon DEF ServicesMonotone, services

(* A step of the worker leaves every other shard pending or settled.       *)
LEMMA WorkerQuiet ==
  ASSUME TypeOK, SettledWhenQuiet, ServicesMonotone, queue \subseteq queue', cur' = cur,
         \A t \in Shards : t # cur => shard'[t] = shard[t] /\ stream'[t] = stream[t],
         (Pending(cur) \/ Settled(cur))'
  PROVE  SettledWhenQuiet'
  <1> SUFFICES ASSUME NEW t \in Shards, t # cur PROVE (Pending(t) \/ Settled(t))'
    BY Zenon DEF SettledWhenQuiet
  <1>1. shard'[t] = shard[t] /\ stream'[t] = stream[t] /\ shard[t].apiGroups \subseteq APIServices
    BY Zenon DEF TypeOK, Objects
  <1>2. CASE Pending(t)
    BY <1>1, <1>2, Zenon DEF Pending, ServicesMonotone
  <1>3. CASE ~Pending(t)
    <2>1. Settled(t)
      BY <1>3, Zenon DEF SettledWhenQuiet
    <2> QED BY <1>1, <2>1 DEF Pending, Settled, ServicesMonotone
  <1> QED BY <1>2, <1>3, Zenon

(* A step outside the worker that leaves the objects alone.                *)
LEMMA EnvironmentQuiet ==
  ASSUME TypeOK, SettledWhenQuiet, ServicesMonotone, queue \subseteq queue',
         UNCHANGED <<objects, pc, cur>>
  PROVE  SettledWhenQuiet'
  <1> SUFFICES ASSUME NEW t \in Shards PROVE (Pending(t) \/ Settled(t))'
    BY Zenon DEF SettledWhenQuiet
  <1>1. shard' = shard /\ stream' = stream /\ shard[t].apiGroups \subseteq APIServices
    BY Zenon DEF TypeOK, Objects, objects
  <1>2. CASE Pending(t)
    BY <1>1, <1>2, Zenon DEF Pending, ServicesMonotone
  <1>3. CASE ~Pending(t)
    <2>1. Settled(t)
      BY <1>3, Zenon DEF SettledWhenQuiet
    <2> QED BY <1>1, <2>1, Zenon DEF Pending, Settled, ServicesMonotone
  <1> QED BY <1>2, <1>3, Zenon

(* A step of the pass that keeps the objects and the spec in the copy.     *)
LEMMA NoticedKept ==
  ASSUME DeletionNoticed, UNCHANGED <<objects, cur>>, queue \subseteq queue',
         pc \in Working \cup {"addFinalizer"} \/ pc' \notin Working \cup {"addFinalizer"}
  PROVE  DeletionNoticed'
  BY Zenon DEF DeletionNoticed, objects

LEMMA AppliedKept ==
  ASSUME TypeOK, AppliedHolds, ServicesMonotone, queue \subseteq queue', cur' = cur,
         copy'.apiGroups = copy.apiGroups, copy'.uid = copy.uid,
         pc' \in {"apply", "prune", "writeStatus"} => pc \in {"apply", "prune", "writeStatus"},
         pc = "apply" => todo = {} \/ (pc' = "apply" /\ todo' = todo)
  PROVE  AppliedHolds'
  <1> SUFFICES ASSUME pc' \in {"apply", "prune", "writeStatus"}, NEW n \in copy.apiGroups
               PROVE  \/ pc' = "apply" /\ n \in todo'
                      \/ svc'[n] = Owner(cur, copy.uid)
                      \/ cur \in notify'[n] \/ cur \in queue'
    BY Zenon DEF AppliedHolds
  <1>1. n \in APIServices /\ cur \in Shards
    BY Zenon DEF TypeOK, Objects
  <1> QED BY <1>1, Zenon DEF AppliedHolds, ServicesMonotone

LEMMA WakeupInit == Init => WakeupInv
  <1> SUFFICES ASSUME Init PROVE WakeupInv
    BY Zenon
  <1>1. DeletionNoticed /\ AppliedHolds /\ StatusToWrite
    BY Zenon DEF Init, DeletionNoticed, AppliedHolds, StatusToWrite, Working
  <1>2. SettledWhenQuiet
    BY Zenon DEF Init, SettledWhenQuiet, Settled, Absent
  <1> QED BY <1>1, <1>2, Zenon DEF WakeupInv

(* A user's write changes nothing or leaves a version to be delivered.     *)
LEMMA WakeupUsers ==
  ASSUME StructInv, WakeupInv, NEW s \in Shards, Create(s) \/ Edit(s) \/ Delete(s)
  PROVE  WakeupInv'
  <1>1. PICK o : UserStore(s, o)
    BY Zenon DEF Create, Edit, Delete
  <1>2. /\ UNCHANGED <<services, queue, pc, cur, copy, todo>>
        /\ \A t \in Shards : t # s => stream'[t] = stream[t] /\ shard'[t] = shard[t]
        /\ (shard'[s] = shard[s] /\ stream'[s] = stream[s]) \/ Len(stream'[s]) > 1
    <2>1. stream[s] \in Seq(Objects) /\ stream[s] # <<>>
      BY Zenon DEF StructInv, TypeOK
    <2>2. Len(Append(stream[s], o)) > 1
      BY <2>1
    <2> QED BY <1>1, <2>2, Zenon DEF UserStore, Store, StructInv, TypeOK
  <1>3. DeletionNoticed'
    BY <1>2, Zenon DEF WakeupInv, DeletionNoticed, StructInv, TypeOK
  <1>4. AppliedHolds' /\ StatusToWrite'
    BY <1>2, Zenon DEF WakeupInv, AppliedHolds, StatusToWrite, services
  <1>5. SettledWhenQuiet'
    <2> SUFFICES ASSUME NEW t \in Shards PROVE (Pending(t) \/ Settled(t))'
      BY Zenon DEF SettledWhenQuiet
    <2>1. CASE Len(stream'[t]) > 1
      BY <2>1, Zenon DEF Pending
    <2>2. CASE shard'[t] = shard[t] /\ stream'[t] = stream[t]
      BY <1>2, <2>2 DEF WakeupInv, SettledWhenQuiet, Pending, Settled, services
    <2> QED BY <1>2, <2>1, <2>2, Zenon
  <1> QED BY <1>3, <1>4, <1>5, Zenon DEF WakeupInv

LEMMA WakeupObserve ==
  ASSUME StructInv, WakeupInv, NEW s \in Shards, ObserveShard(s)
  PROVE  WakeupInv'
  <1>1. /\ UNCHANGED <<shard, svc, notify, pc, cur, copy, todo>> /\ queue' = queue \cup {s}
        /\ \A t \in Shards : t # s => stream'[t] = stream[t]
    BY Zenon DEF ObserveShard, StructInv, TypeOK, services, worker
  <1>2. DeletionNoticed'
    BY <1>1, Zenon DEF WakeupInv, DeletionNoticed, StructInv, TypeOK
  <1>3. AppliedHolds' /\ StatusToWrite'
    BY <1>1, Zenon DEF WakeupInv, AppliedHolds, StatusToWrite
  <1>4. SettledWhenQuiet'
    BY <1>1, Zenon DEF WakeupInv, SettledWhenQuiet, Pending, Settled
  <1> QED BY <1>2, <1>3, <1>4, Zenon DEF WakeupInv

LEMMA WakeupServices ==
  ASSUME StructInv, WakeupInv, NEW n \in APIServices,
         Drift(n) \/ CollectGarbage(n) \/ ObserveService(n)
  PROVE  WakeupInv'
  <1>1. CASE Drift(n) \/ CollectGarbage(n)
    <2>1. SetOwner(n, None) /\ UNCHANGED <<objects, queue, pc, cur, copy, todo>>
      BY <1>1, Zenon DEF Drift, CollectGarbage, worker
    <2>2. ServicesMonotone
      BY <2>1, SetOwnerMonotone, Zenon DEF StructInv
    <2>3. DeletionNoticed' /\ StatusToWrite'
      BY <2>1, Zenon DEF WakeupInv, DeletionNoticed, StatusToWrite, objects
    <2>4. AppliedHolds'
      <3> SUFFICES ASSUME pc \in {"apply", "prune", "writeStatus"}, NEW m \in copy.apiGroups
                   PROVE  \/ pc = "apply" /\ m \in todo
                          \/ svc'[m] = Owner(cur, copy.uid)
                          \/ cur \in notify'[m] \/ cur \in queue
        BY <2>1, Zenon DEF AppliedHolds
      <3>1. m \in APIServices /\ cur \in Shards
        BY Zenon DEF StructInv, TypeOK, Objects
      <3> QED BY <2>2, <3>1, Zenon DEF WakeupInv, AppliedHolds, ServicesMonotone
    <2>5. SettledWhenQuiet'
      BY <2>1, <2>2, EnvironmentQuiet, Zenon DEF WakeupInv, StructInv
    <2> QED BY <2>3, <2>4, <2>5, Zenon DEF WakeupInv
  <1>2. CASE ObserveService(n)
    <2>1. /\ UNCHANGED <<svc, objects, pc, cur, copy, todo>> /\ queue' = queue \cup notify[n]
          /\ \A m \in APIServices : m # n => notify'[m] = notify[m]
      BY <1>2, Zenon DEF ObserveService, worker, StructInv, TypeOK
    <2>2. DeletionNoticed' /\ StatusToWrite'
      BY <2>1, Zenon DEF WakeupInv, DeletionNoticed, StatusToWrite, objects
    <2>3. AppliedHolds'
      BY <2>1, Zenon DEF WakeupInv, AppliedHolds, StructInv, TypeOK, Objects
    <2>4. SettledWhenQuiet'
      BY <2>1, Zenon DEF WakeupInv, SettledWhenQuiet, Pending, Settled, objects
    <2> QED BY <2>2, <2>3, <2>4, Zenon DEF WakeupInv
  <1> QED BY <1>1, <1>2, Zenon

(* The early returns of Reconcile: the object is gone, or a later version  *)
(* is still to be delivered.                                               *)
LEMMA WakeupStart ==
  ASSUME StructInv, WakeupInv, NEW s \in Shards, Start(s)
  PROVE  WakeupInv'
  <1> DEFINE cached == Head(stream[s])
  <1>1. /\ cached \in Versions(s) /\ Len(stream[s]) \in Nat \ {0}
        /\ Len(stream[s]) = 1 => cached = shard[s]
    BY HeadAndLastAreVersions, Zenon DEF StructInv, ObjectInv
  <1>2. /\ pc = "idle" /\ cur' = s /\ queue' = queue \ {s} /\ UNCHANGED <<objects, services>>
        /\ \/ ~cached.exists \/ (cached.deleting /\ ~cached.finalizer)
           \/ pc' = "deregister"
           \/ pc' \in {"namespace", "addFinalizer"} /\ ~cached.deleting
        /\ pc' \in {"idle", "deregister", "namespace", "addFinalizer"}
        /\ pc' \in {"namespace", "addFinalizer"} => ~cached.deleting
    BY Zenon DEF Start
  <1>3. cached.deleting => cached.finalizer
    BY <1>1, Zenon DEF StructInv, ObjectInv, DeletingIsHeld
  <1> HIDE DEF cached
  <1>4. /\ cached = shard[s] \/ Len(stream[s]) > 1
        /\ shard' = shard /\ stream' = stream
    <2>1. CASE Len(stream[s]) = 1
      BY <1>1, <1>2, <2>1, Zenon DEF objects
    <2>2. CASE Len(stream[s]) # 1
      <3>1. Len(stream[s]) > 1
        <4>1. \A k \in Nat \ {0} : k # 1 => k > 1
          OBVIOUS
        <4> QED BY <1>1, <2>2, <4>1, Zenon
      <3> QED BY <1>2, <3>1, Zenon DEF objects
    <2> QED BY <2>1, <2>2, Zenon
  <1>5. DeletionNoticed'
    BY <1>2, <1>4, Zenon DEF DeletionNoticed, Working
  <1>6. AppliedHolds' /\ StatusToWrite'
    BY <1>2, Zenon DEF AppliedHolds, StatusToWrite
  <1>7. (Pending(s) \/ Settled(s))'
    BY <1>2, <1>3, <1>4, Zenon DEF Pending, Settled
  <1>8. ASSUME NEW t \in Shards, t # s PROVE (Pending(t) \/ Settled(t))'
    BY <1>2, <1>8, Zenon DEF WakeupInv, SettledWhenQuiet, Pending, Settled, objects, services
  <1> QED BY <1>5, <1>6, <1>7, <1>8, Zenon DEF WakeupInv, SettledWhenQuiet

(* A write of the worker touches the shard it reconciles, and no other.    *)
LEMMA WriteLocal ==
  ASSUME TypeOK, NEW object, Store(cur, object) \/ UNCHANGED objects
  PROVE  \A t \in Shards : t # cur => shard'[t] = shard[t] /\ stream'[t] = stream[t]
  BY Zenon DEF TypeOK, Store, objects

(* Reconcile returns and the shard is queued again, pending or settled.    *)
LEMMA ReturnWakes ==
  ASSUME StructInv, WakeupInv, ServicesMonotone, NEW r \in BOOLEAN, Return(r),
         \A t \in Shards : t # cur => shard'[t] = shard[t] /\ stream'[t] = stream[t],
         r \/ (Pending(cur) \/ Settled(cur))'
  PROVE  WakeupInv'
  <1>1. pc' = "idle" /\ cur' = cur /\ queue \subseteq queue' /\ (r => cur \in queue')
    BY Zenon DEF Return
  <1>2. DeletionNoticed' /\ AppliedHolds' /\ StatusToWrite'
    BY <1>1, Zenon DEF DeletionNoticed, AppliedHolds, StatusToWrite, Working
  <1>3. (Pending(cur) \/ Settled(cur))'
    BY <1>1, Zenon DEF Pending
  <1>4. SettledWhenQuiet'
    BY <1>1, <1>3, WorkerQuiet, Zenon DEF StructInv, WakeupInv
  <1> QED BY <1>2, <1>4, Zenon DEF WakeupInv

(* Reconcile goes on: its shard stays pending.                             *)
LEMMA StepWakes ==
  ASSUME StructInv, WakeupInv, ServicesMonotone, pc' # "idle", UNCHANGED <<cur, queue>>,
         \A t \in Shards : t # cur => shard'[t] = shard[t] /\ stream'[t] = stream[t]
  PROVE  SettledWhenQuiet'
  <1>1. (Pending(cur) \/ Settled(cur))'
    BY Zenon DEF Pending
  <1> QED BY <1>1, WorkerQuiet, Zenon DEF StructInv, WakeupInv

LEMMA WakeupDeregister ==
  ASSUME StructInv, WakeupInv, NEW n \in APIServices, NEW o \in Outcomes, Deregister(n, o)
  PROVE  WakeupInv'
  <1>1. ServicesMonotone
    BY SetOwnerMonotone, ServicesUnchanged, Zenon DEF Deregister, StructInv
  <1>2. \A t \in Shards : t # cur => shard'[t] = shard[t] /\ stream'[t] = stream[t]
    BY Zenon DEF Deregister, objects
  <1>3. CASE o = "ok"
    <2>1. pc' = "deregister" /\ UNCHANGED <<cur, queue>>
      BY <1>3, Zenon DEF Deregister, Step
    <2>2. DeletionNoticed' /\ AppliedHolds' /\ StatusToWrite'
      BY <2>1, Zenon DEF DeletionNoticed, AppliedHolds, StatusToWrite, Working
    <2> QED BY <1>1, <1>2, <2>1, <2>2, StepWakes, Zenon DEF WakeupInv
  <1>4. CASE o # "ok"
    BY <1>1, <1>2, <1>4, ReturnWakes, Zenon DEF Deregister
  <1> QED BY <1>3, <1>4, Zenon

LEMMA WakeupRemoveFinalizer ==
  ASSUME StructInv, WakeupInv, NEW o \in Outcomes, RemoveFinalizer(o)
  PROVE  WakeupInv'
  <1>1. ServicesMonotone
    BY ServicesUnchanged, Zenon DEF RemoveFinalizer
  <1>2. \A t \in Shards : t # cur => shard'[t] = shard[t] /\ stream'[t] = stream[t]
    BY WriteLocal, Zenon DEF RemoveFinalizer, Write, StructInv
  <1>3. Return(~Written(o)) /\ (~Written(o)) \in BOOLEAN
    BY Zenon DEF RemoveFinalizer, Written, StructInv, TypeOK
  <1>4. Written(o) => Settled(cur)'
    <2> SUFFICES ASSUME Written(o) PROVE Settled(cur)'
      BY Zenon
    <2>1. cur \in Shards /\ cur' = cur /\ shard' = [shard EXCEPT ![cur] = Absent(copy.uid)]
      BY Zenon DEF RemoveFinalizer, Written, Write, Effective, Store, Return, StructInv, TypeOK
    <2>2. ~shard'[cur].exists
      BY <2>1, Zenon DEF StructInv, TypeOK, Absent
    <2> QED BY <2>1, <2>2, Zenon DEF Settled
  <1> QED BY <1>1, <1>2, <1>3, <1>4, ReturnWakes, Zenon

LEMMA WakeupAddFinalizer ==
  ASSUME StructInv, WakeupInv, NEW o \in Outcomes, AddFinalizer(o)
  PROVE  WakeupInv'
  <1>1. ServicesMonotone
    BY ServicesUnchanged, Zenon DEF AddFinalizer
  <1>2. \A t \in Shards : t # cur => shard'[t] = shard[t] /\ stream'[t] = stream[t]
    BY WriteLocal, Zenon DEF AddFinalizer, StructInv
  <1>3. CASE shard[cur].exists /\ o = "ok"
    <2> DEFINE patched == [shard[cur] EXCEPT !.finalizer = TRUE]
    <2>1. /\ pc = "addFinalizer" /\ pc' = "namespace" /\ UNCHANGED <<cur, queue>>
          /\ Store(cur, patched) /\ cur \in Shards
      BY <1>3, Zenon DEF AddFinalizer, Step, Effective, StructInv, TypeOK
    <2>2. patched \in Objects /\ patched.deleting = shard[cur].deleting
      BY <2>1, Zenon DEF StructInv, TypeOK, Objects
    <2> HIDE DEF patched
    <2>3. shard'[cur] = patched /\ (Len(stream[cur]) > 1 => Len(stream'[cur]) > 1)
      BY <2>1, <2>2, StoreStream DEF StructInv, ObjectInv, TypeOK
    <2>4. DeletionNoticed'
      BY <2>1, <2>2, <2>3, Zenon DEF WakeupInv, DeletionNoticed
    <2>5. AppliedHolds' /\ StatusToWrite'
      BY <2>1, Zenon DEF AppliedHolds, StatusToWrite
    <2> QED BY <1>1, <1>2, <2>1, <2>4, <2>5, StepWakes, Zenon DEF WakeupInv
  <1>4. CASE ~(shard[cur].exists /\ o = "ok")
    BY <1>1, <1>2, <1>4, ReturnWakes, Zenon DEF AddFinalizer
  <1> QED BY <1>3, <1>4, Zenon

LEMMA WakeupProvision ==
  ASSUME StructInv, WakeupInv, NEW o \in Outcomes,
         EnsureNamespace(o) \/ Provision(o) \/ StartPrune
  PROVE  WakeupInv'
  <1>1. /\ ServicesMonotone /\ UNCHANGED <<objects, cur, queue, copy>>
        /\ pc \in Working /\ pc' # "idle" /\ pc' # "writeStatus"
    BY ServicesUnchanged, Zenon DEF EnsureNamespace, Provision, StartPrune, Step, Working
  <1>2. DeletionNoticed' /\ StatusToWrite'
    BY <1>1, NoticedKept, Zenon DEF WakeupInv, StatusToWrite
  <1>3. SettledWhenQuiet'
    BY <1>1, StepWakes, Zenon DEF objects
  <1>4. AppliedHolds'
    <2>1. CASE EnsureNamespace(o)
      BY <2>1, Zenon DEF EnsureNamespace, Step, AppliedHolds
    <2>2. CASE Provision(o)
      BY <2>2, Zenon DEF Provision, Step, AppliedHolds
    <2>3. CASE StartPrune
      BY <1>1, <2>3, AppliedKept, Zenon DEF StartPrune, Step, WakeupInv, StructInv
    <2> QED BY <2>1, <2>2, <2>3, Zenon
  <1> QED BY <1>2, <1>3, <1>4, Zenon DEF WakeupInv

LEMMA WakeupApply ==
  ASSUME StructInv, WakeupInv, NEW n \in APIServices, NEW o \in Outcomes, Apply(n, o)
  PROVE  WakeupInv'
  <1>1. /\ UNCHANGED <<objects, cur, queue, copy>>
        /\ pc \in Working /\ pc' # "idle" /\ pc' # "writeStatus"
    BY Zenon DEF Apply, Step, Working
  <1>2. ServicesMonotone
    BY SetOwnerMonotone, ServicesUnchanged, Zenon DEF Apply, StructInv
  <1>3. DeletionNoticed' /\ StatusToWrite'
    BY <1>1, NoticedKept, Zenon DEF WakeupInv, StatusToWrite
  <1>4. SettledWhenQuiet'
    BY <1>1, <1>2, StepWakes, Zenon DEF objects
  <1>5. AppliedHolds'
    <2>1. CASE o = "ok"
      <3>1. /\ pc = "apply" /\ pc' = "apply" /\ todo' = todo \ {n}
            /\ svc' = [svc EXCEPT ![n] = Owner(cur, copy.uid)]
        BY <2>1, Zenon DEF Apply, Step, Effective, SetOwner
      <3>2. svc'[n] = Owner(cur, copy.uid)
        BY <3>1, Zenon DEF StructInv, TypeOK
      <3>3. ASSUME NEW m \in copy.apiGroups
            PROVE  \/ m \in todo' \/ svc'[m] = Owner(cur, copy.uid)
                   \/ cur \in notify'[m] \/ cur \in queue'
        <4>1. m \in APIServices /\ cur \in Shards
          BY Zenon DEF StructInv, TypeOK, Objects
        <4>2. \/ m \in todo \/ svc[m] = Owner(cur, copy.uid)
              \/ cur \in notify[m] \/ cur \in queue
          BY <3>1, Zenon DEF WakeupInv, AppliedHolds
        <4> QED BY <1>1, <1>2, <3>1, <3>2, <4>1, <4>2, Zenon DEF ServicesMonotone
      <3> QED BY <1>1, <3>1, <3>3, Zenon DEF AppliedHolds
    <2>2. CASE o # "ok"
      BY <2>2, Zenon DEF Apply, Step, AppliedHolds
    <2> QED BY <2>1, <2>2, Zenon
  <1> QED BY <1>3, <1>4, <1>5, Zenon DEF WakeupInv

LEMMA WakeupPrune ==
  ASSUME StructInv, WakeupInv, NEW n \in APIServices, NEW o \in Outcomes, Prune(n, o)
  PROVE  WakeupInv'
  <1>1. /\ UNCHANGED <<objects, cur, queue, copy>>
        /\ pc = "prune" /\ pc' \in {"prune", "setError"}
    BY Zenon DEF Prune, Step
  <1>2. ServicesMonotone
    BY SetOwnerMonotone, ServicesUnchanged, Zenon DEF Prune, StructInv
  <1>3. DeletionNoticed' /\ StatusToWrite'
    BY <1>1, NoticedKept, Zenon DEF WakeupInv, StatusToWrite, Working
  <1>4. SettledWhenQuiet'
    BY <1>1, <1>2, StepWakes, Zenon DEF objects
  <1>5. AppliedHolds'
    BY <1>1, <1>2, AppliedKept, Zenon DEF WakeupInv, StructInv
  <1> QED BY <1>3, <1>4, <1>5, Zenon DEF WakeupInv

LEMMA WakeupInitPhase ==
  ASSUME StructInv, WakeupInv, NEW o \in Outcomes, InitPhase(o)
  PROVE  WakeupInv'
  <1> DEFINE object == [copy EXCEPT !.phase = "Provisioning"]
  <1>1. ServicesMonotone
    BY ServicesUnchanged, Zenon DEF InitPhase
  <1>2. \A t \in Shards : t # cur => shard'[t] = shard[t] /\ stream'[t] = stream[t]
    BY WriteLocal, Zenon DEF InitPhase, Write, StructInv
  <1>3. CASE Written(o)
    <2>1. /\ pc = "initPhase" /\ pc' = "provision" /\ UNCHANGED <<cur, queue>> /\ fresh
          /\ Store(cur, object) /\ cur \in Shards
      BY <1>3, Zenon DEF InitPhase, Step, Written, Write, Effective, StructInv, TypeOK
    <2>2. object \in Objects /\ object.deleting = shard[cur].deleting
      <3>1. copy.deleting = shard[cur].deleting /\ copy \in Objects
        BY <2>1, Zenon DEF StructInv, TypeOK, WorkerInv, CopyAgrees
      <3> QED BY <3>1, Zenon DEF Objects, Phases
    <2> HIDE DEF object
    <2>3. shard'[cur] = object /\ (Len(stream[cur]) > 1 => Len(stream'[cur]) > 1)
      BY <2>1, <2>2, StoreStream DEF StructInv, ObjectInv, TypeOK
    <2>4. DeletionNoticed'
      BY <2>1, <2>2, <2>3, Zenon DEF WakeupInv, DeletionNoticed, Working
    <2>5. AppliedHolds' /\ StatusToWrite'
      BY <2>1, Zenon DEF AppliedHolds, StatusToWrite
    <2> QED BY <1>1, <1>2, <2>1, <2>4, <2>5, StepWakes, Zenon DEF WakeupInv
  <1>4. CASE ~Written(o)
    BY <1>1, <1>2, <1>4, ReturnWakes, Zenon DEF InitPhase
  <1> QED BY <1>3, <1>4, Zenon

LEMMA WakeupUpdateHealth ==
  ASSUME StructInv, WakeupInv, NEW o \in Outcomes, UpdateHealth(o)
  PROVE  WakeupInv'
  <1>1. ServicesMonotone /\ UNCHANGED objects
    BY ServicesUnchanged, Zenon DEF UpdateHealth
  <1>2. CASE o = "ok"
    <2>1. pc = "prune" /\ pc' = "writeStatus" /\ UNCHANGED <<cur, queue>>
      BY <1>2, Zenon DEF UpdateHealth, Step
    <2>2. PICK phase \in {"Provisioning", "Ready"} :
            copy' = [copy EXCEPT !.registered = copy.apiGroups, !.phase = phase,
                                 !.observed = TRUE]
      BY <1>2, Zenon DEF UpdateHealth
    <2>3. /\ copy'.apiGroups = copy.apiGroups /\ copy'.uid = copy.uid
          /\ copy'.registered = copy.apiGroups /\ copy'.observed
      BY <2>2, Zenon DEF StructInv, TypeOK, Objects
    <2>4. DeletionNoticed' /\ StatusToWrite'
      BY <1>1, <2>1, <2>3, NoticedKept, Zenon DEF WakeupInv, StatusToWrite, Working
    <2>5. AppliedHolds'
      BY <1>1, <2>1, <2>3, AppliedKept, Zenon DEF WakeupInv, StructInv
    <2>6. SettledWhenQuiet'
      BY <1>1, <2>1, StepWakes, Zenon DEF objects
    <2> QED BY <2>4, <2>5, <2>6, Zenon DEF WakeupInv
  <1>3. CASE o # "ok"
    BY <1>1, <1>3, ReturnWakes, Zenon DEF UpdateHealth, objects
  <1> QED BY <1>2, <1>3, Zenon

(* The write that ends a pass.  Only a pass that wrote Ready is not queued *)
(* again; its write makes a new version, or changed nothing because the    *)
(* object already said what the pass found.                                *)
LEMMA WakeupWriteStatus ==
  ASSUME StructInv, WakeupInv, NEW o \in Outcomes, WriteStatus(o)
  PROVE  WakeupInv'
  <1>1. ServicesMonotone /\ UNCHANGED services
    BY ServicesUnchanged, Zenon DEF WriteStatus
  <1>2. \A t \in Shards : t # cur => shard'[t] = shard[t] /\ stream'[t] = stream[t]
    BY WriteLocal, Zenon DEF WriteStatus, Write, StructInv
  <1> DEFINE again == ~Written(o) \/ copy.phase # "Ready"
  <1>3. /\ Return(again) /\ again \in BOOLEAN /\ pc = "writeStatus" /\ cur' = cur
        /\ cur \in Shards /\ copy \in Objects /\ queue \subseteq queue'
    BY Zenon DEF WriteStatus, Return, StructInv, TypeOK
  <1>4. ASSUME ~again PROVE (Pending(cur) \/ Settled(cur))'
    <2>1. Store(cur, copy) /\ fresh /\ copy.phase = "Ready"
      BY <1>4, Zenon DEF WriteStatus, Write, Written, Effective
    <2>2. CASE copy # shard[cur]
      <3>1. Len(stream[cur]) \in Nat \ {0} /\ Len(stream'[cur]) = Len(stream[cur]) + 1
        BY <1>3, <2>1, <2>2, StoreStream, HeadAndLastAreVersions, Zenon DEF StructInv, ObjectInv
      <3>2. Len(stream'[cur]) > 1
        <4>1. \A k \in Nat \ {0} : k + 1 > 1
          OBVIOUS
        <4> QED BY <3>1, <4>1, Zenon
      <3> QED BY <1>3, <3>2, Zenon DEF Pending
    <2>3. CASE copy = shard[cur]
      <3>1. shard' = shard /\ stream' = stream
        BY <1>3, <2>1, <2>3, Zenon DEF Store, StructInv, TypeOK
      <3>2. shard[cur].deleting => Pending(cur)'
        BY <1>3, <3>1, Zenon DEF WakeupInv, DeletionNoticed, Working, Pending
      <3>3. /\ copy.registered = copy.apiGroups /\ copy.observed
            /\ \A n \in copy.apiGroups :
                 svc[n] = Owner(cur, copy.uid) \/ cur \in notify[n] \/ cur \in queue
        BY <1>3, Zenon DEF WakeupInv, AppliedHolds, StatusToWrite
      <3>4. ASSUME NEW n \in copy.apiGroups
            PROVE  svc'[n] = Owner(cur, copy.uid) \/ Pending(cur)'
        <4>1. n \in APIServices
          BY <1>3, Zenon DEF Objects
        <4> QED BY <1>1, <1>3, <3>3, <4>1, Zenon DEF Pending, services
      <3> QED BY <1>3, <2>1, <2>3, <3>1, <3>2, <3>3, <3>4, Zenon DEF Settled
    <2> QED BY <2>2, <2>3, Zenon
  <1> HIDE DEF again
  <1> QED BY <1>1, <1>2, <1>3, <1>4, ReturnWakes, Zenon

LEMMA WakeupSetError ==
  ASSUME StructInv, WakeupInv, NEW o \in Outcomes, SetError(o)
  PROVE  WakeupInv'
  <1>1. ServicesMonotone
    BY ServicesUnchanged, Zenon DEF SetError
  <1>2. \A t \in Shards : t # cur => shard'[t] = shard[t] /\ stream'[t] = stream[t]
    BY WriteLocal, Zenon DEF SetError, Write, StructInv
  <1> QED BY <1>1, <1>2, ReturnWakes, Zenon DEF SetError

LEMMA WakeupRestart == ASSUME StructInv, WakeupInv, Restart PROVE WakeupInv'
  <1>1. DeletionNoticed' /\ AppliedHolds' /\ StatusToWrite'
    BY Zenon DEF Restart, DeletionNoticed, AppliedHolds, StatusToWrite, Working
  <1>2. SettledWhenQuiet'
    BY Zenon DEF Restart, SettledWhenQuiet, Pending, Settled
  <1> QED BY <1>1, <1>2, Zenon DEF WakeupInv

LEMMA WakeupStutter == ASSUME WakeupInv, UNCHANGED vars PROVE WakeupInv'
  BY Zenon DEF vars, objects, services, worker, WakeupInv, DeletionNoticed, AppliedHolds,
         StatusToWrite, SettledWhenQuiet, Pending, Settled

LEMMA WakeupStep == StructInv /\ WakeupInv /\ [Next]_vars => WakeupInv'
  <1> SUFFICES ASSUME StructInv, WakeupInv, [Next]_vars PROVE WakeupInv'
    BY Zenon
  <1>1. ASSUME NEW s \in Shards,
               Create(s) \/ Edit(s) \/ Delete(s) \/ ObserveShard(s) \/ Start(s)
        PROVE  WakeupInv'
    BY <1>1, WakeupUsers, WakeupObserve, WakeupStart, Zenon
  <1>2. ASSUME NEW n \in APIServices, Drift(n) \/ CollectGarbage(n) \/ ObserveService(n)
        PROVE  WakeupInv'
    BY <1>2, WakeupServices, Zenon
  <1>3. ASSUME NEW o \in Outcomes, NEW n \in APIServices,
               Deregister(n, o) \/ Apply(n, o) \/ Prune(n, o)
        PROVE  WakeupInv'
    BY <1>3, WakeupDeregister, WakeupApply, WakeupPrune, Zenon
  <1>4. ASSUME NEW o \in Outcomes,
               RemoveFinalizer(o) \/ AddFinalizer(o) \/ EnsureNamespace(o) \/ Provision(o)
                 \/ StartPrune
        PROVE  WakeupInv'
    BY <1>4, WakeupRemoveFinalizer, WakeupAddFinalizer, WakeupProvision, Zenon
  <1>5. ASSUME NEW o \in Outcomes,
               InitPhase(o) \/ UpdateHealth(o) \/ WriteStatus(o) \/ SetError(o)
        PROVE  WakeupInv'
    BY <1>5, WakeupInitPhase, WakeupUpdateHealth, WakeupWriteStatus, WakeupSetError, Zenon
  <1>6. CASE Restart
    BY <1>6, WakeupRestart, Zenon
  <1>7. CASE UNCHANGED vars
    BY <1>7, WakeupStutter, Zenon
  <1>8. "ok" \in Outcomes
    BY Zenon DEF Outcomes
  <1> QED BY <1>1, <1>2, <1>3, <1>4, <1>5, <1>6, <1>7, <1>8, Zenon DEF Next, Progress, Request

(* Every way out of Reconcile leaves its shard settled or bound to be      *)
(* looked at again, for any number of shards that claim any APIs, however  *)
(* far the informers lag and whatever fails.                               *)
THEOREM NoLostWakeup == Spec => []SettledWhenQuiet
  <1>1. Spec => []WakeupInv
    BY WakeupInit, WakeupStep, StructCorrect, PTL DEF Spec
  <1>2. WakeupInv => SettledWhenQuiet
    BY Zenon DEF WakeupInv
  <1> QED BY <1>1, <1>2, PTL
=============================================================================
