------------------------- MODULE ClientProviderProofs -------------------------
(* For any number of callers, keys, credentials and rotations: the map is    *)
(* never raced, and GetOrCreate gives every caller what it asked for.        *)
EXTENDS ClientProvider, TLAPS

Functions ==
  /\ pc \in [Callers -> {"idle", "auth", "lookup", "reading", "lock", "creating", "use",
                         "drop", "dropping"}]
  /\ cfg = [c \in Callers |-> cfg[c]] /\ got = [c \in Callers |-> got[c]]
  /\ clients = [k \in Keys |-> clients[k]]
  /\ epoch \in [Keys -> Nat] /\ mark \in [Callers -> Nat]

(* The lock is held by exactly the callers inside a critical section.        *)
LockHeld ==
  /\ readers = {c \in Callers : pc[c] = "reading"}
  /\ writer \in Callers \cup {None}
  /\ \A c \in Callers : pc[c] \in {"creating", "dropping"} <=> writer = c
  /\ writer # None => readers = {}

(* The client of an entry was built from what the entry is compared by.      *)
Honest(entry) ==
  entry.rest = [host |-> entry.host, ca |-> entry.fingerprint[1],
                token |-> entry.fingerprint[3],
                pair |-> IF entry.fingerprint[3] # 0 THEN 0 ELSE entry.fingerprint[2]]

(* Every cached entry is honest and no older than the last Invalidate of its *)
(* key.                                                                      *)
CacheInv ==
  \A k \in Keys : clients[k] # None => Honest(clients[k]) /\ clients[k].epoch = epoch[k]

(* What a caller has read has one credential; what it is given fits.         *)
CallerInv ==
  \A c \in Callers :
    /\ mark[c] =< epoch[KeyOf[c]]
    /\ pc[c] \in {"lookup", "reading", "lock", "creating", "use"} /\ cfg[c].pair # 0
         => cfg[c].token = 0
    /\ pc[c] = "use" => /\ got[c].rest = BuildRESTConfig(cfg[c])
                        /\ got[c].epoch \in Nat /\ got[c].epoch >= mark[c]

IInv == Functions /\ LockHeld /\ CacheInv /\ CallerInv

(* The invariant holds when the provider is new.                             *)
LEMMA InitInv == Init => IInv
<1> SUFFICES ASSUME Init PROVE IInv
  BY Zenon
<1>1. Functions
  BY Zenon DEF Init, Functions
<1>2. LockHeld
  <2>1. writer = None /\ readers = {} /\ \A c \in Callers : pc[c] = "idle"
    BY Zenon DEF Init
  <2> QED
    BY <2>1, NoneAssumption, Zenon DEF LockHeld
<1>3. CacheInv
  BY Zenon DEF Init, CacheInv
<1>4. CallerInv
  <2>1. \A c \in Callers : pc[c] = "idle"
    BY Zenon DEF Init
  <2>2. ASSUME NEW c \in Callers PROVE mark[c] =< epoch[KeyOf[c]]
    <3>1. KeyOf[c] \in Keys
      BY KeysAssumption, Zenon
    <3>2. mark[c] = 0 /\ epoch[KeyOf[c]] = 0
      BY <3>1, Zenon DEF Init
    <3> QED
      BY <3>2
  <2> QED
    BY <2>1, <2>2, Zenon DEF CallerInv
<1> QED
  BY <1>1, <1>2, <1>3, <1>4, Zenon DEF IInv

(* An entry that matches a configuration has the client built from it.       *)
LEMMA MatchIsFit ==
  ASSUME NEW entry, NEW config, Honest(entry), Matches(entry, config)
  PROVE  entry.rest = BuildRESTConfig(config)
  BY DEF Honest, Matches, Fingerprint, BuildRESTConfig

(* A new entry is honest and of the key's current epoch.                     *)
LEMMA NewIsFit ==
  ASSUME NEW c \in Callers
  PROVE  /\ Honest(NewEntry(c)) /\ NewEntry(c).rest = BuildRESTConfig(cfg[c])
         /\ NewEntry(c).epoch = epoch[KeyOf[c]]
  BY Zenon DEF Honest, NewEntry, Fingerprint, BuildRESTConfig

(* Every step keeps the shape of the functions.                              *)
LEMMA StepFunctions == IInv /\ [Next]_vars => Functions'
<1> SUFFICES ASSUME IInv, [Next]_vars PROVE Functions'
  BY Zenon
<1> USE KeysAssumption DEF IInv, Functions, Goto, lock, caller
<1>1. ASSUME NEW c \in Callers, Rotate(c) PROVE Functions'
  BY <1>1, Zenon DEF Rotate
<1>2. ASSUME NEW c \in Callers, ReadCAMissing(c) PROVE Functions'
  BY <1>2, Zenon DEF ReadCAMissing, vars
<1>3. ASSUME NEW c \in Callers, ReadCA(c) PROVE Functions'
  BY <1>3, Zenon DEF ReadCA
<1>4. ASSUME NEW c \in Callers, ReadAuth(c) PROVE Functions'
  BY <1>4, Zenon DEF ReadAuth
<1>5. ASSUME NEW c \in Callers, RLock(c) PROVE Functions'
  BY <1>5, Zenon DEF RLock
<1>6. ASSUME NEW c \in Callers, RUnlock(c) PROVE Functions'
  BY <1>6, Zenon DEF RUnlock
<1>7. ASSUME NEW c \in Callers, Lock(c) PROVE Functions'
  BY <1>7, Zenon DEF Lock
<1>8. ASSUME NEW c \in Callers, Create(c) PROVE Functions'
  BY <1>8, Zenon DEF Create
<1>9. ASSUME NEW c \in Callers, CreateFailed(c) PROVE Functions'
  BY <1>9, Zenon DEF CreateFailed
<1>10. ASSUME NEW c \in Callers, Release(c) PROVE Functions'
  BY <1>10, Zenon DEF Release
<1>11. ASSUME NEW c \in Callers, Invalidate(c) PROVE Functions'
  BY <1>11 DEF Invalidate
<1>12. CASE UNCHANGED vars
  BY <1>12, Zenon DEF vars
<1> QED
  BY <1>1, <1>2, <1>3, <1>4, <1>5, <1>6, <1>7, <1>8, <1>9, <1>10, <1>11, <1>12, Zenon DEF Next

(* Locking and unlocking bracket every critical section.                     *)
LEMMA StepLock == IInv /\ [Next]_vars => LockHeld'
<1> SUFFICES ASSUME IInv, [Next]_vars PROVE LockHeld'
  BY Zenon
<1> USE NoneAssumption DEF IInv, Functions, LockHeld, Goto, lock, caller
<1>1. ASSUME NEW c \in Callers, Rotate(c) \/ ReadCAMissing(c) PROVE LockHeld'
  BY <1>1, Zenon DEF Rotate, ReadCAMissing, vars
<1>2. ASSUME NEW c \in Callers, ReadCA(c) PROVE LockHeld'
  BY <1>2, Zenon DEF ReadCA
<1>3. ASSUME NEW c \in Callers, ReadAuth(c) PROVE LockHeld'
  BY <1>3, Zenon DEF ReadAuth
<1>4. ASSUME NEW c \in Callers, RLock(c) PROVE LockHeld'
  BY <1>4 DEF RLock
<1>5. ASSUME NEW c \in Callers, RUnlock(c) PROVE LockHeld'
  BY <1>5, Zenon DEF RUnlock
<1>6. ASSUME NEW c \in Callers, Lock(c) PROVE LockHeld'
  BY <1>6, Zenon DEF Lock
<1>7. ASSUME NEW c \in Callers, Create(c) PROVE LockHeld'
  BY <1>7, Zenon DEF Create
<1>8. ASSUME NEW c \in Callers, CreateFailed(c) PROVE LockHeld'
  BY <1>8, Zenon DEF CreateFailed
<1>9. ASSUME NEW c \in Callers, Release(c) PROVE LockHeld'
  BY <1>9, Zenon DEF Release
<1>10. ASSUME NEW c \in Callers, Invalidate(c) PROVE LockHeld'
  BY <1>10, Zenon DEF Invalidate
<1>11. CASE UNCHANGED vars
  BY <1>11, Zenon DEF vars
<1> QED
  BY <1>1, <1>2, <1>3, <1>4, <1>5, <1>6, <1>7, <1>8, <1>9, <1>10, <1>11, Zenon DEF Next

(* Only Create fills the map, and Invalidate empties what it outdates.       *)
LEMMA StepCache == IInv /\ [Next]_vars => CacheInv'
<1> SUFFICES ASSUME IInv, [Next]_vars PROVE CacheInv'
  BY Zenon
<1> USE KeysAssumption DEF IInv, Functions, CacheInv
<1>1. ASSUME NEW c \in Callers, Create(c) PROVE CacheInv'
  BY <1>1, NewIsFit, Zenon DEF Create
<1>2. ASSUME NEW c \in Callers, Invalidate(c) PROVE CacheInv'
  BY <1>2, Zenon DEF Invalidate
<1>3. CASE UNCHANGED <<clients, epoch>>
  BY <1>3, Zenon
<1> QED
  BY <1>1, <1>2, <1>3 DEF Next, vars, Rotate, ReadCAMissing, ReadCA, ReadAuth, RLock, RUnlock,
     Lock, CreateFailed, Release

(* A caller gets hold of a client only by a match or by creating it.         *)
LEMMA StepCaller == IInv /\ [Next]_vars => CallerInv'
<1> SUFFICES ASSUME IInv, [Next]_vars PROVE CallerInv'
  BY Zenon
<1> USE KeysAssumption DEF IInv, Functions, CallerInv, Goto, lock, caller
<1>1. ASSUME NEW c \in Callers, Rotate(c) \/ ReadCAMissing(c) PROVE CallerInv'
  BY <1>1, Zenon DEF Rotate, ReadCAMissing, vars
<1>2. ASSUME NEW c \in Callers, ReadCA(c) PROVE CallerInv'
  BY <1>2 DEF ReadCA
<1>3. ASSUME NEW c \in Callers, ReadAuth(c) PROVE CallerInv'
  BY <1>3 DEF ReadAuth, ClientConfig
<1>4. ASSUME NEW c \in Callers, RLock(c) PROVE CallerInv'
  BY <1>4, Zenon DEF RLock
<1>5. ASSUME NEW c \in Callers, RUnlock(c) PROVE CallerInv'
  <2>1. CASE ~Matches(clients[KeyOf[c]], cfg[c])
    BY <1>5, <2>1, Zenon DEF RUnlock
  <2>2. CASE Matches(clients[KeyOf[c]], cfg[c])
    <3>1. /\ clients[KeyOf[c]].rest = BuildRESTConfig(cfg[c])
          /\ clients[KeyOf[c]].epoch = epoch[KeyOf[c]]
      BY <2>2, MatchIsFit, Zenon DEF CacheInv, Matches
    <3> QED
      BY <1>5, <2>2, <3>1 DEF RUnlock
  <2> QED
    BY <2>1, <2>2, Zenon
<1>6. ASSUME NEW c \in Callers, Lock(c) PROVE CallerInv'
  BY <1>6, Zenon DEF Lock
<1>7. ASSUME NEW c \in Callers, Create(c) PROVE CallerInv'
  <2> DEFINE new == IF Matches(clients[KeyOf[c]], cfg[c]) THEN clients[KeyOf[c]] ELSE NewEntry(c)
  <2>1. new.rest = BuildRESTConfig(cfg[c]) /\ new.epoch = epoch[KeyOf[c]]
    BY MatchIsFit, NewIsFit DEF CacheInv, Matches
  <2>2. /\ got' = [got EXCEPT ![c] = new] /\ pc' = [pc EXCEPT ![c] = "use"] /\ pc[c] = "creating"
        /\ UNCHANGED <<cfg, epoch, mark>>
    BY <1>7, Zenon DEF Create
  <2> HIDE DEF new
  <2> QED
    BY <2>1, <2>2
<1>8. ASSUME NEW c \in Callers, CreateFailed(c) PROVE CallerInv'
  BY <1>8 DEF CreateFailed
<1>9. ASSUME NEW c \in Callers, Release(c) PROVE CallerInv'
  <2>1. mark' = [mark EXCEPT ![c] = 0] /\ UNCHANGED epoch
    BY <1>9, Zenon DEF Release
  <2>2. \A d \in Callers \ {c} : pc'[d] = pc[d] /\ cfg'[d] = cfg[d] /\ got'[d] = got[d]
    BY <1>9, Zenon DEF Release
  <2>3. pc'[c] \in {"idle", "drop"}
    BY <1>9, Zenon DEF Release
  <2> QED
    BY <2>1, <2>2, <2>3 DEF BuildRESTConfig
<1>10. ASSUME NEW c \in Callers, Invalidate(c) PROVE CallerInv'
  <2>1. /\ \A k \in Keys : epoch'[k] \in Nat /\ epoch'[k] >= epoch[k]
        /\ UNCHANGED <<cfg, got, mark>> /\ pc' = [pc EXCEPT ![c] = "idle"]
    BY <1>10 DEF Invalidate
  <2> QED
    BY <2>1
<1>11. CASE UNCHANGED vars
  BY <1>11, Zenon DEF vars
<1> QED
  BY <1>1, <1>2, <1>3, <1>4, <1>5, <1>6, <1>7, <1>8, <1>9, <1>10, <1>11, Zenon DEF Next

(* The inductive invariant holds in every state.                             *)
LEMMA Inductive == Spec => []IInv
<1>1. IInv /\ [Next]_vars => IInv'
  BY StepFunctions, StepLock, StepCache, StepCaller, Zenon DEF IInv
<1> QED
  BY <1>1, InitInv, PTL DEF Spec

(* The RWMutex keeps map accesses of any number of goroutines apart.         *)
THEOREM RaceFree == Spec => []NoMapRace
<1>1. IInv => NoMapRace
  BY NoneAssumption, Zenon DEF IInv, LockHeld, NoMapRace
<1> QED
  BY <1>1, Inductive, PTL

(* GetOrCreate gives every caller a client for its own endpoint and          *)
(* credentials, whoever else uses the key.                                   *)
THEOREM GivesAsAsked == Spec => []GivenAsAsked
<1>1. IInv => GivenAsAsked
  BY DEF IInv, CallerInv, GivenAsAsked, BuildRESTConfig
<1> QED
  BY <1>1, Inductive, PTL

(* No call that begins after Invalidate returned is given an older client.   *)
THEOREM InvalidationHolds == Spec => []InvalidatedIsGone
<1>1. IInv => InvalidatedIsGone
  BY Zenon DEF IInv, CallerInv, InvalidatedIsGone
<1> QED
  BY <1>1, Inductive, PTL
=============================================================================
