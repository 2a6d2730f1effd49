------------------------- MODULE ShardStorageProofs -------------------------
(***************************************************************************)
(* Proofs about ShardStorage, for any specs, bounds and reads.             *)
(***************************************************************************)
EXTENDS ShardStorage, TLAPS

(* A StatefulSet whose data volume has one source.                         *)
Volumes(claims) == {"tmp"} \cup (IF claims = <<>> THEN {dataVolumeName} ELSE {})
Sound(x) ==
  /\ x = [there |-> x.there, claims |-> x.claims, emptyDirs |-> x.emptyDirs]
  /\ x.there \in BOOLEAN
  /\ x.there => Templates(x.claims) /\ x.emptyDirs = Volumes(x.claims)

(* The builder makes a sound StatefulSet of a spec.                        *)
LEMMA BuildIsSound ==
  ASSUME NEW s \in Specs
  PROVE  Sound(BuildPostgreSQLStatefulSet(s)) /\ BuildPostgreSQLStatefulSet(s).there
  BY SpecsAssumption, Zenon DEF Sound, BuildPostgreSQLStatefulSet, Volumes

(* Aligning it to a sound live one keeps it sound.                         *)
LEMMA AlignIsSound ==
  ASSUME NEW new, Sound(new), new.there, NEW old, Sound(old), old.there
  PROVE  /\ Sound(AlignPostgreSQLVolumeClaims(new, old))
         /\ AlignPostgreSQLVolumeClaims(new, old).there
         /\ AlignPostgreSQLVolumeClaims(new, old).claims = old.claims
<1> DEFINE names == {old.claims[i].name : i \in 1..Len(old.claims)}
           x == AlignPostgreSQLVolumeClaims(new, old)
           dirs == IF names # {} THEN new.emptyDirs \ names
                                 ELSE new.emptyDirs \cup old.emptyDirs
<1>0. new = [there |-> TRUE, claims |-> new.claims, emptyDirs |-> new.emptyDirs]
  BY Zenon DEF Sound
<1>a. x = [new EXCEPT !.claims = old.claims, !.emptyDirs = dirs]
  BY Zenon DEF AlignPostgreSQLVolumeClaims
<1>1. x = [there |-> TRUE, claims |-> old.claims, emptyDirs |-> dirs]
  <2> HIDE DEF dirs, x
  <2> QED  BY <1>0, <1>a, Zenon
<1> SUFFICES Sound(x) /\ x.there /\ x.claims = old.claims
  BY Zenon
<1> HIDE DEF x
<1>2. CASE old.claims = <<>>
  <2>1. names = {}
    BY <1>2
  <2>2. dirs = new.emptyDirs \cup old.emptyDirs
    BY <2>1, Zenon
  <2>3. dirs = Volumes(old.claims)
    <3> HIDE DEF dirs
    <3> QED  BY <1>2, <2>2, Zenon DEF Sound, Volumes
  <2> HIDE DEF dirs
  <2> QED  BY <1>1, <2>3, Zenon DEF Sound
<1>3. CASE old.claims # <<>>
  <2>1. old.claims = <<old.claims[1]>> /\ old.claims[1].name = dataVolumeName
    BY <1>3 DEF Sound, Templates
  <2>2. names = {dataVolumeName}
    BY <2>1
  <2>3. dirs = new.emptyDirs \ {dataVolumeName}
    BY <2>2, Zenon
  <2> HIDE DEF dirs
  <2>4. dirs = Volumes(old.claims)
    BY <1>3, <2>3, Zenon DEF Sound, Volumes, dataVolumeName
  <2> QED  BY <1>1, <2>4, Zenon DEF Sound
<1> QED  BY <1>2, <1>3, Zenon

(* What the API server stores of a sound StatefulSet is sound, and is what *)
(* was there if it accepts it.                                             *)
LEMMA DefaultedIsSound ==
  ASSUME NEW d, Sound(d), d.there, Accepted(d), Sound(sts), NEW x \in Defaulted(d)
  PROVE  Sound(x) /\ x.there /\ (sts.there => x = sts)
<1> DEFINE filled(class) == [i \in 1..Len(d.claims) |->
             IF d.claims[i].class = "unset" THEN [d.claims[i] EXCEPT !.class = class]
                                            ELSE d.claims[i]]
<1>1. PICK class \in {"unset", "standard"} :
        x = [d EXCEPT !.claims = filled(class)] /\ (sts.there => class = "unset")
  BY Zenon DEF Defaulted
<1>2. x = [there |-> TRUE, claims |-> filled(class), emptyDirs |-> d.emptyDirs]
  BY <1>1, Zenon DEF Sound
<1>3. CASE d.claims = <<>>
  <2>1. filled(class) = <<>>
    BY <1>3
  <2> QED  BY <1>2, <1>3, <2>1, Zenon DEF Sound, Volumes, Templates, Accepted
<1>4. CASE d.claims # <<>>
  <2> DEFINE r == d.claims[1]
             q == IF r.class = "unset" THEN [r EXCEPT !.class = class] ELSE r
  <2>1. d.claims = <<r>> /\ r = [name |-> dataVolumeName, size |-> r.size, class |-> r.class]
    BY <1>4, Zenon DEF Sound, Templates
  <2>2. filled(class) = <<q>>
    <3>1. Len(d.claims) = 1 /\ 1..1 = {1}
      BY <2>1
    <3>2. filled(class) = [i \in {1} |-> IF d.claims[i].class = "unset"
                           THEN [d.claims[i] EXCEPT !.class = class] ELSE d.claims[i]]
      BY <3>1, Zenon
    <3>3. filled(class) = [i \in {1} |-> q]
      BY <3>2, Zenon
    <3> HIDE DEF q, filled
    <3> QED  BY <3>3
  <2>3. q = [name |-> dataVolumeName, size |-> q.size, class |-> q.class] /\ (class = "unset" => q = r)
    <3> HIDE DEF r
    <3>1. CASE r.class = "unset"
      <4>1. q = [r EXCEPT !.class = class]
        BY <3>1, Zenon
      <4>2. q = [name |-> r.name, size |-> r.size, class |-> class]
        BY <2>1, <4>1, Zenon
      <4>3. r = [name |-> r.name, size |-> r.size, class |-> r.class]
        BY <2>1, Zenon
      <4> HIDE DEF q
      <4> QED  BY <2>1, <3>1, <4>2, <4>3
    <3>2. CASE r.class # "unset"
      BY <2>1, <3>2, Zenon
    <3> QED  BY <3>1, <3>2, Zenon
  <2>4. Templates(filled(class)) /\ filled(class) # <<>>
    <3>1. filled(class) = <<q>> /\ <<q>>[1] = q /\ <<q>> # <<>>
      <4> HIDE DEF q, filled
      <4> QED  BY <2>2, SMT
    <3> HIDE DEF q, filled
    <3> QED  BY <2>3, <3>1, Zenon DEF Templates
  <2>5. sts.there => filled(class) = d.claims
    BY <1>1, <2>1, <2>2, <2>3, Zenon
  <2>6. x.there /\ x.claims = filled(class) /\ x.emptyDirs = d.emptyDirs
    BY <1>2, Zenon
  <2>7. Sound(x)
    BY <1>2, <1>4, <2>4, <2>6, Zenon DEF Sound, Volumes
  <2>8. ASSUME sts.there PROVE x = sts
    BY <1>2, <2>5, <2>8, Zenon DEF Sound, Accepted
  <2> QED  BY <2>6, <2>7, <2>8, Zenon
<1> QED  BY <1>3, <1>4, Zenon
-----------------------------------------------------------------------------
(* The StatefulSets of a pass and of the caches are sound.                 *)
VolumeInv ==
  /\ spec.s \in Specs /\ copy.s \in Specs
  /\ Sound(sts)
  /\ seen = [credentials |-> seen.credentials, sts |-> seen.sts] /\ Sound(seen.sts)
  /\ pc = "statefulset" => Sound(desired) /\ desired.there

LEMMA NoStsIsSound == Sound(NoSts) /\ ~NoSts.there
  BY Zenon DEF Sound, NoSts

LEMMA CachedIs ==
  ASSUME seen = [credentials |-> seen.credentials, sts |-> seen.sts]
  PROVE  Cached.sts = IF "sts" \in StaleReads THEN seen.sts ELSE sts
  BY Zenon DEF Cached, Current

(* The end of a pass takes away only what CleanupOrphans may, and with the *)
(* StatefulSet its running database.                                       *)
LEMMA TakenAway ==
  ASSUME Finish \/ FinishFails
  PROVE  /\ credentials' \in {credentials, 0} /\ sts' \in {sts, NoSts}
         /\ UNCHANGED disk /\ scratch' \in {scratch, 0}
         /\ copy.s.type = "InClusterPostgreSQL" => UNCHANGED <<live, database>>
         /\ up' => up /\ sts' = sts
<1>1. PICK gone \in SUBSET Orphans : CleanupOrphans(gone)
  <2>1. Orphans \in SUBSET Orphans
    BY Zenon
  <2> QED  BY <2>1, Zenon DEF Finish, FinishFails
<1>2. copy.s.type = "InClusterPostgreSQL" => "credentials" \notin gone /\ "sts" \notin gone
  BY <1>1, Zenon DEF Orphans
<1> QED  BY <1>1, <1>2, Zenon DEF CleanupOrphans, RemoveSts, database, live

(* A step keeps VolumeInv, and the StatefulSet once it is there.           *)
LEMMA VolumeStep ==
  ASSUME VolumeInv, [Next]_vars
  PROVE  VolumeInv' /\ (sts'.there /\ sts.there => sts' = sts)
<1> USE DEF VolumeInv
<1> DEFINE Same == /\ UNCHANGED <<sts, seen>>
                   /\ pc' # "statefulset" \/ UNCHANGED <<pc, desired>>
<1>0. Same /\ spec'.s \in Specs /\ copy'.s \in Specs
      => VolumeInv' /\ (sts'.there /\ sts.there => sts' = sts)
  BY Zenon DEF Sound, Volumes, Templates
<1>1. CASE UNCHANGED vars
  BY <1>0, <1>1, Zenon DEF vars, live, pass
<1>2. CASE Begin
  <2>1. pc' # "statefulset"
    BY <1>2, SpecsAssumption, Zenon DEF Begin
  <2> QED  BY <1>0, <1>2, <2>1, Zenon DEF Begin, live
<1>3. CASE getOrGeneratePostgresPassword
  BY <1>0, <1>3, Zenon DEF getOrGeneratePostgresPassword, live
<1>4. CASE ApplySecret \/ ApplySecretFails
  BY <1>0, <1>4, Zenon DEF ApplySecret, ApplySecretFails, setErrorAndRequeue, Return
<1>5. CASE preservePostgreSQLVolumeClaimTemplates
  <2> DEFINE new == BuildPostgreSQLStatefulSet(copy.s)
             old == Cached.sts
  <2>1. Sound(old)
    BY CachedIs, Zenon
  <2>2. Sound(new) /\ new.there
    BY BuildIsSound, Zenon
  <2>3. desired' = IF old.there THEN AlignPostgreSQLVolumeClaims(new, old) ELSE new
    BY <1>5, Zenon DEF preservePostgreSQLVolumeClaimTemplates
  <2>4. UNCHANGED <<spec, copy, sts, seen>>
    BY <1>5, Zenon DEF preservePostgreSQLVolumeClaimTemplates, live
  <2> HIDE DEF new, old
  <2>5. Sound(desired') /\ desired'.there
    BY <2>1, <2>2, <2>3, AlignIsSound, Zenon
  <2>6. Sound(desired)' /\ Sound(sts)' /\ Sound(seen.sts)'
    BY <2>4, <2>5, Zenon DEF Sound, Volumes, Templates
  <2> QED  BY <2>4, <2>5, <2>6, Zenon
<1>6. CASE ApplyStatefulSet \/ ApplyStatefulSetFails
  <2>1. pc = "statefulset" /\ pc' # "statefulset" /\ UNCHANGED <<spec, seen>> /\ copy' \in {copy, spec}
    BY <1>6, Zenon DEF ApplyStatefulSet, ApplyStatefulSetFails, setErrorAndRequeue, Return
  <2>2. sts' = sts \/ (Accepted(desired) /\ sts' \in Defaulted(desired))
    BY <1>6, Zenon DEF ApplyStatefulSet, ApplyStatefulSetFails
  <2>3. CASE sts' = sts
    BY <1>0, <2>1, <2>3, Zenon
  <2>4. CASE Accepted(desired) /\ sts' \in Defaulted(desired)
    <3>1. Sound(sts') /\ (sts.there => sts' = sts)
      BY <2>1, <2>4, DefaultedIsSound, Zenon
    <3>2. Sound(sts)' /\ Sound(seen.sts)'
      BY <2>1, <3>1, Zenon DEF Sound, Volumes, Templates
    <3> QED  BY <2>1, <3>1, <3>2, Zenon
  <2> QED  BY <2>2, <2>3, <2>4, Zenon
<1>7. CASE validateExternalPostgreSQLSecret
  BY <1>0, <1>7, Zenon DEF validateExternalPostgreSQLSecret, setErrorAndRequeue, Return, live
<1>8. CASE Finish \/ FinishFails
  <2>1. pc' # "statefulset" /\ UNCHANGED <<spec, seen>> /\ copy' = spec
    BY <1>8, Zenon DEF Finish, FinishFails, setErrorAndRequeue, Return
  <2>2. sts' = sts \/ sts' = NoSts
    BY <1>8, TakenAway, Zenon
  <2>3. CASE sts' = sts
    BY <1>0, <2>1, <2>3, Zenon
  <2>4. CASE sts' = NoSts
    <3>1. Sound(sts)' /\ Sound(seen.sts)' /\ ~sts'.there
      BY <2>1, <2>4, NoStsIsSound, Zenon DEF Sound, Volumes, Templates
    <3> QED  BY <2>1, <3>1, Zenon
  <2> QED  BY <2>2, <2>3, <2>4, Zenon
<1>9. CASE Observe
  <2>1. UNCHANGED <<spec, copy, sts, pc, desired>>
    BY <1>9, Zenon DEF Observe, live, pass
  <2>2. seen' = [credentials |-> seen'.credentials, sts |-> seen'.sts] /\ seen'.sts \in {seen.sts, sts}
    <3>1. seen' = [seen EXCEPT !["credentials"] = credentials] \/ seen' = [seen EXCEPT !["sts"] = sts]
      <4>1. PICK x \in {"credentials", "sts"} : seen' = [seen EXCEPT ![x] = Current[x]]
        BY <1>9, Zenon DEF Observe
      <4>2. Current["credentials"] = credentials /\ Current["sts"] = sts
        BY Zenon DEF Current
      <4>3. x = "credentials" \/ x = "sts"
        BY <4>1, Zenon
      <4> HIDE DEF VolumeInv
      <4> QED  BY <4>1, <4>2, <4>3, Zenon
    <3>2. CASE seen' = [seen EXCEPT !["credentials"] = credentials]
      BY <3>2, Zenon
    <3>3. CASE seen' = [seen EXCEPT !["sts"] = sts]
      BY <3>3, Zenon
    <3> QED  BY <3>1, <3>2, <3>3, Zenon
  <2>3. Sound(seen.sts)' /\ Sound(sts)' /\ (Sound(desired) => Sound(desired)')
    BY <2>1, <2>2 DEF Sound, Volumes, Templates
  <2> QED  BY <2>1, <2>2, <2>3, Zenon
<1>10. CASE StartDatabase \/ StopDatabase
  BY <1>0, <1>10, Zenon DEF StartDatabase, StopDatabase, live, pass
<1>11. CASE Edit \/ EditConnection
  <2>1. Same /\ UNCHANGED copy
    BY <1>11, Zenon DEF Edit, EditConnection, live, pass
  <2>2. spec'.s \in Specs
    BY <1>11 DEF Edit, EditConnection
  <2> QED  BY <1>0, <2>1, <2>2, Zenon
<1>12. CASE Recreate
  <2>1. sts' = NoSts /\ pc' # "statefulset" /\ copy' = spec /\ UNCHANGED seen
    BY <1>12, Zenon DEF Recreate, RemoveSts, Return
  <2>2. spec'.s \in Specs
    BY <1>12 DEF Recreate
  <2>3. Sound(sts)' /\ Sound(seen.sts)' /\ ~sts'.there
    BY <2>1, NoStsIsSound, Zenon DEF Sound, Volumes, Templates
  <2> QED  BY <2>1, <2>2, <2>3, Zenon
<1>13. CASE Restart
  <2>1. pc' # "statefulset" /\ copy' = spec /\ UNCHANGED <<spec, sts>>
        /\ seen' = [credentials |-> credentials, sts |-> sts]
    BY <1>13, Zenon DEF Restart, Current, live, Return
  <2>2. Sound(seen.sts)' /\ Sound(sts)'
    BY <2>1, Zenon DEF Sound, Volumes, Templates
  <2> QED  BY <2>1, <2>2, Zenon
<1> QED
  BY <1>1, <1>2, <1>3, <1>4, <1>5, <1>6, <1>7, <1>8, <1>9, <1>10, <1>11, <1>12, <1>13, Zenon
     DEF Next, Reconcile

LEMMA VolumeAlways == Spec => []VolumeInv
<1>1. Init => VolumeInv
  <2> SUFFICES ASSUME Init PROVE VolumeInv
    BY Zenon
  <2>1. spec.s \in Specs /\ copy.s \in Specs
    BY DEF Init
  <2>2. sts = NoSts /\ seen = [credentials |-> 0, sts |-> NoSts] /\ pc = "idle"
    BY Zenon DEF Init
  <2> QED  BY <2>1, <2>2, NoStsIsSound, Zenon DEF VolumeInv
<1>2. VolumeInv /\ [Next]_vars => VolumeInv'
  BY VolumeStep, Zenon
<1> QED  BY <1>1, <1>2, PTL DEF Spec

(* The data of a StatefulSet stays where it is and has one source, for any *)
(* storage specs, edits, failures, restarts and stale reads: what          *)
(* preservePostgreSQLVolumeClaimTemplates aligns, or the API server's      *)
(* refusal of changed claim templates, sees to it.                         *)
THEOREM VolumeKept == Spec => KeepsVolume
<1>1. VolumeInv /\ VolumeInv' /\ [Next]_vars =>
        [sts'.there =>
           /\ sts.there => sts' = sts
           /\ (dataVolumeName \in sts'.emptyDirs) <=> (sts'.claims = <<>>)]_vars
  <2> SUFFICES ASSUME VolumeInv, VolumeInv', [Next]_vars, sts'.there
               PROVE  /\ sts.there => sts' = sts
                      /\ (dataVolumeName \in sts'.emptyDirs) <=> (sts'.claims = <<>>)
    BY Zenon
  <2>1. sts.there => sts' = sts
    BY VolumeStep, Zenon
  <2>2. sts'.emptyDirs = {"tmp"} \cup (IF sts'.claims = <<>> THEN {dataVolumeName} ELSE {})
    BY Zenon DEF VolumeInv, Sound, Volumes
  <2> QED  BY <2>1, <2>2, Zenon DEF dataVolumeName
<1> QED  BY <1>1, VolumeAlways, PTL DEF Spec, KeepsVolume
-----------------------------------------------------------------------------
(* The password a pass is about to write is that of the Secret.            *)
PasswordInv ==
  pc = "secret" /\ credentials # 0 /\ "credentials" \notin late => password = credentials

LEMMA PasswordStep ==
  ASSUME VolumeInv, PasswordInv, [Next]_vars
  PROVE  /\ PasswordInv'
         /\ credentials # 0 /\ credentials' # 0 /\ "credentials" \notin late
            => credentials' = credentials
<1> USE DEF PasswordInv
<1>1. CASE getOrGeneratePostgresPassword
  <2>0. Cached.credentials = credentials \/ LateRead("credentials") = {"credentials"}
    BY Zenon DEF Cached, Current, LateRead
  <2>1. credentials # 0 /\ "credentials" \notin late' => password' = credentials
    <3>1. \/ /\ password' = IF Cached.credentials # 0 THEN Cached.credentials
                                                    ELSE GeneratePassword
             /\ late' = late \cup LateRead("credentials")
          \/ late' = late \cup {"credentials"}
      BY <1>1, Zenon DEF getOrGeneratePostgresPassword
    <3> QED  BY <2>0, <3>1
  <2>2. UNCHANGED credentials
    BY <1>1, Zenon DEF getOrGeneratePostgresPassword, live
  <2> QED  BY <2>1, <2>2, Zenon
<1>2. CASE ApplySecret \/ ApplySecretFails
  BY <1>2, Zenon DEF ApplySecret, ApplySecretFails, setErrorAndRequeue, Return
<1>3. CASE Begin
  <2>1. pc' # "secret"
    BY <1>3, SpecsAssumption, Zenon DEF Begin, VolumeInv
  <2> QED  BY <1>3, <2>1, Zenon DEF Begin, live
<1>4. CASE Finish \/ FinishFails
  <2>1. credentials' \in {credentials, 0} /\ pc' # "secret"
    BY <1>4, TakenAway, Zenon DEF Finish, FinishFails, setErrorAndRequeue, Return
  <2> QED  BY <2>1, Zenon
<1>5. CASE \/ preservePostgreSQLVolumeClaimTemplates \/ ApplyStatefulSet
           \/ ApplyStatefulSetFails \/ validateExternalPostgreSQLSecret
  <2>1. UNCHANGED credentials /\ pc' # "secret"
    BY <1>5, Zenon DEF preservePostgreSQLVolumeClaimTemplates, ApplyStatefulSet, ApplyStatefulSetFails,
         validateExternalPostgreSQLSecret, setErrorAndRequeue, Return, live
  <2> QED  BY <2>1, Zenon
<1>6. CASE Observe \/ StartDatabase \/ StopDatabase \/ Edit \/ EditConnection \/ UNCHANGED vars
  <2>1. UNCHANGED <<credentials, pc, password, late>>
    BY <1>6, Zenon DEF Observe, StartDatabase, StopDatabase, Edit, EditConnection, vars, live, pass
  <2> QED  BY <2>1, Zenon
<1>7. CASE Recreate \/ Restart
  BY <1>7, Zenon DEF Recreate, Restart, live, Return
<1> QED  BY <1>1, <1>2, <1>3, <1>4, <1>5, <1>6, <1>7, Zenon DEF Next, Reconcile

LEMMA PasswordAlways == Spec => []PasswordInv
<1>1. Init => PasswordInv
  BY Zenon DEF Init, PasswordInv
<1>2. VolumeInv /\ PasswordInv /\ [Next]_vars => PasswordInv'
  BY PasswordStep, Zenon
<1> QED  BY <1>1, <1>2, VolumeAlways, PTL DEF Spec

(* A pass never replaces the password of an existing Secret as long as it  *)
(* has been read as it is: getOrGeneratePostgresPassword and the apply     *)
(* that follows agree, for any specs, edits, failures and restarts.        *)
THEOREM PasswordReused == Spec => PasswordKept
<1>1. VolumeInv /\ PasswordInv /\ [Next]_vars
      => [credentials # 0 /\ credentials' # 0 /\ "credentials" \notin late
          => credentials' = credentials]_vars
  BY PasswordStep, Zenon
<1> QED  BY <1>1, VolumeAlways, PasswordAlways, PTL DEF Spec, PasswordKept

(* The API server never refuses the apply as long as the StatefulSet has   *)
(* been read as it is: the templates that                                  *)
(* preservePostgreSQLVolumeClaimTemplates copies are still the live ones   *)
(* when ApplyOwned sends them.                                             *)
THEOREM ApplyAccepted == Spec => []NeverRejected
<1>1. Init => NeverRejected
  BY Zenon DEF Init, NeverRejected
<1>2. VolumeInv /\ NeverRejected /\ [Next]_vars => NeverRejected'
  <2> SUFFICES ASSUME VolumeInv, NeverRejected, [Next]_vars PROVE NeverRejected'
    BY Zenon
  <2> USE DEF NeverRejected, Accepted
  <2>1. CASE preservePostgreSQLVolumeClaimTemplates
    <3> DEFINE new == BuildPostgreSQLStatefulSet(copy.s)
    <3> SUFFICES ASSUME "sts" \notin late'
                 PROVE  Accepted(desired)'
      BY Zenon
    <3>a. LateRead("sts") = {}
      <4>1. LateRead("sts") \subseteq late'
        BY <2>1, Zenon DEF preservePostgreSQLVolumeClaimTemplates
      <4> QED  BY <4>1, Zenon DEF LateRead
    <3>1. Cached.sts = sts /\ Sound(sts)
      BY <3>a, Zenon DEF VolumeInv, LateRead, Current
    <3>2. desired' = IF sts.there THEN AlignPostgreSQLVolumeClaims(new, sts) ELSE new
      BY <2>1, <3>1, Zenon DEF preservePostgreSQLVolumeClaimTemplates
    <3>3. Sound(new) /\ new.there
      BY BuildIsSound, Zenon DEF VolumeInv
    <3>4. UNCHANGED sts
      BY <2>1, Zenon DEF preservePostgreSQLVolumeClaimTemplates, live
    <3> HIDE DEF new
    <3> QED  BY <3>1, <3>2, <3>3, <3>4, AlignIsSound, Zenon
  <2>2. CASE Begin
    <3>1. pc' # "statefulset"
      BY <2>2, SpecsAssumption, Zenon DEF Begin, VolumeInv
    <3> QED  BY <3>1, Zenon
  <2>3. CASE \/ getOrGeneratePostgresPassword \/ ApplySecret \/ ApplySecretFails
             \/ ApplyStatefulSet \/ ApplyStatefulSetFails \/ validateExternalPostgreSQLSecret
             \/ Finish \/ FinishFails \/ Recreate \/ Restart
    <3>1. pc' # "statefulset"
      BY <2>3, Zenon DEF getOrGeneratePostgresPassword, ApplySecret, ApplySecretFails, ApplyStatefulSet,
           ApplyStatefulSetFails, validateExternalPostgreSQLSecret, Finish, FinishFails, Recreate,
           Restart, setErrorAndRequeue, Return
    <3> QED  BY <3>1, Zenon
  <2>4. CASE Observe \/ StartDatabase \/ StopDatabase \/ Edit \/ EditConnection \/ UNCHANGED vars
    <3>1. UNCHANGED <<sts, pc, desired, late>>
      BY <2>4, Zenon DEF Observe, StartDatabase, StopDatabase, Edit, EditConnection, vars, live, pass
    <3> QED  BY <3>1, Zenon
  <2> QED  BY <2>1, <2>2, <2>3, <2>4, Zenon DEF Next, Reconcile
<1> QED  BY <1>1, <1>2, VolumeAlways, PTL DEF Spec
-----------------------------------------------------------------------------
(* How far a pass has come, whatever happens around it.                    *)
Tally == [edits: Nat, switches: Nat, mishaps: Nat, recreations: Nat]
InClusterSteps == {"password", "secret", "preserve", "statefulset"}
PassInv ==
  /\ budgets \in Tally
  /\ queued \in BOOLEAN
  /\ pc \in {"idle", "validate", "rest"} \cup InClusterSteps
  /\ pc \in InClusterSteps => copy.s.type = "InClusterPostgreSQL"
  /\ pc = "validate" => copy.s.type = "PostgreSQL"
  /\ pc = "secret" => password # 0
  /\ pc \in {"preserve", "statefulset"} => credentials # 0
  /\ pc = "rest" /\ copy.s.type = "InClusterPostgreSQL" => credentials # 0 /\ sts.there

(* Until a read is late, the type changes or the shard is recreated: there *)
(* is data only of the password in the Secret.                             *)
Undisturbed == "credentials" \notin late /\ budgets.switches + budgets.recreations = 0
DatabaseInv ==
  Undisturbed =>
    /\ copy.s.type = spec.s.type
    /\ sts.there \/ credentials # 0 => spec.s.type = "InClusterPostgreSQL"
    /\ disk \in {0, credentials} /\ scratch \in {0, credentials}
    /\ up => sts.there /\ credentials # 0 /\ credentials = InUse

(* The counters only grow.                                                 *)
Grows(old, new) ==
  /\ new \in Tally
  /\ \A kind \in {"edits", "switches", "mishaps", "recreations"} : new[kind] >= old[kind]

LEMMA CountsUp ==
  ASSUME NEW old \in Tally, NEW kind \in {"edits", "switches", "mishaps", "recreations"},
         NEW new, new = [old EXCEPT ![kind] = @ + 1]
  PROVE  Grows(old, new) /\ new[kind] = old[kind] + 1
<1>1. CASE kind = "edits"  BY <1>1 DEF Tally, Grows
<1>2. CASE kind = "switches"  BY <1>2 DEF Tally, Grows
<1>3. CASE kind = "mishaps"  BY <1>3 DEF Tally, Grows
<1>4. CASE kind = "recreations"  BY <1>4 DEF Tally, Grows
<1> QED  BY <1>1, <1>2, <1>3, <1>4, Zenon

LEMMA BudgetsGrow ==
  ASSUME budgets \in Tally, [Next]_vars
  PROVE  Grows(budgets, budgets')
<1>0. Grows(budgets, budgets)
  BY DEF Grows, Tally
<1>1. ASSUME NEW kind \in {"mishaps", "recreations"}, Trouble(kind) PROVE Grows(budgets, budgets')
  BY <1>1, CountsUp, Zenon DEF Trouble
<1>2. ASSUME NEW kind \in {"edits", "switches"}, NEW max, Spend(kind, max) PROVE Grows(budgets, budgets')
  BY <1>2, CountsUp, Zenon DEF Spend
<1>3. CASE Reconcile
  <2>1. UNCHANGED budgets \/ Trouble("mishaps")
    BY <1>3, Zenon DEF Reconcile, Begin, getOrGeneratePostgresPassword, ApplySecret, ApplySecretFails,
         preservePostgreSQLVolumeClaimTemplates, ApplyStatefulSet, ApplyStatefulSetFails,
         validateExternalPostgreSQLSecret, Finish, FinishFails
  <2> QED  BY <1>0, <1>1, <2>1, Zenon
<1>4. CASE Observe \/ StartDatabase \/ UNCHANGED vars
  BY <1>0, <1>4, Zenon DEF Observe, StartDatabase, vars
<1>5. CASE Edit \/ EditConnection
  BY <1>2, <1>5, Zenon DEF Edit, EditConnection
<1>6. CASE Recreate \/ StopDatabase \/ Restart
  BY <1>1, <1>6, Zenon DEF Recreate, StopDatabase, Restart
<1> QED  BY <1>3, <1>4, <1>5, <1>6, Zenon DEF Next

(* A generated password is not the empty one.                              *)
LEMMA Generated == GeneratePassword \in 1..6
<1>1. \E n \in 1..6 : n \notin {credentials, seen.credentials, disk, scratch, password}
  OBVIOUS
<1> QED  BY <1>1, Zenon DEF GeneratePassword

LEMMA PassStep ==
  ASSUME VolumeInv, PassInv, [Next]_vars
  PROVE  PassInv'
<1> USE DEF PassInv, InClusterSteps
<1>0. budgets' \in Tally
  BY BudgetsGrow, Zenon DEF Grows
<1>1. CASE UNCHANGED vars
  BY <1>1, Zenon DEF vars, live, pass
<1>2. CASE Begin
  BY <1>0, <1>2, SpecsAssumption, Zenon DEF Begin, VolumeInv
<1>3. CASE getOrGeneratePostgresPassword
  <2>1. password' # 0
    BY <1>3, Generated DEF getOrGeneratePostgresPassword
  <2> QED  BY <1>0, <1>3, <2>1, Zenon DEF getOrGeneratePostgresPassword
<1>4. CASE ApplySecret \/ ApplySecretFails
  BY <1>0, <1>4, Zenon DEF ApplySecret, ApplySecretFails, setErrorAndRequeue, Return
<1>5. CASE preservePostgreSQLVolumeClaimTemplates
  BY <1>0, <1>5, Zenon DEF preservePostgreSQLVolumeClaimTemplates, live
<1>6. CASE ApplyStatefulSet
  <2>1. sts'.there
    BY <1>6, DefaultedIsSound, Zenon DEF ApplyStatefulSet, VolumeInv
  <2> QED  BY <1>0, <1>6, <2>1, Zenon DEF ApplyStatefulSet
<1>7. CASE \/ ApplyStatefulSetFails \/ validateExternalPostgreSQLSecret \/ Finish \/ FinishFails
           \/ Recreate \/ Restart
  BY <1>0, <1>7, Zenon DEF ApplyStatefulSetFails, validateExternalPostgreSQLSecret, Finish, FinishFails,
       Recreate, Restart, setErrorAndRequeue, Return
<1>8. CASE Observe \/ StartDatabase \/ StopDatabase \/ Edit \/ EditConnection
  BY <1>0, <1>8, Zenon DEF Observe, StartDatabase, StopDatabase, Edit, EditConnection, live, pass
<1> QED  BY <1>1, <1>2, <1>3, <1>4, <1>5, <1>6, <1>7, <1>8, Zenon DEF Next, Reconcile

LEMMA PassAlways == Spec => []PassInv
<1>1. Init => PassInv
  BY DEF Init, PassInv, Tally, InClusterSteps
<1>2. VolumeInv /\ PassInv /\ [Next]_vars => PassInv'
  BY PassStep, Zenon
<1> QED  BY <1>1, <1>2, VolumeAlways, PTL DEF Spec
-----------------------------------------------------------------------------
(* What was disturbed stays so.                                            *)
LEMMA Disturbed ==
  ASSUME PassInv, [Next]_vars, Undisturbed'
  PROVE  Undisturbed /\ budgets'.switches = budgets.switches /\ budgets'.recreations = budgets.recreations
<1>1. Grows(budgets, budgets') /\ budgets \in Tally
  BY BudgetsGrow, Zenon DEF PassInv
<1>2. late \subseteq late'
  BY Zenon DEF Next, Reconcile, Begin, getOrGeneratePostgresPassword, ApplySecret, ApplySecretFails,
       preservePostgreSQLVolumeClaimTemplates, ApplyStatefulSet, ApplyStatefulSetFails,
       validateExternalPostgreSQLSecret, Finish, FinishFails, Observe, StartDatabase, Edit,
       EditConnection, Recreate, StopDatabase, Restart, vars
<1> QED
  BY <1>1, <1>2 DEF Grows, Tally, Undisturbed

(* The password of the data follows the Secret, and the Secret the data.   *)
LEMMA DatabaseStep ==
  ASSUME VolumeInv, PassInv, PasswordInv, DatabaseInv, [Next]_vars
  PROVE  DatabaseInv'
<1> SUFFICES ASSUME Undisturbed'
             PROVE  /\ copy'.s.type = spec'.s.type
                    /\ sts'.there \/ credentials' # 0 => spec'.s.type = "InClusterPostgreSQL"
                    /\ disk' \in {0, credentials'} /\ scratch' \in {0, credentials'}
                    /\ up' => sts'.there /\ credentials' # 0 /\ credentials' = InUse'
  BY Zenon DEF DatabaseInv
<1>0. /\ Undisturbed
      /\ copy.s.type = spec.s.type
      /\ sts.there \/ credentials # 0 => spec.s.type = "InClusterPostgreSQL"
      /\ disk \in {0, credentials} /\ scratch \in {0, credentials}
      /\ up => sts.there /\ credentials # 0 /\ credentials = InUse
  BY Disturbed, Zenon DEF DatabaseInv
<1>a. budgets'.switches = budgets.switches /\ budgets'.recreations = budgets.recreations
  BY Disturbed, Zenon
<1>1. CASE UNCHANGED <<live, database>> /\ copy'.s.type = spec'.s.type /\ spec'.s.type = spec.s.type
  BY <1>0, <1>1, Zenon DEF live, database, InUse
<1>2. CASE \/ Begin \/ getOrGeneratePostgresPassword \/ preservePostgreSQLVolumeClaimTemplates
           \/ validateExternalPostgreSQLSecret \/ EditConnection \/ Observe \/ Restart
           \/ UNCHANGED vars
  <2>1. UNCHANGED <<live, database, spec>> /\ copy' \in {copy, spec}
    BY <1>2, Zenon DEF Begin, getOrGeneratePostgresPassword, preservePostgreSQLVolumeClaimTemplates,
         validateExternalPostgreSQLSecret, EditConnection, Observe, Restart, vars,
         setErrorAndRequeue, Return, pass
  <2> QED  BY <1>0, <1>1, <2>1, Zenon
<1>3. CASE ApplySecret \/ ApplySecretFails
  <2>1. /\ pc = "secret" /\ credentials' \in {credentials, password}
        /\ UNCHANGED <<sts, database, spec>> /\ copy' \in {copy, spec}
    BY <1>3, Zenon DEF ApplySecret, ApplySecretFails, setErrorAndRequeue, Return
  <2>2. spec.s.type = "InClusterPostgreSQL"
    BY <1>0, <2>1, Zenon DEF PassInv, InClusterSteps
  <2>3. credentials # 0 => credentials' = credentials
    BY <1>0, <2>1, Zenon DEF PasswordInv, Undisturbed
  <2> QED  BY <1>0, <2>1, <2>2, <2>3, Zenon DEF database, InUse
<1>4. CASE ApplyStatefulSet \/ ApplyStatefulSetFails
  <2>1. pc = "statefulset" /\ UNCHANGED <<credentials, database, spec>> /\ copy' \in {copy, spec}
    BY <1>4, Zenon DEF ApplyStatefulSet, ApplyStatefulSetFails, setErrorAndRequeue, Return
  <2>2. spec.s.type = "InClusterPostgreSQL"
    BY <1>0, <2>1, Zenon DEF PassInv, InClusterSteps
  <2>3. sts' = sts \/ ~sts.there
    <3>1. sts' = sts \/ (Accepted(desired) /\ sts' \in Defaulted(desired))
      BY <1>4, Zenon DEF ApplyStatefulSet, ApplyStatefulSetFails
    <3> QED  BY <2>1, <3>1, DefaultedIsSound, Zenon DEF VolumeInv
  <2> QED  BY <1>0, <2>1, <2>2, <2>3, Zenon DEF database, InUse
<1>5. CASE Finish \/ FinishFails
  <2>1. UNCHANGED spec /\ copy' = spec
    BY <1>5, Zenon DEF Finish, FinishFails, setErrorAndRequeue, Return
  <2>2. CASE copy.s.type = "InClusterPostgreSQL"
    BY <1>0, <1>1, <1>5, <2>1, <2>2, TakenAway, Zenon
  <2>3. CASE copy.s.type # "InClusterPostgreSQL"
    <3>1. credentials = 0 /\ ~sts.there /\ ~up
      BY <1>0, <2>3, Zenon
    <3>2. credentials' = 0 /\ ~sts'.there /\ ~up' /\ UNCHANGED disk /\ scratch' \in {scratch, 0}
      BY <1>5, <3>1, TakenAway, NoStsIsSound, Zenon
    <3> QED  BY <1>0, <2>1, <3>1, <3>2, Zenon
  <2> QED  BY <2>2, <2>3, Zenon
<1>6. CASE StartDatabase
  BY <1>0, <1>6, Zenon DEF StartDatabase, InUse, live, pass
<1>7. CASE StopDatabase
  BY <1>0, <1>7, Zenon DEF StopDatabase, live, pass
<1>8. CASE Edit
  <2>1. PICK s \in Specs : /\ s.type = spec.s.type \/ Spend("switches", MaxSwitches)
                           /\ spec' = [s |-> s, generation |-> spec.generation + 1]
    BY <1>8, Zenon DEF Edit
  <2>2. ~Spend("switches", MaxSwitches)
    BY <1>a, CountsUp DEF Spend, PassInv, Tally
  <2> QED  BY <1>0, <1>1, <1>8, <2>1, <2>2, Zenon DEF Edit, pass
<1>9. CASE Recreate
  <2>1. budgets' = [budgets EXCEPT !["recreations"] = @ + 1]
    BY <1>9, Zenon DEF Recreate, Trouble
  <2> QED  BY <1>a, <2>1 DEF PassInv, Tally
<1> QED
  BY <1>2, <1>3, <1>4, <1>5, <1>6, <1>7, <1>8, <1>9, Zenon DEF Next, Reconcile

(* The database opens with the password of the Secret, for any specs,      *)
(* edits, failed requests and restarts, as long as the reads of the        *)
(* credentials are current and neither the type nor the shard is replaced: *)
(* getOrGeneratePostgresPassword, CleanupOrphans and the aligned volumes   *)
(* together never part the Secret from the data.                           *)
THEOREM DatabaseOpens == Spec => []OpensDatabase
<1>1. Init => DatabaseInv
  BY DEF Init, DatabaseInv, NoSts
<1>2. /\ VolumeInv /\ PassInv /\ PasswordInv /\ DatabaseInv /\ [Next]_vars => DatabaseInv'
  BY DatabaseStep, Zenon
<1>3. DatabaseInv => OpensDatabase
  BY Zenon DEF DatabaseInv, OpensDatabase, Undisturbed
<1> QED  BY <1>1, <1>2, <1>3, VolumeAlways, PassAlways, PasswordAlways, PTL DEF Spec
-----------------------------------------------------------------------------
(* Claim templates match themselves, and still do when the API server has  *)
(* defaulted their class.                                                  *)
LEMMA MatchesItself ==
  ASSUME NEW c, Templates(c)
  PROVE  VolumeClaimTemplatesMatch(c, c)
  BY Zenon DEF Templates, VolumeClaimTemplatesMatch, storageClassNamesMatch

LEMMA MatchesDefaulted ==
  ASSUME NEW c, Templates(c), NEW d, Sound(d), d.there, NEW x \in Defaulted(d),
         VolumeClaimTemplatesMatch(c, d.claims)
  PROVE  VolumeClaimTemplatesMatch(c, x.claims)
<1> DEFINE filled(class) == [i \in 1..Len(d.claims) |->
             IF d.claims[i].class = "unset" THEN [d.claims[i] EXCEPT !.class = class]
                                            ELSE d.claims[i]]
<1>1. PICK class \in {"unset", "standard"} : x = [d EXCEPT !.claims = filled(class)]
  BY Zenon DEF Defaulted
<1>2. x.claims = filled(class)
  <2>1. d = [there |-> d.there, claims |-> d.claims, emptyDirs |-> d.emptyDirs]
    BY Zenon DEF Sound
  <2> HIDE DEF filled
  <2> QED  BY <1>1, <2>1, Zenon
<1>3. CASE d.claims = <<>>
  <2>1. filled(class) = <<>>
    BY <1>3
  <2> QED  BY <1>2, <1>3, <2>1, Zenon
<1>4. CASE d.claims # <<>>
  <2> DEFINE r == d.claims[1]
             q == IF r.class = "unset" THEN [r EXCEPT !.class = class] ELSE r
  <2>1. d.claims = <<r>> /\ r = [name |-> dataVolumeName, size |-> r.size, class |-> r.class]
    BY <1>4, Zenon DEF Sound, Templates
  <2>2. filled(class) = <<q>>
    <3>1. Len(d.claims) = 1 /\ 1..1 = {1}
      BY <2>1
    <3>2. filled(class) = [i \in {1} |-> IF d.claims[i].class = "unset"
                           THEN [d.claims[i] EXCEPT !.class = class] ELSE d.claims[i]]
      BY <3>1, Zenon
    <3>3. filled(class) = [i \in {1} |-> q]
      BY <3>2, Zenon
    <3> HIDE DEF q, filled
    <3> QED  BY <3>3
  <2>3. q.name = r.name /\ q.size = r.size /\ q.class = IF r.class = "unset" THEN class ELSE r.class
    <3> HIDE DEF r
    <3> QED  BY <2>1, Zenon
  <2>4. Len(c) = 1 /\ c[1].name = r.name /\ c[1].size = r.size
        /\ storageClassNamesMatch(c[1].class, r.class)
    <3>1. Len(d.claims) = 1
      BY <2>1
    <3>2. Len(c) = 1
      BY <3>1, Zenon DEF VolumeClaimTemplatesMatch
    <3>3. 1 \in 1..Len(c)
      BY <3>2
    <3> QED  BY <3>2, <3>3, Zenon DEF VolumeClaimTemplatesMatch
  <2>5. storageClassNamesMatch(c[1].class, q.class)
    BY <2>3, <2>4, Zenon DEF storageClassNamesMatch
  <2> HIDE DEF q, r, filled
  <2> QED  BY <1>2, <2>2, <2>3, <2>4, <2>5 DEF VolumeClaimTemplatesMatch
<1> QED  BY <1>3, <1>4, Zenon

(* What the condition says when the pass has read what is there.           *)
Verdict(claims) ==
  IF VolumeClaimTemplatesMatch(spec.s.persistence, claims) THEN "True" ELSE "False"
Usable == spec.s.ref /\ connection = "valid"
ReportInv ==
  ~queued =>
    /\ pc # "idle" => copy = spec
    /\ pc = "statefulset" =>
         /\ desired.claims = IF Cached.sts.there THEN Cached.sts.claims ELSE spec.s.persistence
         /\ report = IF Cached.sts.there THEN Verdict(Cached.sts.claims) ELSE "True"
    /\ pc = "rest" /\ spec.s.type = "InClusterPostgreSQL" =>
         (seen.sts = sts => report = Verdict(sts.claims))
    /\ pc = "rest" /\ spec.s.type = "PostgreSQL" => report = "True" /\ Usable
    /\ pc = "idle" /\ spec.s.type = "InClusterPostgreSQL" =>
         credentials # 0 /\ sts.there /\ (seen.sts = sts => ready = Verdict(sts.claims))
    /\ pc = "idle" /\ spec.s.type = "PostgreSQL" => ready = "True" /\ Usable
    /\ pc = "idle" /\ spec.s.type # "InClusterPostgreSQL" /\ ~skipped /\ seen = Current =>
         credentials = 0 /\ ~sts.there

(* As long as nobody edits the shard, what is there matches.               *)
Unedited == budgets.edits + budgets.switches + budgets.recreations = 0
UneditedInv ==
  Unedited =>
    /\ copy = spec
    /\ \A x \in {sts, seen.sts} :
         x.there => VolumeClaimTemplatesMatch(spec.s.persistence, x.claims)
    /\ pc = "statefulset" => VolumeClaimTemplatesMatch(spec.s.persistence, desired.claims)
    /\ spec.s.type # "PostgreSQL" => ready # "False" /\ report # "False"

LEMMA CurrentIs ==
  /\ Current = [credentials |-> credentials, sts |-> sts]
  /\ Cached.credentials = IF "credentials" \in StaleReads THEN seen.credentials ELSE credentials
  BY Zenon DEF Cached, Current

(* The report of a pass that began when the shard was last queued.         *)
LEMMA ReportStep ==
  ASSUME VolumeInv, PassInv, ReportInv, [Next]_vars
  PROVE  ReportInv'
<1> SUFFICES ASSUME ~queued' PROVE ReportInv'
  BY Zenon DEF ReportInv
<1> USE DEF ReportInv
<1>1. CASE UNCHANGED vars
  <2>1. UNCHANGED <<spec, connection, credentials, sts, seen, ready, queued, pc, copy, desired, report,
                    skipped>>
    BY <1>1, Zenon DEF vars, live, pass
  <2>2. /\ Cached' = Cached /\ Current' = Current /\ Usable' = Usable
        /\ \A c : Verdict(c)' = Verdict(c)
    BY <2>1, Zenon DEF Cached, Current, Verdict, Usable
  <2>3. Verdict(sts.claims)' = Verdict(sts.claims) /\ Verdict(Cached.sts.claims)' = Verdict(Cached.sts.claims)
    BY <2>1, <2>2, Zenon DEF Verdict
  <2> QED  BY <2>1, <2>2, <2>3, Zenon
<1>2. CASE Begin
  <2>1. /\ pc' \in {"password", "validate", "rest"} /\ copy' = spec' /\ UNCHANGED spec
        /\ pc' = "rest" => spec.s.type = "SQLite"
    BY <1>2, SpecsAssumption, Zenon DEF Begin, VolumeInv
  <2> QED  BY <2>1, Zenon
<1>3. CASE getOrGeneratePostgresPassword \/ ApplySecret
  <2>1. pc' \in {"secret", "preserve"} /\ pc # "idle" /\ UNCHANGED <<queued, copy, spec>>
    BY <1>3, Zenon DEF getOrGeneratePostgresPassword, ApplySecret
  <2> QED  BY <2>1, Zenon
<1>4. CASE preservePostgreSQLVolumeClaimTemplates
  <2> DEFINE new == BuildPostgreSQLStatefulSet(copy.s)
             old == Cached.sts
  <2>1. pc' = "statefulset" /\ pc # "idle" /\ ~queued /\ UNCHANGED <<copy, spec, credentials, sts, seen>>
    BY <1>4, Zenon DEF preservePostgreSQLVolumeClaimTemplates, live
  <2>2. copy = spec /\ new.claims = spec.s.persistence
    BY <2>1, Zenon DEF BuildPostgreSQLStatefulSet
  <2>3. /\ desired' = IF old.there THEN AlignPostgreSQLVolumeClaims(new, old) ELSE new
        /\ report' = IF old.there => VolumeClaimTemplatesMatch(new.claims, old.claims)
                       THEN "True" ELSE "False"
    BY <1>4, Zenon DEF preservePostgreSQLVolumeClaimTemplates
  <2>4. Sound(new) /\ new.there /\ Sound(old)
    BY BuildIsSound, CachedIs, Zenon DEF VolumeInv
  <2>5. Cached' = Cached
    BY <2>1, Zenon DEF Cached, Current
  <2> HIDE DEF new, old
  <2>6. desired'.claims = IF old.there THEN old.claims ELSE spec.s.persistence
    BY <2>2, <2>3, <2>4, AlignIsSound, Zenon
  <2>7. report' = IF old.there THEN Verdict(old.claims) ELSE "True"
    BY <2>2, <2>3, Zenon DEF Verdict
  <2>8. \A c : Verdict(c)' = Verdict(c)
    BY <2>1, Zenon DEF Verdict
  <2>9. old = Cached.sts
    BY Zenon DEF old
  <2> QED  BY <2>1, <2>2, <2>5, <2>6, <2>7, <2>8, <2>9, Zenon
<1>5. CASE ApplyStatefulSet
  <2>1. /\ pc = "statefulset" /\ pc' = "rest" /\ ~queued /\ Accepted(desired) /\ sts' \in Defaulted(desired)
        /\ UNCHANGED <<copy, spec, seen, report>>
    BY <1>5, Zenon DEF ApplyStatefulSet
  <2>2. copy = spec /\ spec.s.type = "InClusterPostgreSQL"
    BY <2>1, Zenon DEF PassInv, InClusterSteps
  <2>3. Sound(sts') /\ sts'.there /\ (sts.there => sts' = sts)
    BY <2>1, DefaultedIsSound, Zenon DEF VolumeInv
  <2>4. /\ desired.claims = IF Cached.sts.there THEN Cached.sts.claims ELSE spec.s.persistence
        /\ report = IF Cached.sts.there THEN Verdict(Cached.sts.claims) ELSE "True"
    BY <2>1, Zenon
  <2>5. ASSUME seen.sts = sts' PROVE report = Verdict(sts'.claims)
    <3>1. CASE "sts" \in StaleReads
      BY <2>3, <2>4, <2>5, <3>1, CachedIs, Zenon DEF VolumeInv
    <3>2. CASE "sts" \notin StaleReads /\ sts.there
      BY <2>3, <2>4, <3>2, CachedIs, Zenon DEF VolumeInv
    <3>3. CASE "sts" \notin StaleReads /\ ~sts.there
      <4>1. desired.claims = spec.s.persistence /\ report = "True"
        BY <2>4, <3>3, CachedIs, Zenon DEF VolumeInv
      <4>2. Templates(spec.s.persistence)
        BY SpecsAssumption, Zenon DEF VolumeInv
      <4>3. VolumeClaimTemplatesMatch(spec.s.persistence, desired.claims)
        BY <4>1, <4>2, MatchesItself, Zenon
      <4>4. VolumeClaimTemplatesMatch(spec.s.persistence, sts'.claims)
        BY <2>1, <4>2, <4>3, MatchesDefaulted, Zenon DEF VolumeInv
      <4> QED  BY <4>1, <4>4, Zenon DEF Verdict
    <3> QED  BY <3>1, <3>2, <3>3, Zenon
  <2>6. \A c : Verdict(c)' = Verdict(c)
    BY <2>1, Zenon DEF Verdict
  <2>7. seen'.sts = sts' => report' = Verdict(sts.claims)'
    BY <2>1, <2>5, <2>6, Zenon
  <2> QED  BY <2>1, <2>2, <2>7, Zenon
<1>6. CASE validateExternalPostgreSQLSecret
  <2>1. /\ pc = "validate" /\ pc' = "rest" /\ ~queued /\ report' = "True" /\ copy.s.ref /\ connection = "valid"
        /\ UNCHANGED <<copy, spec, connection>>
    <3>1. ~setErrorAndRequeue("False")
      BY Zenon DEF setErrorAndRequeue
    <3> HIDE DEF ReportInv
    <3>2. /\ pc = "validate" /\ UNCHANGED <<spec, connection>>
          /\ copy.s.ref /\ connection = "valid" /\ report' = "True" /\ pc' = "rest"
          /\ UNCHANGED <<ready, queued, copy, password, desired, budgets>>
      BY <1>6, <3>1, Zenon DEF validateExternalPostgreSQLSecret
    <3> QED  BY <3>2, Zenon
  <2> QED  BY <2>1, Zenon DEF PassInv, Usable
<1>7. CASE Finish
  <2>1. /\ pc = "rest" /\ pc' = "idle" /\ ~queued /\ copy = spec /\ ready' = report
        /\ UNCHANGED <<spec, connection, seen>>
    BY <1>7, Zenon DEF Finish, Return
  <2>2. CASE spec.s.type = "InClusterPostgreSQL"
    <3>1. UNCHANGED <<credentials, sts>>
      BY <1>7, <2>1, <2>2, TakenAway, Zenon DEF live
    <3>2. credentials # 0 /\ sts.there /\ (seen.sts = sts => report = Verdict(sts.claims))
      BY <2>1, <2>2, Zenon DEF PassInv
    <3>3. Verdict(sts.claims)' = Verdict(sts.claims)
      BY <2>1, <3>1, Zenon DEF Verdict, VolumeClaimTemplatesMatch, storageClassNamesMatch
    <3> QED  BY <2>1, <2>2, <3>1, <3>2, <3>3, Zenon
  <2>3. CASE spec.s.type # "InClusterPostgreSQL"
    <3>1. ASSUME ~skipped'
          PROVE  /\ credentials' = IF Cached.credentials # 0 THEN 0 ELSE credentials
                 /\ sts' = IF Cached.sts.there THEN NoSts ELSE sts
      <4>1. CleanupOrphans(Orphans)
        BY <1>7, <3>1, Zenon DEF Finish
      <4>2. ("credentials" \in Orphans <=> Cached.credentials # 0) /\ ("sts" \in Orphans <=> Cached.sts.there)
        BY <2>1, <2>3, Zenon DEF Orphans
      <4> QED  BY <4>1, <4>2, Zenon DEF CleanupOrphans, RemoveSts
    <3>2. ASSUME ~skipped', seen' = Current' PROVE credentials' = 0 /\ ~sts'.there
      <4>1. seen.credentials = credentials' /\ seen.sts = sts'
        BY <2>1, <3>2 DEF Current
      <4>2. /\ credentials' = IF Cached.credentials # 0 THEN 0 ELSE credentials
            /\ sts' = IF Cached.sts.there THEN NoSts ELSE sts
        BY <3>1, <3>2, Zenon
      <4> QED  BY <4>1, <4>2, CurrentIs, CachedIs, NoStsIsSound, Zenon DEF VolumeInv
    <3>3. spec.s.type = "PostgreSQL" => ready' = "True" /\ Usable'
      BY <2>1, Zenon DEF Usable
    <3> QED  BY <2>1, <2>3, <3>2, <3>3, Zenon
  <2> QED  BY <2>2, <2>3, Zenon
<1>8. CASE EditConnection
  <2>1. ~queued /\ ~(spec.s.type = "PostgreSQL" /\ spec.s.ref)
        /\ UNCHANGED <<spec, credentials, sts, seen, ready, pc, copy, desired, report, skipped>>
    BY <1>8, Zenon DEF EditConnection, live, pass
  <2>2. Cached' = Cached /\ Current' = Current /\ \A c : Verdict(c)' = Verdict(c)
    BY <2>1, Zenon DEF Cached, Current, Verdict
  <2> QED  BY <2>1, <2>2, Zenon DEF Usable
<1>9. CASE \/ ApplySecretFails \/ ApplyStatefulSetFails \/ FinishFails \/ Observe \/ StartDatabase
           \/ StopDatabase \/ Edit \/ Recreate \/ Restart
  BY <1>9, Zenon DEF ApplySecretFails, ApplyStatefulSetFails, FinishFails, Observe, StartDatabase,
       StopDatabase, Edit, Recreate, Restart, setErrorAndRequeue
<1> QED
  BY <1>1, <1>2, <1>3, <1>4, <1>5, <1>6, <1>7, <1>8, <1>9, Zenon DEF Next, Reconcile

LEMMA SumIsZero ==
  ASSUME NEW a \in Nat, NEW b \in Nat, NEW c \in Nat
  PROVE  a + b + c = 0 <=> a = 0 /\ b = 0 /\ c = 0
  OBVIOUS

LEMMA StillUnedited ==
  ASSUME PassInv, [Next]_vars, Unedited'
  PROVE  Unedited /\ ~Edit /\ ~EditConnection /\ ~Recreate
<1>1. Grows(budgets, budgets') /\ budgets \in Tally
  BY BudgetsGrow, Zenon DEF PassInv
<1>2. Unedited /\ \A kind \in {"edits", "switches", "recreations"} : budgets'[kind] = 0 /\ budgets[kind] = 0
  <2>1. /\ budgets.edits \in Nat /\ budgets.switches \in Nat /\ budgets.recreations \in Nat
        /\ budgets'.edits \in Nat /\ budgets'.switches \in Nat /\ budgets'.recreations \in Nat
        /\ budgets'.edits >= budgets.edits /\ budgets'.switches >= budgets.switches
        /\ budgets'.recreations >= budgets.recreations
    BY <1>1, Zenon DEF Grows, Tally
  <2>2. budgets'.edits + budgets'.switches + budgets'.recreations = 0
    BY Zenon DEF Unedited
  <2>3. /\ budgets'.edits = 0 /\ budgets'.switches = 0 /\ budgets'.recreations = 0
        /\ budgets.edits = 0 /\ budgets.switches = 0 /\ budgets.recreations = 0
    <3>1. budgets'.edits = 0 /\ budgets'.switches = 0 /\ budgets'.recreations = 0
      BY <2>1, <2>2, SumIsZero, Zenon
    <3> QED  BY <2>1, <3>1
  <2> QED  BY <2>3, SumIsZero, Zenon DEF Unedited
<1>3. ASSUME NEW kind \in {"edits", "switches"}, NEW max, Spend(kind, max) PROVE FALSE
  <2>1. budgets'[kind] = budgets[kind] + 1
    BY <1>1, <1>3, CountsUp, ZenonT(30) DEF Spend
  <2> QED  BY <1>2, <2>1
<1>4. ~Trouble("recreations")
  <2>1. ASSUME Trouble("recreations") PROVE FALSE
    <3>1. budgets'["recreations"] = budgets["recreations"] + 1
      BY <1>1, <2>1, CountsUp, Zenon DEF Trouble
    <3> QED  BY <1>2, <3>1
  <2> QED  BY <2>1, Zenon
<1> QED  BY <1>2, <1>3, <1>4, Zenon DEF Edit, EditConnection, Recreate

(* Without an edit every StatefulSet there comes from the one spec.        *)
LEMMA UneditedStep ==
  ASSUME VolumeInv, PassInv, UneditedInv, [Next]_vars
  PROVE  UneditedInv'
<1> SUFFICES ASSUME Unedited' PROVE UneditedInv'
  BY Zenon DEF UneditedInv
<1> DEFINE Fits(x) == x.there => VolumeClaimTemplatesMatch(spec.s.persistence, x.claims)
           Fine == spec.s.type # "PostgreSQL" => ready # "False" /\ report # "False"
<1>0. Unedited /\ ~Edit /\ ~EditConnection /\ ~Recreate
  BY StillUnedited, Zenon
<1>u. copy = spec /\ Fits(sts) /\ Fits(seen.sts) /\ Fine
  BY <1>0, Zenon DEF UneditedInv
<1>d. pc = "statefulset" => VolumeClaimTemplatesMatch(spec.s.persistence, desired.claims)
  BY <1>0, Zenon DEF UneditedInv
<1>t. Templates(spec.s.persistence)
  BY SpecsAssumption, Zenon DEF VolumeInv
<1>q. SUFFICES /\ spec' = spec /\ copy' = spec /\ Fits(sts') /\ Fits(seen'.sts)
               /\ pc' = "statefulset" => VolumeClaimTemplatesMatch(spec.s.persistence, desired'.claims)
               /\ spec.s.type # "PostgreSQL" => ready' # "False" /\ report' # "False"
  <2>1. Fits(sts)' /\ Fits(seen.sts)'
    BY <1>q, Zenon
  <2>2. \A x \in {sts', seen'.sts} :
          x.there => VolumeClaimTemplatesMatch(spec'.s.persistence, x.claims)
    BY <2>1, <1>q, Zenon
  <2> QED  BY <1>q, <2>2, Zenon DEF UneditedInv
<1> HIDE DEF Fits
<1>n. Fits(NoSts)
  BY NoStsIsSound, Zenon DEF Fits
<1>1. CASE UNCHANGED vars \/ StartDatabase \/ StopDatabase
  <2>1. UNCHANGED <<spec, copy, sts, seen, pc, desired, ready, report>>
    BY <1>1, Zenon DEF vars, live, pass, StartDatabase, StopDatabase
  <2> QED  BY <1>u, <1>d, <2>1, Zenon
<1>2. CASE Begin
  <2>1. /\ UNCHANGED <<spec, sts, seen, desired, ready>> /\ copy' = spec /\ report' = ready
        /\ pc' # "statefulset"
    BY <1>2, SpecsAssumption, Zenon DEF Begin, live, VolumeInv
  <2> QED  BY <1>u, <2>1, Zenon
<1>3. CASE getOrGeneratePostgresPassword \/ ApplySecret
  <2>1. UNCHANGED <<spec, copy, sts, seen, desired, ready, report>> /\ pc' # "statefulset"
    BY <1>3, Zenon DEF live, getOrGeneratePostgresPassword, ApplySecret
  <2> QED  BY <1>u, <2>1, Zenon
<1>4. CASE preservePostgreSQLVolumeClaimTemplates
  <2> DEFINE new == BuildPostgreSQLStatefulSet(copy.s)
             old == Cached.sts
  <2>1. UNCHANGED <<spec, copy, sts, seen, ready>>
    BY <1>4, Zenon DEF live, preservePostgreSQLVolumeClaimTemplates
  <2>2. /\ desired' = IF old.there THEN AlignPostgreSQLVolumeClaims(new, old) ELSE new
        /\ report' = IF old.there => VolumeClaimTemplatesMatch(new.claims, old.claims)
                       THEN "True" ELSE "False"
    BY <1>4, Zenon DEF preservePostgreSQLVolumeClaimTemplates
  <2>3. /\ Sound(new) /\ new.there /\ Sound(old) /\ Fits(old)
        /\ new.claims = spec.s.persistence
    BY <1>u, BuildIsSound, CachedIs, Zenon DEF VolumeInv, BuildPostgreSQLStatefulSet
  <2> HIDE DEF new, old
  <2>4. VolumeClaimTemplatesMatch(spec.s.persistence, desired'.claims)
    BY <1>t, <2>2, <2>3, AlignIsSound, MatchesItself, Zenon DEF Fits
  <2>5. report' = "True"
    BY <2>2, <2>3, Zenon DEF Fits
  <2> QED  BY <1>u, <2>1, <2>4, <2>5, Zenon
<1>5. CASE ApplyStatefulSet
  <2>1. /\ UNCHANGED <<spec, copy, seen, ready, report>> /\ pc' = "rest" /\ pc = "statefulset"
        /\ sts' \in Defaulted(desired)
    BY <1>5, Zenon DEF ApplyStatefulSet
  <2>2. Fits(sts')
    BY <1>d, <1>t, <2>1, MatchesDefaulted, Zenon DEF VolumeInv, Fits
  <2> QED  BY <1>u, <2>1, <2>2, Zenon
<1>6. CASE ApplyStatefulSetFails
  <2>1. /\ UNCHANGED <<spec, seen>> /\ copy' = spec /\ pc' = "idle" /\ pc = "statefulset"
        /\ sts' \in {sts} \cup Defaulted(desired) /\ ready' \in {ready, report} /\ report' = "unset"
    BY <1>6, Zenon DEF ApplyStatefulSetFails, setErrorAndRequeue, Return
  <2>2. ASSUME sts' \in Defaulted(desired) PROVE Fits(sts')
    BY <1>d, <1>t, <2>1, <2>2, MatchesDefaulted, Zenon DEF VolumeInv, Fits
  <2> QED  BY <1>u, <2>1, <2>2, Zenon
<1>7. CASE validateExternalPostgreSQLSecret
  <2>1. /\ UNCHANGED <<spec, sts, seen>> /\ copy' = spec /\ pc' # "statefulset"
        /\ spec.s.type = "PostgreSQL"
    BY <1>7, <1>u, Zenon DEF validateExternalPostgreSQLSecret, setErrorAndRequeue, Return, live, PassInv
  <2> QED  BY <1>u, <2>1, Zenon
<1>8. CASE Finish \/ FinishFails \/ ApplySecretFails
  <2>1. /\ UNCHANGED <<spec, seen>> /\ copy' = spec /\ pc' = "idle" /\ sts' \in {sts, NoSts}
        /\ ready' \in {ready, report} /\ report' = "unset"
    BY <1>8, TakenAway, Zenon DEF Finish, FinishFails, ApplySecretFails, setErrorAndRequeue, Return
  <2> QED  BY <1>u, <1>n, <2>1, Zenon
<1>9. CASE Observe
  <2>1. UNCHANGED <<spec, copy, sts, pc, desired, ready, report>>
    BY <1>9, Zenon DEF Observe, live, pass
  <2>2. seen'.sts \in {seen.sts, sts}
    BY <1>9 DEF Observe, Current, VolumeInv
  <2> QED  BY <1>u, <1>d, <2>1, <2>2, Zenon
<1>10. CASE Restart
  <2>1. /\ UNCHANGED <<spec, sts, ready>> /\ copy' = spec /\ seen'.sts = sts /\ pc' = "idle"
        /\ report' = "unset"
    BY <1>10, Zenon DEF Restart, Return, live, Current
  <2> QED  BY <1>u, <2>1, Zenon
<1> QED
  BY <1>0, <1>1, <1>2, <1>3, <1>4, <1>5, <1>6, <1>7, <1>8, <1>9, <1>10, Zenon DEF Next, Reconcile

(* SQLite reports nothing until the type has been changed.                 *)
SQLiteInv ==
  budgets.switches = 0 =>
    /\ pc # "idle" => copy.s.type = spec.s.type
    /\ spec.s.type = "SQLite" => ready = "unset" /\ (pc # "idle" => report = "unset")

LEMMA SQLiteStep ==
  ASSUME VolumeInv, PassInv, SQLiteInv, [Next]_vars
  PROVE  SQLiteInv'
<1> SUFFICES ASSUME budgets'.switches = 0 PROVE SQLiteInv'
  BY Zenon DEF SQLiteInv
<1>1. Grows(budgets, budgets') /\ budgets \in Tally
  BY BudgetsGrow, Zenon DEF PassInv
<1>2. budgets.switches = 0 /\ ~Spend("switches", MaxSwitches)
  <2>1. budgets.switches \in Nat /\ budgets'.switches >= budgets.switches
    BY <1>1, Zenon DEF Grows, Tally
  <2>2. budgets.switches = 0
    BY <2>1
  <2>3. Spend("switches", MaxSwitches) => budgets'.switches = budgets.switches + 1
    BY <1>1, CountsUp, Zenon DEF Spend
  <2> QED  BY <2>2, <2>3
<1>3. /\ pc # "idle" => copy.s.type = spec.s.type
      /\ spec.s.type = "SQLite" => ready = "unset" /\ (pc # "idle" => report = "unset")
  BY <1>2, Zenon DEF SQLiteInv
<1> USE DEF SQLiteInv
<1>4. CASE \/ StartDatabase \/ StopDatabase \/ Observe \/ EditConnection \/ UNCHANGED vars
  <2>1. UNCHANGED <<spec, copy, pc, ready, report>>
    BY <1>4, Zenon DEF StartDatabase, StopDatabase, Observe, EditConnection, vars, pass
  <2> QED  BY <1>3, <2>1, Zenon
<1>5. CASE Edit
  <2>1. spec'.s.type = spec.s.type
    <3>1. PICK s \in Specs : /\ s.type = spec.s.type
                             /\ spec' = [s |-> s, generation |-> spec.generation + 1]
      BY <1>2, <1>5, Zenon DEF Edit
    <3> QED  BY <3>1, Zenon
  <2>2. UNCHANGED <<copy, pc, ready, report>>
    BY <1>5, Zenon DEF Edit, pass
  <2> QED  BY <1>3, <2>1, <2>2, Zenon
<1>6. CASE Recreate
  BY <1>6, Zenon DEF Recreate, Return
<1>7. CASE Restart
  BY <1>3, <1>7, Zenon DEF Restart, Return
<1>8. CASE Begin
  BY <1>3, <1>8, Zenon DEF Begin
<1>9. CASE Finish \/ FinishFails
  <2>1. pc # "idle" /\ pc' = "idle" /\ ready' \in {ready, report} /\ UNCHANGED spec
    BY <1>9, Zenon DEF Finish, FinishFails, setErrorAndRequeue, Return
  <2> QED  BY <1>3, <2>1, Zenon
<1>10. CASE \/ getOrGeneratePostgresPassword \/ ApplySecret \/ ApplySecretFails
            \/ preservePostgreSQLVolumeClaimTemplates \/ ApplyStatefulSet \/ ApplyStatefulSetFails
            \/ validateExternalPostgreSQLSecret
  <2>1. pc \in {"validate"} \cup InClusterSteps /\ UNCHANGED spec /\ (copy' = copy \/ pc' = "idle")
    BY <1>10, Zenon DEF getOrGeneratePostgresPassword, ApplySecret, ApplySecretFails, InClusterSteps,
         preservePostgreSQLVolumeClaimTemplates, ApplyStatefulSet, ApplyStatefulSetFails,
         validateExternalPostgreSQLSecret, setErrorAndRequeue, Return
  <2>2. spec.s.type = copy.s.type /\ spec.s.type # "SQLite"
    BY <1>3, <2>1, Zenon DEF PassInv, InClusterSteps
  <2> QED  BY <2>1, <2>2, Zenon
<1> QED
  BY <1>4, <1>5, <1>6, <1>7, <1>8, <1>9, <1>10, Zenon DEF Next, Reconcile

(* StorageReady of a shard whose controller has nothing left to do tells   *)
(* whether the StatefulSet has the claims of the spec, and whether the     *)
(* connection secret is usable; nothing of a backend that is not asked for *)
(* is left unless the clean-up failed, SQLite has nothing to report until  *)
(* the type changes, and defaulting by the API server is never taken for   *)
(* an edit.                                                                *)
THEOREM ReportHolds == Spec => []ReadyIsCurrent
<1>1. Init => ReportInv /\ UneditedInv /\ SQLiteInv
  BY NoStsIsSound DEF Init, ReportInv, UneditedInv, SQLiteInv
<1>2. /\ VolumeInv /\ PassInv /\ ReportInv /\ UneditedInv /\ SQLiteInv /\ [Next]_vars
      => ReportInv' /\ UneditedInv' /\ SQLiteInv'
  BY ReportStep, UneditedStep, SQLiteStep, Zenon
<1>3. VolumeInv /\ ReportInv /\ UneditedInv /\ SQLiteInv => ReadyIsCurrent
  <2> SUFFICES ASSUME VolumeInv, ReportInv, UneditedInv, SQLiteInv, Quiet
               PROVE  /\ spec.s.type = "InClusterPostgreSQL" =>
                           credentials # 0 /\ sts.there /\ ready = Verdict(sts.claims)
                      /\ spec.s.type = "PostgreSQL" => Usable /\ ready = "True"
                      /\ spec.s.type = "SQLite" /\ budgets.switches = 0 => ready = "unset"
                      /\ spec.s.type # "InClusterPostgreSQL" /\ ~skipped =>
                           credentials = 0 /\ ~sts.there
                      /\ Unedited => ready # "False"
    BY Zenon DEF ReadyIsCurrent, Verdict, Usable, Unedited
  <2>1. seen.sts = sts
    BY Zenon DEF Quiet, Current
  <2> QED  BY <2>1, Zenon DEF Quiet, ReportInv, UneditedInv, SQLiteInv
<1> QED  BY <1>1, <1>2, <1>3, VolumeAlways, PassAlways, PTL DEF Spec
=============================================================================
