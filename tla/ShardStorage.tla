---------------------------- MODULE ShardStorage ----------------------------
(***************************************************************************)
(* The storage backend of a shard as reconcileStorage keeps it: the        *)
(* password of the in-cluster PostgreSQL, the volume claim templates of    *)
(* its StatefulSet, which Kubernetes does not let anybody change, the      *)
(* user's connection secret, and the StorageReady condition that reports   *)
(* on them.  Around it the user edits and recreates the shard, pods of the *)
(* database come and go with or without their data, and the operator       *)
(* reads the StatefulSet and the credentials from a cache.                 *)
(*                                                                         *)
(* A password is a number, 0 for none; a new one is not in use anywhere.   *)
(***************************************************************************)
EXTENDS Naturals, Sequences

CONSTANTS
  Specs,          \* storage specs to choose from: [type, ref (is there one), persistence]
  Connections,    \* states of the connection secret: absent, noKey, valid
  StaleReads,     \* which reads may lag or fail: of the credentials, of the sts
  MaxEdits,       \* bound: edits of the shard or its connection secret
  MaxSwitches,    \* bound: edits that change the type of the storage
  MaxTroubles     \* bound: failed requests, restarts of the operator and of the
                  \* database pod, deletions and recreations of the shard, together

ASSUME BoundsAssumption ==
  /\ MaxEdits \in Nat /\ MaxSwitches \in Nat /\ MaxTroubles \in Nat
  /\ StaleReads \subseteq {"credentials", "sts"}

(* A claim template list, as it can be in a spec or in a StatefulSet.      *)
dataVolumeName == "data"
Templates(c) ==
  \/ c = <<>>
  \/ c = <<c[1]>> /\ c[1] = [name |-> dataVolumeName, size |-> c[1].size, class |-> c[1].class]
ASSUME SpecsAssumption == \A s \in Specs :
  Templates(s.persistence) /\ s.type \in {"InClusterPostgreSQL", "PostgreSQL", "SQLite"}

VARIABLES
  spec,         \* spec.storage, and the generation it belongs to
  connection,   \* the user's connection secret
  credentials,  \* the password in the credentials Secret, 0 without the Secret
  sts,          \* the live StatefulSet
  seen,         \* the operator's cache: credentials and sts
  ready,        \* the stored StorageReady condition
  up,           \* the database runs
  disk,         \* the password of the data on the persistent volume, 0 if empty
  scratch,      \* the password of the data in the emptyDir, 0 if empty
  queued,
  pc,           \* the next step of the running pass, "idle" if none runs
  copy,         \* the spec this pass works on
  password,     \* the password this pass uses
  desired,      \* the StatefulSet this pass applies
  report,       \* this pass's StorageReady condition
  late,         \* history: the reads that were not current in some pass
  skipped,      \* history: the last clean-up to be reported on has failed
  budgets

live == <<credentials, sts>>
database == <<up, disk, scratch>>
pass == <<pc, copy, password, desired, report>>
vars == <<spec, connection, live, seen, ready, database, queued, pass, late, skipped, budgets>>
-----------------------------------------------------------------------------
(* A StatefulSet keeps its claim templates and the emptyDirs of its pods.  *)
(* A claim template is named for the volume it provides; class "unset" is  *)
(* a nil storageClassName, class "" an empty one.                          *)
NoSts == [there |-> FALSE, claims |-> <<>>, emptyDirs |-> {}]

BuildPostgreSQLStatefulSet(s) ==
  [there |-> TRUE, claims |-> s.persistence,
   emptyDirs |-> {"tmp"} \cup (IF s.persistence = <<>> THEN {dataVolumeName} ELSE {})]

(* Variant: classes are compared as they are.                              *)
storageClassNamesMatchExactly(requested, found) == requested = found
storageClassNamesMatch(requested, found) ==
  IF requested = "unset" THEN found # "" ELSE requested = found

VolumeClaimTemplatesMatch(requested, found) ==
  /\ Len(requested) = Len(found)
  /\ \A i \in 1..Len(requested) :
       /\ requested[i].name = found[i].name
       /\ requested[i].size = found[i].size
       /\ storageClassNamesMatch(requested[i].class, found[i].class)

(* Variant: the volumes of the pods stay as the spec has them.             *)
AlignPostgreSQLVolumeClaimsOnly(new, old) == [new EXCEPT !.claims = old.claims]
AlignPostgreSQLVolumeClaims(new, old) ==
  LET names == {old.claims[i].name : i \in 1..Len(old.claims)}
  IN  [new EXCEPT !.claims = old.claims,
                  !.emptyDirs = IF names # {} THEN @ \ names ELSE @ \cup old.emptyDirs]

(* The API server (external): claim templates of a StatefulSet that is     *)
(* there are immutable, and a nil class of a new one may be defaulted.     *)
Accepted(new) == sts.there => new.claims = sts.claims
Defaulted(new) ==
  {[new EXCEPT !.claims = [i \in 1..Len(new.claims) |->
      IF new.claims[i].class = "unset" THEN [new.claims[i] EXCEPT !.class = class]
                                       ELSE new.claims[i]]] :
     class \in IF sts.there THEN {"unset"} ELSE {"unset", "standard"}}
-----------------------------------------------------------------------------
Counters == [edits: 0..MaxEdits, switches: 0..MaxSwitches, mishaps: 0..MaxTroubles,
             recreations: 0..MaxTroubles]
Spend(budget, max) ==
  /\ budgets[budget] < max
  /\ budgets' = [budgets EXCEPT ![budget] = @ + 1]
Trouble(kind) ==
  /\ budgets.mishaps + budgets.recreations < MaxTroubles
  /\ budgets' = [budgets EXCEPT ![kind] = @ + 1]

Init ==
  /\ \E s \in Specs : spec = [s |-> s, generation |-> 0]
  /\ connection \in Connections
  /\ credentials = 0 /\ sts = NoSts /\ seen = [credentials |-> 0, sts |-> NoSts]
  /\ ready = "unset" /\ up = FALSE /\ disk = 0 /\ scratch = 0
  /\ queued = TRUE
  /\ pc = "idle" /\ copy = spec /\ password = 0 /\ desired = NoSts /\ report = "unset"
  /\ late = {} /\ skipped = FALSE
  /\ budgets = [edits |-> 0, switches |-> 0, mishaps |-> 0, recreations |-> 0]

(* The pass returns, and its local variables are gone.                     *)
Return ==
  /\ pc' = "idle" /\ copy' = spec /\ password' = 0 /\ desired' = NoSts /\ report' = "unset"

(* The user.                                                               *)
Edit ==
  /\ \E s \in Specs \ {spec.s} :
       /\ \/ s.type = spec.s.type /\ Spend("edits", MaxEdits)
          \/ s.type # spec.s.type /\ Spend("switches", MaxSwitches)
       /\ spec' = [s |-> s, generation |-> spec.generation + 1]
  /\ queued' = TRUE
  /\ UNCHANGED <<late, skipped, connection, live, seen, ready, database, pass>>
EditConnection ==
  /\ Spend("edits", MaxEdits)
  /\ connection' \in Connections \ {connection}
  /\ queued' = (queued \/ (spec.s.type = "PostgreSQL" /\ spec.s.ref))
  /\ UNCHANGED <<late, skipped, spec, live, seen, ready, database, pass>>

(* Deleting a StatefulSet deletes its pods, and with them their emptyDirs; *)
(* the persistent volume claims are kept.                                  *)
RemoveSts ==
  /\ sts' = NoSts /\ up' = FALSE /\ scratch' = 0
  /\ UNCHANGED disk
Recreate ==
  /\ Trouble("recreations")
  /\ \E s \in Specs : spec' = [s |-> s, generation |-> spec.generation + 1]
  /\ credentials' = 0 /\ RemoveSts
  /\ ready' = "unset" /\ queued' = TRUE
  /\ Return
  /\ UNCHANGED <<late, skipped, connection, seen>>

(* The database (external) takes the password of an empty data directory   *)
(* from the credentials, and afterwards has it in its data.                *)
StartDatabase ==
  /\ sts.there /\ ~up /\ credentials # 0
  /\ up' = TRUE
  /\ IF dataVolumeName \in sts.emptyDirs
       THEN scratch' = credentials /\ UNCHANGED disk
       ELSE disk' = (IF disk = 0 THEN credentials ELSE disk) /\ UNCHANGED scratch
  /\ queued' = TRUE
  /\ UNCHANGED <<late, skipped, spec, connection, live, seen, ready, pass, budgets>>
StopDatabase ==
  /\ Trouble("mishaps")
  /\ up /\ up' = FALSE /\ scratch' = 0
  /\ queued' = TRUE
  /\ UNCHANGED <<late, skipped, spec, connection, live, seen, ready, disk, pass>>
InUse == IF dataVolumeName \in sts.emptyDirs THEN scratch ELSE disk

(* The informers catch up; the owned objects are watched.                  *)
Current == [credentials |-> credentials, sts |-> sts]
Observe ==
  /\ \E x \in {"credentials", "sts"} :
       /\ seen[x] # Current[x]
       /\ seen' = [seen EXCEPT ![x] = Current[x]]
  /\ queued' = TRUE
  /\ UNCHANGED <<late, skipped, spec, connection, live, ready, database, pass, budgets>>
Cached == [x \in {"credentials", "sts"} |-> IF x \in StaleReads THEN seen[x] ELSE Current[x]]
LateRead(x) == IF Cached[x] = Current[x] THEN {} ELSE {x}

(* The caches are filled before the first pass.                            *)
Restart ==
  /\ Trouble("mishaps")
  /\ Return /\ queued' = TRUE
  /\ seen' = Current
  /\ UNCHANGED <<late, skipped, spec, connection, live, ready, database>>
-----------------------------------------------------------------------------
(* The pass.                                                               *)
Begin ==
  /\ pc = "idle" /\ queued
  /\ copy' = spec /\ report' = ready /\ queued' = FALSE
  /\ pc' = CASE spec.s.type = "InClusterPostgreSQL" -> "password"
             [] spec.s.type = "PostgreSQL" -> "validate"
             [] spec.s.type = "SQLite" -> "rest"
  /\ UNCHANGED <<late, skipped, spec, connection, live, seen, ready, database, password,
                 desired, budgets>>

(* The status is refused when the shard has changed since it was read.     *)
setErrorAndRequeue(condition) ==
  /\ ready' \in IF copy = spec THEN {ready, condition} ELSE {ready}
  /\ queued' = TRUE /\ Return

(* getOrGeneratePostgresPassword: whatever keeps it from reading one.      *)
GeneratePassword ==
  CHOOSE n \in 1..6 : n \notin {credentials, seen.credentials, disk, scratch, password}
(* Variant: a new password for every pass.                                 *)
getOrGeneratePostgresPasswordAnew ==
  /\ pc = "password"
  /\ password' = GeneratePassword
  /\ pc' = "secret"
  /\ UNCHANGED <<late, skipped, spec, connection, live, seen, ready, database, queued, copy,
                 desired, report, budgets>>
getOrGeneratePostgresPassword ==
  /\ pc = "password"
  /\ \/ /\ password' = IF Cached.credentials # 0 THEN Cached.credentials ELSE GeneratePassword
        /\ late' = late \cup LateRead("credentials")
        /\ UNCHANGED budgets
     \/ /\ Trouble("mishaps")
        /\ password' = GeneratePassword
        /\ late' = late \cup {"credentials"}
  /\ pc' = "secret"
  /\ UNCHANGED <<skipped, spec, connection, live, seen, ready, database, queued, copy,
                 desired, report>>

ApplySecret ==
  /\ pc = "secret"
  /\ credentials' = password
  /\ pc' = "preserve"
  /\ UNCHANGED <<late, skipped, spec, connection, sts, seen, ready, database, queued, copy,
                 password, desired, report, budgets>>
ApplySecretFails ==
  /\ pc = "secret" /\ Trouble("mishaps")
  /\ credentials' \in {credentials, password}
  /\ setErrorAndRequeue(report)
  /\ UNCHANGED <<late, skipped, spec, connection, sts, seen, database>>

(* Variant: the requested claim templates are applied where they differ.   *)
preservePostgreSQLVolumeClaimTemplatesReporting ==
  /\ pc = "preserve"
  /\ desired' = BuildPostgreSQLStatefulSet(copy.s)
  /\ report' = IF /\ Cached.sts.there
                  /\ ~VolumeClaimTemplatesMatch(copy.s.persistence, Cached.sts.claims)
                 THEN "False" ELSE "True"
  /\ pc' = "statefulset"
  /\ UNCHANGED <<late, skipped, spec, connection, live, seen, ready, database, queued, copy,
                 password, budgets>>
preservePostgreSQLVolumeClaimTemplates ==
  /\ pc = "preserve"
  /\ LET new == BuildPostgreSQLStatefulSet(copy.s)
         old == Cached.sts
     IN  /\ desired' = IF old.there THEN AlignPostgreSQLVolumeClaims(new, old) ELSE new
         /\ report' = IF old.there => VolumeClaimTemplatesMatch(new.claims, old.claims)
                        THEN "True" ELSE "False"
  /\ late' = late \cup LateRead("sts")
  /\ pc' = "statefulset"
  /\ UNCHANGED <<skipped, spec, connection, live, seen, ready, database, queued, copy,
                 password, budgets>>

ApplyStatefulSet ==
  /\ pc = "statefulset" /\ Accepted(desired)
  /\ sts' \in Defaulted(desired)
  /\ pc' = "rest"
  /\ UNCHANGED <<late, skipped, spec, connection, credentials, seen, ready, database,
                 queued, copy, password, desired, report, budgets>>
ApplyStatefulSetFails ==
  /\ pc = "statefulset"
  /\ \/ ~Accepted(desired) /\ UNCHANGED <<sts, budgets>>
     \/ /\ Trouble("mishaps") /\ Accepted(desired)
        /\ sts' \in {sts} \cup Defaulted(desired)
  /\ setErrorAndRequeue(report)
  /\ UNCHANGED <<late, skipped, spec, connection, credentials, seen, database>>

validateExternalPostgreSQLSecret ==
  /\ pc = "validate"
  /\ \/ /\ copy.s.ref /\ connection = "valid"
        /\ report' = "True" /\ pc' = "rest"
        /\ UNCHANGED <<ready, queued, copy, password, desired, budgets>>
     \/ /\ copy.s.ref => connection # "valid"
        /\ setErrorAndRequeue("False") /\ UNCHANGED budgets
     \/ /\ copy.s.ref /\ Trouble("mishaps")  \* the secret cannot be read
        /\ setErrorAndRequeue("False")
  /\ UNCHANGED <<late, skipped, spec, connection, live, seen, database>>

(* CleanupOrphans removes what the cache has of a backend the pass has not *)
(* applied; a failing one gets only so far.                                *)
Orphans ==
  {x \in {"credentials", "sts"} :
     /\ copy.s.type # "InClusterPostgreSQL"
     /\ x = "credentials" => Cached.credentials # 0
     /\ x = "sts" => Cached.sts.there}
CleanupOrphans(gone) ==
  /\ credentials' = IF "credentials" \in gone THEN 0 ELSE credentials
  /\ IF "sts" \in gone THEN RemoveSts ELSE UNCHANGED <<sts, database>>

(* The rest of the pass, with CleanupOrphans and the status.  That         *)
(* CleanupOrphans failed is only logged: the status is written as ever and *)
(* nothing brings the next pass.                                           *)
Finish ==
  /\ pc = "rest"
  /\ \/ /\ CleanupOrphans(Orphans)
        /\ skipped' = FALSE /\ UNCHANGED budgets
     \/ /\ Trouble("mishaps")
        /\ \E gone \in SUBSET Orphans : CleanupOrphans(gone)
        /\ skipped' = TRUE
  /\ ready' = IF copy = spec THEN report ELSE ready
  /\ queued' = (queued \/ copy # spec)
  /\ Return
  /\ UNCHANGED <<late, spec, connection, seen>>
(* A step before it fails, or the request that writes the status.          *)
FinishFails ==
  /\ pc = "rest" /\ Trouble("mishaps")
  /\ \E gone \in SUBSET Orphans : CleanupOrphans(gone)
  /\ setErrorAndRequeue(report)
  /\ UNCHANGED <<late, skipped, spec, connection, seen>>

Reconcile ==
  \/ Begin \/ getOrGeneratePostgresPassword
  \/ ApplySecret \/ ApplySecretFails
  \/ preservePostgreSQLVolumeClaimTemplates
  \/ ApplyStatefulSet \/ ApplyStatefulSetFails
  \/ validateExternalPostgreSQLSecret
  \/ Finish \/ FinishFails
Next ==
  \/ Reconcile \/ Observe \/ StartDatabase
  \/ Edit \/ EditConnection \/ Recreate \/ StopDatabase \/ Restart

Spec == Init /\ [][Next]_vars
FairSpec == Spec /\ WF_vars(Reconcile) /\ WF_vars(Observe) /\ WF_vars(StartDatabase)
-----------------------------------------------------------------------------
Statefulsets(claims) == [there: BOOLEAN, claims: claims, emptyDirs: SUBSET {"tmp", dataVolumeName}]
(* The variables keep to their types; claim templates are those of a spec, *)
(* up to a defaulted class.                                                *)
TypeOK ==
  LET claims == {s.persistence : s \in Specs} \cup {<<>>}
      stored == claims \cup {[i \in 1..Len(c) |-> [c[i] EXCEPT !.class = "standard"]] : c \in claims}
  IN  /\ spec.s \in Specs /\ copy.s \in Specs /\ connection \in Connections
      /\ {credentials, seen.credentials, password, disk, scratch} \subseteq 0..6
      /\ {sts, seen.sts, desired} \subseteq Statefulsets(stored)
      /\ {ready, report} \subseteq {"unset", "True", "False"}
      /\ {up, queued, skipped} \subseteq BOOLEAN
      /\ pc \in {"idle", "password", "secret", "preserve", "statefulset", "validate", "rest"}
      /\ up => sts.there
      /\ late \subseteq {"credentials", "sts"}
      /\ budgets \in Counters

(* The database opens with the credentials that are in their Secret, and   *)
(* so for Kine, whatever passes, restarts and edits do to the Secret and   *)
(* to the StatefulSet, as long as the credentials are read as they are and *)
(* the shard is not recreated and keeps the type of its storage.           *)
OpensDatabase ==
  up /\ "credentials" \notin late /\ budgets.switches + budgets.recreations = 0
  => credentials = InUse

(* The comment in reconcileInClusterPostgreSQL: the live templates are     *)
(* kept "so a spec change cannot fail the apply and block the rest of      *)
(* reconcile", as long as the StatefulSet is read as it is.                *)
NeverRejected == pc = "statefulset" /\ "sts" \notin late => Accepted(desired)

(* The operator keeps the live values (README): while the StatefulSet is   *)
(* there its data stays where it is, on the volume or in the emptyDir, and *)
(* the data volume never gets a second source.                             *)
KeepsVolume ==
  [][sts'.there =>
       /\ sts.there => sts' = sts
       /\ (dataVolumeName \in sts'.emptyDirs) <=> (sts'.claims = <<>>)]_vars

(* With nothing left to do, StorageReady tells of the spec and the backend *)
(* as they are: whether the claim templates of the StatefulSet match the   *)
(* spec; an unusable connection secret leaves the controller busy, and     *)
(* SQLite has nothing to report as long as the type was never changed.     *)
(* Nothing is left of another backend unless the clean-up failed, which is *)
(* only logged.                                                            *)
(* API-server defaulting is not treated as a user change                   *)
(* (VolumeClaimTemplatesMatch): a shard that nobody has edited is never    *)
(* reported as not ready for its claim templates.                          *)
Quiet == pc = "idle" /\ ~queued /\ seen = Current
ReadyIsCurrent ==
  Quiet =>
    /\ spec.s.type = "InClusterPostgreSQL" =>
         /\ credentials # 0 /\ sts.there
         /\ ready = IF VolumeClaimTemplatesMatch(spec.s.persistence, sts.claims)
                      THEN "True" ELSE "False"
    /\ spec.s.type = "PostgreSQL" => spec.s.ref /\ connection = "valid" /\ ready = "True"
    /\ spec.s.type = "SQLite" /\ budgets.switches = 0 => ready = "unset"
    /\ spec.s.type # "InClusterPostgreSQL" /\ ~skipped => credentials = 0 /\ ~sts.there
    /\ budgets.edits + budgets.switches + budgets.recreations = 0 => ready # "False"

(* The controller ends with nothing to do, or waits for the user's secret, *)
(* also when it read the StatefulSet too early.  Passes that each read the *)
(* password before the last one may go on replacing it.                    *)
Settles ==
  \/ <>("credentials" \in late)
  \/ <>[]Quiet
  \/ <>[](spec.s.type = "PostgreSQL" /\ ~(spec.s.ref /\ connection = "valid"))

(* An existing password is used again by every pass, as long as the        *)
(* credentials are read as they are: getOrGeneratePostgresPassword and the *)
(* apply that follows it agree.                                            *)
PasswordKept ==
  [][credentials # 0 /\ credentials' # 0 /\ "credentials" \notin late
     => credentials' = credentials]_vars

(* The comment in reconcileInClusterPostgreSQL: "If the credentials Secret *)
(* already exists, the existing password is reused".                       *)
ExistingPasswordReused ==
  [][credentials # 0 /\ credentials' # 0 => credentials' = credentials]_vars

(* The README on a volume that cannot be changed: "recreate the shard".    *)
(* The database then opens with the credentials of the new shard.          *)
OpensKeptVolume ==
  up /\ "credentials" \notin late /\ budgets.switches = 0 => credentials = InUse

(* The README: "StorageReady reports whether the configured backend is     *)
(* usable".  SQLite needs nothing and always is.                           *)
ReadyMeansUsable == Quiet /\ spec.s.type = "SQLite" => ready # "False"
=============================================================================
