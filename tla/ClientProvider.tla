---------------------------- MODULE ClientProvider ----------------------------
(***************************************************************************)
(* The cache of clients for secondary API servers.  The three controllers  *)
(* share one ClientProvider and run concurrently.  BuildClient reads the   *)
(* two Secrets of a connection one after the other and calls GetOrCreate,  *)
(* which looks the key up under the read lock, and again under the write   *)
(* lock before it stores a new client.  A caller whose requests failed may *)
(* call Invalidate.                                                        *)
(*                                                                         *)
(* Callers with the same key are a NamespaceSync and a WebhookSync of the  *)
(* same namespace and name, or a shard and the "-verify" client of         *)
(* another one.                                                            *)
(***************************************************************************)
EXTENDS Naturals

CONSTANTS
  Callers,      \* controllers, each with one worker
  Keys,         \* cache keys
  KeyOf,        \* the key each caller uses
  Hosts,        \* endpoints
  None,         \* no entry in the map, no holder of the lock
  MaxVersion,   \* bound: versions of a credential; version 0 is a missing one
  MaxRotations, \* bound: changes of connections and their Secrets
  MaxDrops      \* bound: calls of Invalidate

ASSUME KeysAssumption == KeyOf \in [Callers -> Keys]
ASSUME NoneAssumption == None \notin Callers

VARIABLES
  conn,         \* every caller's host and the two Secrets it refers to
  clients,      \* the map
  readers, writer,  \* holders of mu
  pc,           \* where every caller is
  cfg,          \* the ClientConfig it has read
  got,          \* the client it was given
  epoch,        \* calls of Invalidate of every key that have returned
  mark,         \* epoch of the key when the caller's call began
  rotations, drops

vars == <<conn, clients, readers, writer, pc, cfg, got, epoch, mark, rotations, drops>>
lock == <<readers, writer>>
caller == <<pc, cfg, got, mark>>

-----------------------------------------------------------------------------
Versions == 0..MaxVersion
CASecrets == [ca: Versions, tls: Versions]
AuthSecrets == [pair: Versions, token: Versions]
Configs == [host: Hosts, ca: Versions, pair: Versions, token: Versions]

(* ca.crt, or else tls.crt, of the CA Secret; 0 if it has neither.         *)
CACert(secret) == IF secret.ca # 0 THEN secret.ca ELSE secret.tls

(* A client certificate with its key, or else a bearer token.              *)
ClientConfig(host, ca, auth) ==
  [host |-> host, ca |-> ca, pair |-> auth.pair,
   token |-> IF auth.pair # 0 THEN 0 ELSE auth.token]

(* Variant: the token is not part of the hash.                             *)
FingerprintCerts(config) == <<config.ca, config.pair>>

(* The hash of all credentials.                                            *)
Fingerprint(config) == <<config.ca, config.pair, config.token>>

(* What the client sends: a token wins over a certificate.                 *)
BuildRESTConfig(config) ==
  [host |-> config.host, ca |-> config.ca, token |-> config.token,
   pair |-> IF config.token # 0 THEN 0 ELSE config.pair]

Matches(entry, config) ==
  entry # None /\ entry.host = config.host /\ entry.fingerprint = Fingerprint(config)

Init ==
  /\ conn \in [Callers -> [host: Hosts, caSecret: {[ca |-> 1, tls |-> 0], [ca |-> 0, tls |-> 1]},
                           auth: {[pair |-> 1, token |-> 0], [pair |-> 0, token |-> 1]}]]
  /\ clients = [k \in Keys |-> None]
  /\ readers = {} /\ writer = None
  /\ pc = [c \in Callers |-> "idle"]
  /\ cfg = [c \in Callers |-> None] /\ got = [c \in Callers |-> None]
  /\ epoch = [k \in Keys |-> 0] /\ mark = [c \in Callers |-> 0]
  /\ rotations = 0 /\ drops = 0

-----------------------------------------------------------------------------
(* Someone edits the connection or one of its Secrets (external).          *)
Rotate(c) ==
  /\ rotations < MaxRotations
  /\ \/ \E h \in Hosts : conn' = [conn EXCEPT ![c].host = h]
     \/ \E v \in Versions : conn' = [conn EXCEPT ![c].caSecret.ca = v]
     \/ \E v \in Versions : conn' = [conn EXCEPT ![c].auth.pair = v]
     \/ \E v \in Versions : conn' = [conn EXCEPT ![c].auth.token = v]
  /\ conn' # conn
  /\ rotations' = rotations + 1
  /\ UNCHANGED <<clients, lock, caller, epoch, drops>>

Goto(c, label) == pc' = [pc EXCEPT ![c] = label]

(* BuildClient: the CA Secret has no certificate, and that is all.         *)
ReadCAMissing(c) ==
  /\ pc[c] = "idle" /\ CACert(conn[c].caSecret) = 0
  /\ UNCHANGED vars

(* BuildClient: the CA Secret is read.                                     *)
ReadCA(c) ==
  /\ pc[c] = "idle"
  /\ CACert(conn[c].caSecret) # 0
  /\ cfg' = [cfg EXCEPT ![c] = CACert(conn[c].caSecret)]
  /\ mark' = [mark EXCEPT ![c] = epoch[KeyOf[c]]]
  /\ Goto(c, "auth")
  /\ UNCHANGED <<conn, clients, lock, got, epoch, rotations, drops>>

(* Then the auth Secret, which may be of another generation.               *)
ReadAuth(c) ==
  LET config == ClientConfig(conn[c].host, cfg[c], conn[c].auth)
      usable == config.pair # 0 \/ config.token # 0
  IN  /\ pc[c] = "auth"
      /\ cfg' = [cfg EXCEPT ![c] = IF usable THEN config ELSE None]
      /\ mark' = IF usable THEN mark ELSE [mark EXCEPT ![c] = 0]
      /\ Goto(c, IF usable THEN "lookup" ELSE "idle")
      /\ UNCHANGED <<conn, clients, lock, got, epoch, rotations, drops>>

(* GetOrCreate: the first look, under the read lock.                       *)
RLock(c) ==
  /\ pc[c] = "lookup" /\ writer = None
  /\ readers' = readers \cup {c}
  /\ Goto(c, "reading")
  /\ UNCHANGED <<conn, clients, writer, cfg, got, epoch, mark, rotations, drops>>

RUnlock(c) ==
  LET entry == clients[KeyOf[c]]
      hit == Matches(entry, cfg[c])
  IN  /\ pc[c] = "reading"
      /\ readers' = readers \ {c}
      /\ got' = [got EXCEPT ![c] = IF hit THEN entry ELSE None]
      /\ Goto(c, IF hit THEN "use" ELSE "lock")
      /\ UNCHANGED <<conn, clients, writer, cfg, epoch, mark, rotations, drops>>

Lock(c) ==
  /\ pc[c] \in {"lock", "drop"} /\ readers = {} /\ writer = None
  /\ writer' = c
  /\ Goto(c, IF pc[c] = "lock" THEN "creating" ELSE "dropping")
  /\ UNCHANGED <<conn, clients, readers, cfg, got, epoch, mark, rotations, drops>>

NewEntry(c) ==
  [host |-> cfg[c].host, fingerprint |-> Fingerprint(cfg[c]),
   rest |-> BuildRESTConfig(cfg[c]), epoch |-> epoch[KeyOf[c]]]

(* The second look, under the write lock, and the store.                   *)
Create(c) ==
  LET entry == clients[KeyOf[c]]
      new == IF Matches(entry, cfg[c]) THEN entry ELSE NewEntry(c)
  IN  /\ pc[c] = "creating" /\ writer' = None
      /\ clients' = [clients EXCEPT ![KeyOf[c]] = new]
      /\ got' = [got EXCEPT ![c] = new]
      /\ Goto(c, "use")
      /\ UNCHANGED <<conn, readers, cfg, epoch, mark, rotations, drops>>

(* client.New failed; the deferred Unlock runs, nothing is stored.         *)
CreateFailed(c) ==
  /\ pc[c] = "creating" /\ ~Matches(clients[KeyOf[c]], cfg[c]) /\ writer' = None
  /\ cfg' = [cfg EXCEPT ![c] = None] /\ mark' = [mark EXCEPT ![c] = 0]
  /\ Goto(c, "idle")
  /\ UNCHANGED <<conn, clients, readers, got, epoch, rotations, drops>>

(* The caller is done with its client, or its requests failed and it gives *)
(* the client up.                                                          *)
Release(c) ==
  /\ pc[c] = "use"
  /\ cfg' = [cfg EXCEPT ![c] = None] /\ got' = [got EXCEPT ![c] = None]
  /\ mark' = [mark EXCEPT ![c] = 0]
  /\ \/ Goto(c, "idle") /\ UNCHANGED drops
     \/ drops < MaxDrops /\ drops' = drops + 1 /\ Goto(c, "drop")
  /\ UNCHANGED <<conn, clients, lock, epoch, rotations>>

(* Variant: the entry is deleted without taking the lock.                  *)
InvalidateUnlocked(c) ==
  /\ pc[c] \in {"drop", "dropping"} /\ writer' = IF writer = c THEN None ELSE writer
  /\ clients' = [clients EXCEPT ![KeyOf[c]] = None]
  /\ epoch' = [epoch EXCEPT ![KeyOf[c]] = @ + 1]
  /\ Goto(c, IF pc[c] = "drop" THEN "dropping" ELSE "idle")
  /\ UNCHANGED <<conn, readers, cfg, got, mark, rotations, drops>>

(* Variant: the entry is kept and only closed.                             *)
InvalidateKept(c) ==
  /\ pc[c] = "dropping" /\ writer' = None
  /\ epoch' = [epoch EXCEPT ![KeyOf[c]] = @ + 1]
  /\ Goto(c, "idle")
  /\ UNCHANGED <<conn, clients, readers, cfg, got, mark, rotations, drops>>

Invalidate(c) ==
  /\ pc[c] = "dropping" /\ writer' = None
  /\ clients' = [clients EXCEPT ![KeyOf[c]] = None]
  /\ epoch' = [epoch EXCEPT ![KeyOf[c]] = @ + 1]
  /\ Goto(c, "idle")
  /\ UNCHANGED <<conn, readers, cfg, got, mark, rotations, drops>>

-----------------------------------------------------------------------------
Next ==
  \E c \in Callers :
    \/ Rotate(c) \/ ReadCAMissing(c) \/ ReadCA(c) \/ ReadAuth(c)
    \/ RLock(c) \/ RUnlock(c) \/ Lock(c) \/ Create(c) \/ CreateFailed(c)
    \/ Release(c) \/ Invalidate(c)

Spec == Init /\ [][Next]_vars
-----------------------------------------------------------------------------
(* Properties.                                                             *)

Entries == [host: Hosts, fingerprint: Versions \X Versions \X Versions,
            rest: Configs, epoch: Nat]

(* A configuration with a CA and a credential.                             *)
Complete == {config \in Configs : config.ca # 0 /\ (config.pair # 0 \/ config.token # 0)}

(* Every variable keeps the shape the ClientProvider's code gives it: with *)
(* incomplete Secrets no configuration gets as far as the cache.           *)
TypeOK ==
  /\ conn \in [Callers -> [host: Hosts, caSecret: CASecrets, auth: AuthSecrets]]
  /\ clients \in [Keys -> Entries \cup {None}]
  /\ readers \in SUBSET Callers /\ writer \in Callers \cup {None}
  /\ pc \in [Callers -> {"idle", "auth", "lookup", "reading", "lock", "creating", "use",
                         "drop", "dropping"}]
  /\ got \in [Callers -> Entries \cup {None}]
  /\ epoch \in [Keys -> Nat] /\ mark \in [Callers -> Nat]
  /\ \A c \in Callers :
       CASE pc[c] = "auth" -> cfg[c] \in Versions \ {0}
         [] pc[c] \in {"lookup", "reading", "lock", "creating", "use"} -> cfg[c] \in Complete
         [] OTHER -> cfg[c] = None

(* The map is never written while another goroutine reads or writes it     *)
(* (which Go answers with a fatal error).                                  *)
NoMapRace ==
  \A c, d \in Callers :
    pc[c] \in {"creating", "dropping"} /\ pc[d] \in {"reading", "creating", "dropping"} => c = d

(* A caller is given a client for the endpoint and with exactly the        *)
(* credentials it has read itself, the certificate when there is one, even *)
(* when others use the same key for other connections and whatever has     *)
(* been rotated in between.                                                *)
GivenAsAsked ==
  \A c \in Callers :
    pc[c] = "use" =>
      /\ got[c].rest = BuildRESTConfig(cfg[c])
      /\ cfg[c].pair # 0 => got[c].rest.pair = cfg[c].pair

(* Invalidate is "forcing re-creation on next access": a caller is never   *)
(* given a client that was created before an Invalidate of its key that    *)
(* had returned when its call began, also when several callers replace and *)
(* invalidate the entry concurrently.                                      *)
InvalidatedIsGone ==
  \A c \in Callers : pc[c] = "use" => got[c].epoch >= mark[c]
=============================================================================
