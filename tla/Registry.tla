------------------------------ MODULE Registry ------------------------------
(***************************************************************************)
(* What the relay keeps about devices: signed device records with their    *)
(* (mailbox, device) bindings, and the pool of one-time prekey bundles     *)
(* that first-contact senders claim.  Requests run concurrently; each is   *)
(* one db.Update callback of storage/repository/device_record_repo.go,     *)
(* device_limit.go or signal_prekey_bundle_v2.go, retried while Badger     *)
(* reports a conflict.  Requests that fail validation change nothing and   *)
(* are not steps.                                                          *)
(***************************************************************************)
EXTENDS Integers, FiniteSets

CONSTANTS
    Proc,           \* request handlers running at the same time
    NoTxn,          \* no open transaction
    Identity,
    Device,
    PubKey,         \* device public keys
    DeviceRecord,   \* the device records clients publish
    Publication,    \* the bundles clients publish
    BundleId,       \* bundle ids; numbers, so that key order is <
    OneTimeKey,     \* one-time prekey ids, each under one Signal identity key
    PublicKey,      \* one-time prekey public halves
    ClaimId,
    LegacyDevice,   \* device records older than the bindings
    MaxDevices,     \* MaxDevicesPerIdentity
    Retries,        \* how often a conflicting transaction is run
    MaxTime,        \* bound: clock ticks of the model
    Absent          \* no value, no device selector

PublicationType ==
    [id: BundleId, identity: Identity, device: Device, pubkey: PubKey,
     otk: OneTimeKey, public: PublicKey, created: Nat, expires: Nat]

\* What is stored under a bundle's key and under a claim's.
StoredBundle == [publication: Publication, claimed: BOOLEAN]
StoredClaim ==
    [identity: Identity, device: Device \cup {Absent}, publication: Publication]

ASSUME RegistryAssumption ==
    /\ DeviceRecord \subseteq [identity: Identity, device: Device, pubkey: PubKey]
    /\ Publication \subseteq PublicationType
    /\ BundleId \subseteq Nat
    /\ LegacyDevice \subseteq [identity: Identity, device: Device, pubkey: PubKey]
    /\ MaxDevices \in Nat \ {0}
    /\ Retries \in Nat \ {0}
    /\ MaxTime \in Nat

ASSUME AbsentAssumption ==
    /\ Absent \notin Device /\ Absent \notin PubKey /\ Absent \notin Identity
    /\ Absent \notin BundleId /\ Absent \notin Publication
    /\ Absent \notin StoredBundle /\ Absent \notin StoredClaim

VARIABLES db, snap, dirty,
    now,      \* the clock
    req,      \* the request each handler works on
    pc,       \* "idle", "begin" or "commit"
    tries,    \* attempts the handler's transaction has left
    handed    \* the claims answered with a bundle, as <<claim id, bundle>>

INSTANCE BadgerTxn

vars == <<db, snap, dirty, now, req, pc, tries, handed>>

NoRequest == [kind |-> "none"]

-----------------------------------------------------------------------------
(* Keys.                                                                   *)

deviceRecordKey(i, d) == <<"device_record", i, d>>
deviceMailboxBindingKey(i, d) == <<"device_mailbox", i, d>>
bundleKey(b) == <<"v2:bundle", b>>
tupleKey(u) == <<"v2:otk:tuple", u.identity, u.device, u.otk>>
publicKey(u) == <<"v2:otk:public", u.public>>
availableKey(u) == <<"v2:available", u.identity, u.created, u.id>>
claimKey(c) == <<"v2:claim", c>>

Key ==
    {deviceRecordKey(i, d) : i \in Identity, d \in Device}
    \cup {deviceMailboxBindingKey(i, d) : i \in Identity, d \in Device}
    \cup {bundleKey(b) : b \in BundleId}
    \cup (UNION {{tupleKey(u), publicKey(u), availableKey(u)} : u \in Publication})
    \cup {claimKey(c) : c \in ClaimId}

Value == PubKey \cup Identity \cup BundleId \cup StoredBundle \cup StoredClaim \cup {Absent}

ASSUME NoTxnAssumption == NoTxn \notin [Key -> Value]

\* What a transaction run over a snapshot reads, writes and hands out.
Effect(reads, writes, bundle) == [reads |-> reads, writes |-> writes, bundle |-> bundle]

\* An error, or an answer that changes nothing.
NoWrite == [k \in {} |-> Absent]
Refuse(reads) == Effect(reads, NoWrite, Absent)

-----------------------------------------------------------------------------
(* Device records.                                                         *)

DevicesOf(s, i) == {d \in Device : s[deviceRecordKey(i, d)] # Absent}

\* The walk over the stored devices never calls Item, so it reads no key.
ensureDeviceCapacity(s, i, d) ==
    d \in DevicesOf(s, i) \/ Cardinality(DevicesOf(s, i)) < MaxDevices

\* The first publication binds the pair and later ones leave it alone.
BindingWrites(s, i, d) ==
    [k \in {deviceMailboxBindingKey(i, d)} \cap {key \in Key : s[key] = Absent} |-> i]

\* The record is replaced whatever it held.
SaveDeviceRecord(s, r) ==
    LET reads == {deviceRecordKey(r.identity, r.device),
                  deviceMailboxBindingKey(r.identity, r.device)}
        binding == BindingWrites(s, r.identity, r.device)
    IN  IF ~ensureDeviceCapacity(s, r.identity, r.device)
        THEN Refuse(reads)
        ELSE Effect(reads,
                    [k \in {deviceRecordKey(r.identity, r.device)} \cup DOMAIN binding |->
                        IF k \in DOMAIN binding THEN binding[k] ELSE r.pubkey],
                    Absent)

-----------------------------------------------------------------------------
(* Publishing a bundle.                                                    *)

\* A stored record must carry the same device key; a new one needs a slot.
AuthorizationAccepts(s, u) ==
    LET stored == s[deviceRecordKey(u.identity, u.device)]
    IN  IF stored = Absent
        THEN ensureDeviceCapacity(s, u.identity, u.device)
        ELSE stored = u.pubkey

\* Mutant: a stored record is taken to have its binding.
AuthorizationWritesRecordOnly(s, u) ==
    LET record == {deviceRecordKey(u.identity, u.device)} \cap {k \in Key : s[k] = Absent}
        binding == IF record = {} THEN NoWrite ELSE BindingWrites(s, u.identity, u.device)
    IN  [k \in record \cup DOMAIN binding |->
            IF k \in DOMAIN binding THEN binding[k] ELSE u.pubkey]

\* The record if there is none, and in any case the binding.
AuthorizationWrites(s, u) ==
    LET binding == BindingWrites(s, u.identity, u.device)
        record == {deviceRecordKey(u.identity, u.device)} \cap {k \in Key : s[k] = Absent}
    IN  [k \in record \cup DOMAIN binding |->
            IF k \in DOMAIN binding THEN binding[k] ELSE u.pubkey]

\* A repeated publication stores nothing new and never makes the bundle
\* available again; a new one reserves its one-time key, both ways.
SaveSignalV2(s, r) ==
    LET u == r.publication
        stored == s[bundleKey(u.id)]
        authorization == AuthorizationWrites(s, u)
        authReads == {deviceRecordKey(u.identity, u.device),
                      deviceMailboxBindingKey(u.identity, u.device)}
        reads == {bundleKey(u.id), tupleKey(u), publicKey(u)} \cup authReads
        new == {bundleKey(u.id), tupleKey(u), publicKey(u), availableKey(u)}
    IN  IF stored # Absent
        THEN IF stored.publication = u /\ AuthorizationAccepts(s, u)
             THEN Effect({bundleKey(u.id)} \cup authReads, authorization, Absent)
             ELSE Refuse(reads)
        ELSE IF /\ s[tupleKey(u)] = Absent
                /\ s[publicKey(u)] = Absent
                /\ AuthorizationAccepts(s, u)
        THEN Effect(reads,
                    [k \in new \cup DOMAIN authorization |->
                        CASE k \in DOMAIN authorization -> authorization[k]
                          [] k = bundleKey(u.id) -> [publication |-> u, claimed |-> FALSE]
                          [] OTHER -> u.id],
                    Absent)
        ELSE Refuse(reads)

-----------------------------------------------------------------------------
(* Claiming a bundle.                                                      *)

\* The bundles the availability index of an identity leads to.
AvailableTo(s, i) ==
    {u \in Publication :
        /\ u.identity = i
        /\ s[availableKey(u)] # Absent
        /\ s[bundleKey(u.id)] # Absent
        /\ s[bundleKey(u.id)].publication = u}

\* The order of the availability keys.
Earlier(u, v) == u.created < v.created \/ (u.created = v.created /\ u.id < v.id)

\* Whether the walk stops at an available bundle or goes on.
Serves(s, r, u) ==
    /\ ~s[bundleKey(u.id)].claimed
    /\ r.now >= u.created
    /\ r.now < u.expires
    /\ r.device # Absent => u.device = r.device

\* Mutant: the claim id is looked up in a transaction of its own.
ClaimReadsNoClaim(r, walked) == UNION {{availableKey(v), bundleKey(v.id)} : v \in walked}

\* Mutant: the pool is walked outside the transaction.
ClaimReadsNoBundle(r, walked) == {claimKey(r.claim)}

ClaimReads(r, walked) ==
    {claimKey(r.claim)} \cup UNION {{availableKey(v), bundleKey(v.id)} : v \in walked}

\* Mutant: the availability entry stays.
ClaimWritesKeepAvailable(r, u) ==
    [k \in {bundleKey(u.id), claimKey(r.claim)} |->
        IF k = bundleKey(u.id) THEN [publication |-> u, claimed |-> TRUE]
        ELSE [identity |-> r.identity, device |-> r.device, publication |-> u]]

\* The bundle is marked, its availability entry deleted, the claim recorded.
ClaimWrites(r, u) ==
    [k \in {bundleKey(u.id), availableKey(u), claimKey(r.claim)} |->
        CASE k = bundleKey(u.id) -> [publication |-> u, claimed |-> TRUE]
          [] k = availableKey(u) -> Absent
          [] OTHER -> [identity |-> r.identity, device |-> r.device, publication |-> u]]

\* A known claim id answers what it answered before; otherwise the walk takes
\* the first bundle that serves the request.
ClaimSignalV2(s, r) ==
    LET old == s[claimKey(r.claim)]
        available == AvailableTo(s, r.identity)
        first == {u \in available :
                    /\ Serves(s, r, u)
                    /\ \A v \in available : Serves(s, r, v) => ~Earlier(v, u)}
        reads == ClaimReads(r, {v \in available : \A u \in first : ~Earlier(u, v)})
    IN  IF old # Absent
        THEN Effect(reads, NoWrite,
                    IF old.identity = r.identity /\ old.device = r.device
                    THEN old.publication ELSE Absent)
        ELSE IF first = {}
        THEN Refuse(reads)
        ELSE LET u == CHOOSE u \in first : TRUE IN Effect(reads, ClaimWrites(r, u), u)

-----------------------------------------------------------------------------
(* The handlers.                                                           *)

Init ==
    /\ LET legacy(k) == {x \in LegacyDevice : k = deviceRecordKey(x.identity, x.device)}
       IN  TxnInit([k \in Key |-> IF legacy(k) = {} THEN Absent
                                  ELSE (CHOOSE x \in legacy(k) : TRUE).pubkey])
    /\ now = 0
    /\ req = [p \in Proc |-> NoRequest]
    /\ pc = [p \in Proc |-> "idle"]
    /\ tries = [p \in Proc |-> 0]
    /\ handed = {}

Start(p, r) ==
    /\ pc[p] = "idle"
    /\ req' = [req EXCEPT ![p] = r]
    /\ pc' = [pc EXCEPT ![p] = "begin"]
    /\ tries' = [tries EXCEPT ![p] = Retries]
    /\ UNCHANGED <<db, snap, dirty, now, handed>>

PublishDeviceRecord(p, r) ==
    Start(p, [kind |-> "device", identity |-> r.identity, device |-> r.device,
              pubkey |-> r.pubkey])

\* Validation refuses a bundle outside its window.
PublishSignalPreKeyBundleV2(p, u) ==
    /\ u.created <= now
    /\ now < u.expires
    /\ Start(p, [kind |-> "publish", publication |-> u])

\* The window of a claim is judged at the time the handler read once.
ClaimSignalPreKeyBundleV2(p, c, i, d) ==
    Start(p, [kind |-> "claim", claim |-> c, identity |-> i, device |-> d, now |-> now])

\* One run of the transaction callback.
RunOver(s, r) ==
    CASE r.kind = "device"  -> SaveDeviceRecord(s, r)
      [] r.kind = "publish" -> SaveSignalV2(s, r)
      [] r.kind = "claim"   -> ClaimSignalV2(s, r)

BeginTransaction(p) ==
    /\ pc[p] = "begin"
    /\ Begin(p)
    /\ pc' = [pc EXCEPT ![p] = "commit"]
    /\ UNCHANGED <<now, req, tries, handed>>

Answer(p) ==
    /\ pc' = [pc EXCEPT ![p] = "idle"]
    /\ req' = [req EXCEPT ![p] = NoRequest]
    /\ tries' = [tries EXCEPT ![p] = 0]
    /\ UNCHANGED now

CommitTransaction(p) ==
    /\ pc[p] = "commit"
    /\ LET e == RunOver(snap[p], req[p])
       IN  /\ ~Conflicts(p, e.reads, e.writes)
           /\ Commit(p, e.writes)
           /\ handed' = handed \cup ({<<req[p].claim, b>> : b \in {e.bundle} \ {Absent}})
    /\ Answer(p)

\* updateV2 and DeviceRecordRepository.Save run the callback again.
RetryOnConflict(p) ==
    /\ pc[p] = "commit"
    /\ LET e == RunOver(snap[p], req[p]) IN Conflicts(p, e.reads, e.writes)
    /\ Discard(p)
    /\ IF tries[p] > 1
       THEN /\ pc' = [pc EXCEPT ![p] = "begin"]
            /\ tries' = [tries EXCEPT ![p] = @ - 1]
            /\ UNCHANGED <<now, req>>
       ELSE Answer(p)
    /\ UNCHANGED handed

\* The relay stops and starts again; before it serves it derives the missing
\* bindings, one transaction each, as far as the store lets it.
RestartAndBackfill ==
    /\ \E bound \in SUBSET {x \in Identity \X Device :
                              db[deviceRecordKey(x[1], x[2])] # Absent} :
          db' = [k \in Key |->
                   IF db[k] = Absent /\ \E x \in bound : k = deviceMailboxBindingKey(x[1], x[2])
                   THEN k[2] ELSE db[k]]
    /\ snap' = [p \in Proc |-> NoTxn]
    /\ dirty' = [p \in Proc |-> {}]
    /\ pc' = [p \in Proc |-> "idle"]
    /\ req' = [p \in Proc |-> NoRequest]
    /\ tries' = [p \in Proc |-> 0]
    /\ UNCHANGED <<now, handed>>

Tick ==
    /\ now < MaxTime
    /\ now' = now + 1
    /\ UNCHANGED <<db, snap, dirty, req, pc, tries, handed>>

HandlerStep(p) == BeginTransaction(p) \/ CommitTransaction(p) \/ RetryOnConflict(p)

Next ==
    \/ \E p \in Proc : HandlerStep(p)
    \/ \E p \in Proc, r \in DeviceRecord : PublishDeviceRecord(p, r)
    \/ \E p \in Proc, u \in Publication : PublishSignalPreKeyBundleV2(p, u)
    \/ \E p \in Proc, c \in ClaimId, i \in Identity, d \in Device \cup {Absent} :
          ClaimSignalPreKeyBundleV2(p, c, i, d)
    \/ RestartAndBackfill
    \/ Tick

Spec == Init /\ [][Next]_vars

-----------------------------------------------------------------------------
(* Properties.                                                             *)

\* The contents of the store, or of a snapshot of it.
StoreTyped(s) ==
    /\ s = [k \in Key |-> s[k]]
    /\ \A i \in Identity, d \in Device :
          /\ s[deviceRecordKey(i, d)] \in PubKey \cup {Absent}
          /\ s[deviceMailboxBindingKey(i, d)] \in {i, Absent}
    /\ \A b \in BundleId : s[bundleKey(b)] \in StoredBundle \cup {Absent}
    /\ \A u \in Publication :
          /\ s[tupleKey(u)] \in BundleId \cup {Absent}
          /\ s[publicKey(u)] \in BundleId \cup {Absent}
          /\ s[availableKey(u)] \in {u.id, Absent}
    /\ \A c \in ClaimId : s[claimKey(c)] \in StoredClaim \cup {Absent}

Request ==
    [kind: {"device"}, identity: Identity, device: Device, pubkey: PubKey]
    \cup [kind: {"publish"}, publication: Publication]
    \cup [kind: {"claim"}, claim: ClaimId, identity: Identity, device: Device \cup {Absent}, now: Nat]

TypeOK ==
    /\ StoreTyped(db)
    /\ pc \in [Proc -> {"idle", "begin", "commit"}]
    /\ \A p \in Proc :
          /\ snap[p] = NoTxn \/ StoreTyped(snap[p])
          /\ Open(p) <=> pc[p] = "commit"
          /\ dirty[p] \subseteq Key
          /\ req[p] \in IF pc[p] = "idle" THEN {NoRequest} ELSE Request
    /\ DOMAIN snap = Proc /\ DOMAIN dirty = Proc /\ DOMAIN req = Proc
    /\ tries \in [Proc -> 0..Retries]
    /\ now \in 0..MaxTime
    /\ handed \subseteq ClaimId \X Publication

\* A one-time prekey reaches one first-contact sender: two different claims are
\* never answered with the same bundle, nor with two bundles that share a
\* one-time key (ClaimSignalV2 and the reservations of SaveSignalV2).
OneTimeKeyHandedOnce ==
    \A x, y \in handed : x[1] # y[1] =>
        /\ x[2].id # y[2].id
        /\ x[2].public # y[2].public
        /\ tupleKey(x[2]) # tupleKey(y[2])

\* Retrying a claim whose answer was lost returns the bundle it was given the
\* first time, also when the retries race each other (ClaimSignalV2).
ClaimAnswerStable == \A x, y \in handed : x[1] = y[1] => x[2] = y[2]

\* A bundle is in the availability index exactly while it is unclaimed
\* (SaveSignalV2: "the answer is exactly the stored Claimed flag").
AvailableIffUnclaimed ==
    \A u \in Publication :
        (db[availableKey(u)] # Absent) =
            (\E v \in Publication : /\ availableKey(v) = availableKey(u)
                                    /\ db[bundleKey(v.id)] = [publication |-> v, claimed |-> FALSE])

\* Whoever has a bundle stored can be authorized: its device resolves through
\* the mailbox binding to a record, also when the record is older than the
\* bindings (saveSignalV2Authorization).
PublishersAuthorized ==
    \A u \in Publication :
        db[bundleKey(u.id)] # Absent =>
            LET v == db[bundleKey(u.id)].publication
            IN  /\ db[deviceRecordKey(v.identity, v.device)] # Absent
                /\ db[deviceMailboxBindingKey(v.identity, v.device)] = v.identity

\* An identity never holds more device records than the bound
\* (ensureDeviceCapacity: "two concurrent publications cannot both take the last
\* slot").
DevicesWithinCap == \A i \in Identity : Cardinality(DevicesOf(db, i)) <= MaxDevices
=============================================================================
