--------------------------- MODULE RegistryProofs ---------------------------
(***************************************************************************)
(* Proofs about Registry, for any number of handlers, devices, bundles,    *)
(* claims and restarts.  The argument: StoreInv holds of the store; an     *)
(* open transaction's snapshot is typed, agrees with the store on every    *)
(* key nobody has written since, and the claims it shows never change; so  *)
(* a commit that passes Badger's check, or writes nothing, was computed    *)
(* from values that still hold (Sound), and keeps StoreInv.                *)
(***************************************************************************)
EXTENDS Registry, TLAPS

-----------------------------------------------------------------------------
(* What holds of the store and of every snapshot of it.                    *)

\* A stored bundle is stored under its own id and has its one-time key reserved
\* both ways.
Reserved(s) ==
    \A b \in BundleId : s[bundleKey(b)] # Absent =>
        LET u == s[bundleKey(b)].publication
        IN  u.id = b /\ s[tupleKey(u)] = b /\ s[publicKey(u)] = b

\* The availability index leads to the unclaimed bundles.
Unclaimed(s, v) == s[bundleKey(v.id)] = [publication |-> v, claimed |-> FALSE]

Indexed(s) ==
    \A u \in Publication :
        s[availableKey(u)] # Absent <=>
            \E v \in Publication : availableKey(v) = availableKey(u) /\ Unclaimed(s, v)

\* What a claim was given is marked as claimed, and no other claim has it.
ClaimsHold(s) ==
    \A c \in ClaimId : s[claimKey(c)] # Absent =>
        LET u == s[claimKey(c)].publication
        IN  s[bundleKey(u.id)] = [publication |-> u, claimed |-> TRUE]

ClaimsApart(s) ==
    \A c, d \in ClaimId :
        s[claimKey(c)] # Absent /\ s[claimKey(d)] # Absent /\ c # d =>
            s[claimKey(c)].publication.id # s[claimKey(d)].publication.id

Authorized(s) ==
    \A b \in BundleId : s[bundleKey(b)] # Absent =>
        LET v == s[bundleKey(b)].publication
        IN  /\ s[deviceRecordKey(v.identity, v.device)] # Absent
            /\ s[deviceMailboxBindingKey(v.identity, v.device)] = v.identity

StoreInv(s) == Reserved(s) /\ Indexed(s) /\ ClaimsHold(s) /\ ClaimsApart(s) /\ Authorized(s)

-----------------------------------------------------------------------------
(* Transactions.                                                           *)

\* A snapshot s is the store d but for the keys D written since; the claims it holds
\* are in the store as they were.
Snapshot(s, d, D) ==
    /\ StoreTyped(s)
    /\ \A k \in Key \ D : s[k] = d[k]
    /\ \A c \in ClaimId : s[claimKey(c)] # Absent => s[claimKey(c)] = d[claimKey(c)]

\* The state of one handler: its snapshot, the keys written since, where it is and
\* its request.
Handler(d, s, D, at, r) ==
    /\ IF at = "commit" THEN Snapshot(s, d, D) /\ D \subseteq Key ELSE s = NoTxn /\ D = {}
    /\ IF at = "idle" THEN r = NoRequest ELSE r \in Request

Handlers ==
    /\ DOMAIN snap = Proc /\ DOMAIN dirty = Proc /\ DOMAIN req = Proc
    /\ pc \in [Proc -> {"idle", "begin", "commit"}] /\ tries \in [Proc -> 0..Retries]
    /\ \A p \in Proc : Handler(db, snap[p], dirty[p], pc[p], req[p])

\* Every answer is recorded under its claim id.
HandedRecorded ==
    \A x \in handed : db[claimKey(x[1])] # Absent /\ db[claimKey(x[1])].publication = x[2]

IInv ==
    /\ StoreTyped(db) /\ StoreInv(db) /\ Handlers
    /\ now \in 0..MaxTime
    /\ handed \subseteq ClaimId \X Publication /\ HandedRecorded

-----------------------------------------------------------------------------
(* Keys.                                                                   *)

LEMMA PublicationFields ==
  ASSUME NEW u \in Publication
  PROVE  /\ u.id \in BundleId /\ u.identity \in Identity /\ u.device \in Device
         /\ u.pubkey \in PubKey /\ u.created \in Nat /\ u.expires \in Nat
BY RegistryAssumption DEF PublicationType

\* The keys, family by family.
LEMMA KeyFamilies ==
  ASSUME NEW k
  PROVE  k \in Key <=>
           \/ \E i \in Identity, d \in Device : k = deviceRecordKey(i, d) \/ k = deviceMailboxBindingKey(i, d)
           \/ \E b \in BundleId : k = bundleKey(b)
           \/ \E u \in Publication : k = tupleKey(u) \/ k = publicKey(u) \/ k = availableKey(u)
           \/ \E c \in ClaimId : k = claimKey(c)
<1> DEFINE records == {deviceRecordKey(i, d) : i \in Identity, d \in Device}
           bindings == {deviceMailboxBindingKey(i, d) : i \in Identity, d \in Device}
           bundles == {bundleKey(b) : b \in BundleId}
           own(u) == {tupleKey(u), publicKey(u), availableKey(u)}
           owned == UNION {own(u) : u \in Publication}
           claims == {claimKey(c) : c \in ClaimId}
<1>1. Key = records \cup bindings \cup bundles \cup owned \cup claims  BY DEF Key
<1>2. k \in records <=> \E i \in Identity, d \in Device : k = deviceRecordKey(i, d)  OBVIOUS
<1>3. k \in bindings <=> \E i \in Identity, d \in Device : k = deviceMailboxBindingKey(i, d)  OBVIOUS
<1>4. k \in bundles <=> \E b \in BundleId : k = bundleKey(b)  OBVIOUS
<1>5. k \in claims <=> \E c \in ClaimId : k = claimKey(c)  OBVIOUS
<1>6. k \in owned <=> \E u \in Publication : k = tupleKey(u) \/ k = publicKey(u) \/ k = availableKey(u)
  <2>1. \A u : k \in own(u) <=> k = tupleKey(u) \/ k = publicKey(u) \/ k = availableKey(u)  OBVIOUS
  <2> HIDE DEF own
  <2>2. k \in owned <=> \E u \in Publication : k \in own(u)  OBVIOUS
  <2>3. QED  BY <2>1, <2>2
<1> HIDE DEF records, bindings, bundles, owned, claims
<1>7. k \in Key <=> k \in records \/ k \in bindings \/ k \in bundles \/ k \in owned \/ k \in claims
  BY <1>1
<1>8. QED  BY <1>2, <1>3, <1>4, <1>5, <1>6, <1>7

LEMMA KeysExist ==
  /\ \A i \in Identity, d \in Device : deviceRecordKey(i, d) \in Key /\ deviceMailboxBindingKey(i, d) \in Key
  /\ \A b \in BundleId : bundleKey(b) \in Key
  /\ \A u \in Publication : tupleKey(u) \in Key /\ publicKey(u) \in Key /\ availableKey(u) \in Key
  /\ \A c \in ClaimId : claimKey(c) \in Key
BY KeyFamilies

\* A key belongs to one family, and within it says whose it is.
LEMMA KeyTags ==
  /\ \A i, d : deviceRecordKey(i, d)[1] = "device_record"
  /\ \A i, d : deviceMailboxBindingKey(i, d)[1] = "device_mailbox"
  /\ \A b : bundleKey(b)[1] = "v2:bundle"
  /\ \A u : tupleKey(u)[1] = "v2:otk:tuple"
  /\ \A u : publicKey(u)[1] = "v2:otk:public"
  /\ \A u : availableKey(u)[1] = "v2:available"
  /\ \A c : claimKey(c)[1] = "v2:claim"
BY DEF deviceRecordKey, deviceMailboxBindingKey, bundleKey, tupleKey, publicKey, availableKey, claimKey

LEMMA KeysInjective ==
  /\ \A i, d, j, e : deviceRecordKey(i, d) = deviceRecordKey(j, e) => i = j /\ d = e
  /\ \A i, d, j, e : deviceMailboxBindingKey(i, d) = deviceMailboxBindingKey(j, e) => i = j /\ d = e
  /\ \A b, c : bundleKey(b) = bundleKey(c) => b = c
  /\ \A u, v : availableKey(u) = availableKey(v) =>
        u.identity = v.identity /\ u.created = v.created /\ u.id = v.id
  /\ \A c, d : claimKey(c) = claimKey(d) => c = d
<1>1. \A i, d, j, e : <<"device_record", i, d>> = <<"device_record", j, e>> => i = j /\ d = e  OBVIOUS
<1>2. \A i, d, j, e : <<"device_mailbox", i, d>> = <<"device_mailbox", j, e>> => i = j /\ d = e  OBVIOUS
<1>3. \A b, c : <<"v2:bundle", b>> = <<"v2:bundle", c>> => b = c  OBVIOUS
<1>4. \A a, b, c, x, y, z : <<"v2:available", a, b, c>> = <<"v2:available", x, y, z>> => a = x /\ b = y /\ c = z
  OBVIOUS
<1>5. \A c, d : <<"v2:claim", c>> = <<"v2:claim", d>> => c = d  OBVIOUS
<1>6. QED
  BY <1>1, <1>2, <1>3, <1>4, <1>5
     DEF deviceRecordKey, deviceMailboxBindingKey, bundleKey, availableKey, claimKey

\* The bundles and claims of a typed store.
LEMMA StoreFields ==
  ASSUME NEW s, StoreTyped(s)
  PROVE  /\ \A b \in BundleId : s[bundleKey(b)] # Absent =>
               /\ s[bundleKey(b)].publication \in Publication /\ s[bundleKey(b)].claimed \in BOOLEAN
               /\ s[bundleKey(b)] = [publication |-> s[bundleKey(b)].publication,
                                     claimed |-> s[bundleKey(b)].claimed]
         /\ \A c \in ClaimId : s[claimKey(c)] # Absent => s[claimKey(c)].publication \in Publication
<1>1. \A x \in StoredBundle : /\ x.publication \in Publication /\ x.claimed \in BOOLEAN
                              /\ x = [publication |-> x.publication, claimed |-> x.claimed]
  BY DEF StoredBundle
<1>2. \A x \in StoredClaim : x.publication \in Publication  BY DEF StoredClaim
<1>3. QED  BY <1>1, <1>2 DEF StoreTyped

\* A typed store is a function of the kind NoTxn is not.
LEMMA StoreIsNoMarker ==
  ASSUME NEW s, StoreTyped(s)
  PROVE  s # NoTxn
<1>1. ASSUME NEW k \in Key PROVE s[k] \in Value
  <2>1. CASE \E i \in Identity, d \in Device : k = deviceRecordKey(i, d) \/ k = deviceMailboxBindingKey(i, d)
    BY <2>1 DEF StoreTyped, Value
  <2>2. CASE \E b \in BundleId : k = bundleKey(b)  BY <2>2 DEF StoreTyped, Value
  <2>3. CASE \E u \in Publication : k = tupleKey(u) \/ k = publicKey(u) \/ k = availableKey(u)
    BY <2>3, PublicationFields DEF StoreTyped, Value
  <2>4. CASE \E c \in ClaimId : k = claimKey(c)  BY <2>4 DEF StoreTyped, Value
  <2>5. QED  BY <1>1, <2>1, <2>2, <2>3, <2>4, KeyFamilies
<1>2. s \in [Key -> Value]  BY <1>1 DEF StoreTyped
<1>3. QED  BY <1>2, NoTxnAssumption

-----------------------------------------------------------------------------
(* What the transactions write.                                            *)

\* The store after a commit.
Written(d, w) == [k \in DOMAIN d |-> IF k \in DOMAIN w THEN w[k] ELSE d[k]]

LEMMA WrittenValues ==
  ASSUME NEW d, StoreTyped(d), NEW w
  PROVE  /\ DOMAIN Written(d, w) = Key
         /\ \A k \in Key : Written(d, w)[k] = IF k \in DOMAIN w THEN w[k] ELSE d[k]
<1>1. DOMAIN d = Key  BY DEF StoreTyped
<1>2. QED  BY <1>1 DEF Written

LEMMA NothingWritten ==
  ASSUME NEW d, StoreTyped(d), NEW w, DOMAIN w = {}
  PROVE  Written(d, w) = d
<1>1. Written(d, w) = [k \in Key |-> d[k]]  BY DEF Written, StoreTyped
<1>2. QED  BY <1>1 DEF StoreTyped

\* At most the record and the binding of one device.
AuthOnly(w, i, d) ==
    /\ DOMAIN w \subseteq {deviceRecordKey(i, d), deviceMailboxBindingKey(i, d)}
    /\ deviceRecordKey(i, d) \in DOMAIN w => w[deviceRecordKey(i, d)] \in PubKey
    /\ deviceMailboxBindingKey(i, d) \in DOMAIN w => w[deviceMailboxBindingKey(i, d)] = i

LEMMA DeviceKeysApart ==
  ASSUME NEW i, NEW d
  PROVE  deviceRecordKey(i, d) # deviceMailboxBindingKey(i, d)
BY KeyTags

LEMMA BindingWritesDomain ==
  ASSUME NEW s, NEW i, NEW d
  PROVE  /\ DOMAIN BindingWrites(s, i, d) =
              {deviceMailboxBindingKey(i, d)} \cap {key \in Key : s[key] = Absent}
         /\ \A k \in DOMAIN BindingWrites(s, i, d) : BindingWrites(s, i, d)[k] = i
BY DEF BindingWrites

LEMMA AuthorizationWritesDomain ==
  ASSUME NEW s, NEW u \in Publication
  PROVE  LET rk == deviceRecordKey(u.identity, u.device)
             bk == deviceMailboxBindingKey(u.identity, u.device)
         IN  /\ DOMAIN AuthorizationWrites(s, u) = {k \in {rk, bk} : s[k] = Absent}
             /\ AuthOnly(AuthorizationWrites(s, u), u.identity, u.device)
<1> DEFINE rk == deviceRecordKey(u.identity, u.device)
           bk == deviceMailboxBindingKey(u.identity, u.device)
           b == BindingWrites(s, u.identity, u.device)
           w == AuthorizationWrites(s, u)
<1>1. rk \in Key /\ bk \in Key /\ rk # bk /\ u.pubkey \in PubKey
  BY PublicationFields, KeysExist, DeviceKeysApart
<1>2. DOMAIN b = {bk} \cap {k \in Key : s[k] = Absent} /\ \A k \in DOMAIN b : b[k] = u.identity
  BY BindingWritesDomain
<1>3. w = [k \in ({rk} \cap {k \in Key : s[k] = Absent}) \cup DOMAIN b |->
             IF k \in DOMAIN b THEN b[k] ELSE u.pubkey]
  BY DEF AuthorizationWrites
<1> HIDE DEF rk, bk, b, w
<1>4. DOMAIN w = {k \in {rk, bk} : s[k] = Absent}  BY <1>1, <1>2, <1>3
<1>5. rk \in DOMAIN w => w[rk] = u.pubkey  BY <1>1, <1>2, <1>3
<1>6. bk \in DOMAIN w => w[bk] = u.identity  BY <1>1, <1>2, <1>3, <1>4
<1>7. AuthOnly(w, u.identity, u.device)  BY <1>1, <1>4, <1>5, <1>6 DEF AuthOnly, rk, bk
<1>8. QED  BY <1>4, <1>7 DEF rk, bk, w

\* Values of the right kind keep the store's type.
WritesTyped(w) ==
    /\ \A i \in Identity, d \in Device :
          /\ deviceRecordKey(i, d) \in DOMAIN w => w[deviceRecordKey(i, d)] \in PubKey
          /\ deviceMailboxBindingKey(i, d) \in DOMAIN w => w[deviceMailboxBindingKey(i, d)] = i
    /\ \A b \in BundleId : bundleKey(b) \in DOMAIN w => w[bundleKey(b)] \in StoredBundle
    /\ \A u \in Publication :
          /\ tupleKey(u) \in DOMAIN w => w[tupleKey(u)] \in BundleId
          /\ publicKey(u) \in DOMAIN w => w[publicKey(u)] \in BundleId
          /\ availableKey(u) \in DOMAIN w => w[availableKey(u)] \in {u.id, Absent}
    /\ \A c \in ClaimId : claimKey(c) \in DOMAIN w => w[claimKey(c)] \in StoredClaim

LEMMA WrittenTyped ==
  ASSUME NEW d, StoreTyped(d), NEW w, WritesTyped(w)
  PROVE  StoreTyped(Written(d, w))
<1>1. PICK n : n = Written(d, w)  OBVIOUS
<1>2. \A k \in Key : n[k] = IF k \in DOMAIN w THEN w[k] ELSE d[k]  BY <1>1, WrittenValues
<1>3. n = [k \in Key |-> n[k]]  BY <1>1 DEF Written, StoreTyped
<1>4. \A i \in Identity, e \in Device :
          /\ n[deviceRecordKey(i, e)] \in PubKey \cup {Absent}
          /\ n[deviceMailboxBindingKey(i, e)] \in {i, Absent}
  BY <1>2, KeysExist DEF WritesTyped, StoreTyped
<1>5. \A b \in BundleId : n[bundleKey(b)] \in StoredBundle \cup {Absent}
  BY <1>2, KeysExist DEF WritesTyped, StoreTyped
<1>6. \A u \in Publication :
          /\ n[tupleKey(u)] \in BundleId \cup {Absent}
          /\ n[publicKey(u)] \in BundleId \cup {Absent}
          /\ n[availableKey(u)] \in {u.id, Absent}
  BY <1>2, KeysExist DEF WritesTyped, StoreTyped
<1>7. \A c \in ClaimId : n[claimKey(c)] \in StoredClaim \cup {Absent}
  BY <1>2, KeysExist DEF WritesTyped, StoreTyped
<1>8. QED  BY <1>1, <1>3, <1>4, <1>5, <1>6, <1>7 DEF StoreTyped

\* Nothing but device keys changes, and what was there stays.
LEMMA DeviceFrame ==
  ASSUME NEW d, StoreTyped(d), StoreInv(d), NEW n,
         \A b \in BundleId : n[bundleKey(b)] = d[bundleKey(b)],
         \A u \in Publication : /\ n[tupleKey(u)] = d[tupleKey(u)] /\ n[publicKey(u)] = d[publicKey(u)]
                                /\ n[availableKey(u)] = d[availableKey(u)],
         \A c \in ClaimId : n[claimKey(c)] = d[claimKey(c)],
         \A i \in Identity, e \in Device :
            /\ d[deviceRecordKey(i, e)] # Absent => n[deviceRecordKey(i, e)] # Absent
            /\ d[deviceMailboxBindingKey(i, e)] = i => n[deviceMailboxBindingKey(i, e)] = i
  PROVE  StoreInv(n)
<1>1. Reserved(n)
  <2> SUFFICES ASSUME NEW b \in BundleId, d[bundleKey(b)] # Absent
               PROVE  LET u == d[bundleKey(b)].publication
                      IN  u.id = b /\ n[tupleKey(u)] = b /\ n[publicKey(u)] = b
    BY DEF Reserved
  <2>1. PICK u : u = d[bundleKey(b)].publication  OBVIOUS
  <2>2. u \in Publication  BY <2>1, StoreFields
  <2>3. u.id = b /\ d[tupleKey(u)] = b /\ d[publicKey(u)] = b  BY <2>1 DEF StoreInv, Reserved
  <2>4. QED  BY <2>1, <2>2, <2>3
<1>2. Indexed(n)
  <2>1. \A v \in Publication : Unclaimed(n, v) <=> Unclaimed(d, v)
    BY PublicationFields DEF Unclaimed
  <2>2. QED  BY <2>1 DEF StoreInv, Indexed
<1>3. ClaimsHold(n)  BY StoreFields, PublicationFields DEF StoreInv, ClaimsHold
<1>4. ClaimsApart(n)  BY DEF StoreInv, ClaimsApart
<1>5. Authorized(n)
  <2> SUFFICES ASSUME NEW b \in BundleId, n[bundleKey(b)] # Absent
               PROVE  LET v == n[bundleKey(b)].publication
                      IN  /\ n[deviceRecordKey(v.identity, v.device)] # Absent
                          /\ n[deviceMailboxBindingKey(v.identity, v.device)] = v.identity
    BY DEF Authorized
  <2>1. PICK v : v = d[bundleKey(b)].publication  OBVIOUS
  <2>2. v \in Publication /\ v.identity \in Identity /\ v.device \in Device
    BY <2>1, StoreFields, PublicationFields
  <2>3. /\ d[deviceRecordKey(v.identity, v.device)] # Absent
        /\ d[deviceMailboxBindingKey(v.identity, v.device)] = v.identity
    BY <2>1 DEF StoreInv, Authorized
  <2>4. QED  BY <2>1, <2>2, <2>3
<1>6. QED  BY <1>1, <1>2, <1>3, <1>4, <1>5 DEF StoreInv

LEMMA AuthOnlyStore ==
  ASSUME NEW d, StoreTyped(d), StoreInv(d), NEW i \in Identity, NEW e \in Device,
         NEW w, AuthOnly(w, i, e)
  PROVE  /\ StoreTyped(Written(d, w)) /\ StoreInv(Written(d, w))
         /\ \A c \in ClaimId : Written(d, w)[claimKey(c)] = d[claimKey(c)]
<1>1. WritesTyped(w)
  <2>1. \A j \in Identity, f \in Device :
          /\ deviceRecordKey(j, f) \in DOMAIN w => w[deviceRecordKey(j, f)] \in PubKey
          /\ deviceMailboxBindingKey(j, f) \in DOMAIN w => w[deviceMailboxBindingKey(j, f)] = j
    BY KeyTags, KeysInjective DEF AuthOnly
  <2>2. /\ \A b \in BundleId : bundleKey(b) \notin DOMAIN w
        /\ \A u \in Publication : /\ tupleKey(u) \notin DOMAIN w /\ publicKey(u) \notin DOMAIN w
                                  /\ availableKey(u) \notin DOMAIN w
        /\ \A c \in ClaimId : claimKey(c) \notin DOMAIN w
    BY KeyTags DEF AuthOnly
  <2>3. QED  BY <2>1, <2>2 DEF WritesTyped
<1>2. StoreTyped(Written(d, w))  BY <1>1, WrittenTyped
<1>3. PICK n : n = Written(d, w)  OBVIOUS
<1>4. \A k \in Key : n[k] = IF k \in DOMAIN w THEN w[k] ELSE d[k]  BY <1>3, WrittenValues
<1>5. /\ \A b \in BundleId : bundleKey(b) \notin DOMAIN w
      /\ \A u \in Publication : /\ tupleKey(u) \notin DOMAIN w /\ publicKey(u) \notin DOMAIN w
                                /\ availableKey(u) \notin DOMAIN w
      /\ \A c \in ClaimId : claimKey(c) \notin DOMAIN w
  BY KeyTags DEF AuthOnly
<1>6. \A b \in BundleId : n[bundleKey(b)] = d[bundleKey(b)]  BY <1>4, <1>5, KeysExist
<1>7. \A u \in Publication : /\ n[tupleKey(u)] = d[tupleKey(u)] /\ n[publicKey(u)] = d[publicKey(u)]
                             /\ n[availableKey(u)] = d[availableKey(u)]
  BY <1>4, <1>5, KeysExist
<1>8. \A c \in ClaimId : n[claimKey(c)] = d[claimKey(c)]  BY <1>4, <1>5, KeysExist
<1>9. \A j \in Identity, f \in Device :
            /\ d[deviceRecordKey(j, f)] # Absent => n[deviceRecordKey(j, f)] # Absent
            /\ d[deviceMailboxBindingKey(j, f)] = j => n[deviceMailboxBindingKey(j, f)] = j
  BY <1>1, <1>4, KeysExist, AbsentAssumption DEF WritesTyped
<1>10. StoreInv(n)  BY <1>6, <1>7, <1>8, <1>9, DeviceFrame
<1>11. QED  BY <1>2, <1>3, <1>8, <1>10

LEMMA BundleRecord ==
  ASSUME NEW u \in Publication, NEW x \in BOOLEAN
  PROVE  LET r == [publication |-> u, claimed |-> x]
         IN  r \in StoredBundle /\ r # Absent /\ r.publication = u /\ r.claimed = x
BY AbsentAssumption DEF StoredBundle

\* The writes of a new bundle: its entry, its reservations, its place in the index
\* and what the authorization adds.
Publishes(w, u, a, rec) ==
    /\ \A b : /\ bundleKey(b) \in DOMAIN w <=> b = u.id
              /\ b = u.id => w[bundleKey(b)] = rec
    /\ \A v : /\ tupleKey(v) \in DOMAIN w <=> tupleKey(v) = tupleKey(u)
              /\ tupleKey(v) = tupleKey(u) => w[tupleKey(v)] = u.id
    /\ \A v : /\ publicKey(v) \in DOMAIN w <=> publicKey(v) = publicKey(u)
              /\ publicKey(v) = publicKey(u) => w[publicKey(v)] = u.id
    /\ \A v : /\ availableKey(v) \in DOMAIN w <=> availableKey(v) = availableKey(u)
              /\ availableKey(v) = availableKey(u) => w[availableKey(v)] = u.id /\ v.id = u.id
    /\ \A c : claimKey(c) \notin DOMAIN w
    /\ \A i, e : /\ deviceRecordKey(i, e) \in DOMAIN w <=> deviceRecordKey(i, e) \in DOMAIN a
                 /\ deviceRecordKey(i, e) \in DOMAIN a => w[deviceRecordKey(i, e)] \in PubKey
    /\ \A i, e : /\ deviceMailboxBindingKey(i, e) \in DOMAIN w <=> deviceMailboxBindingKey(i, e) \in DOMAIN a
                 /\ deviceMailboxBindingKey(i, e) \in DOMAIN a => w[deviceMailboxBindingKey(i, e)] = i

LEMMA PublishWrites ==
  ASSUME NEW u, NEW a, AuthOnly(a, u.identity, u.device), NEW rec, NEW w,
         w = [k \in {bundleKey(u.id), tupleKey(u), publicKey(u), availableKey(u)} \cup DOMAIN a |->
                IF k \in DOMAIN a THEN a[k] ELSE IF k = bundleKey(u.id) THEN rec ELSE u.id]
  PROVE  Publishes(w, u, a, rec)
<1>1. \A k \in DOMAIN a : k[1] \in {"device_record", "device_mailbox"}  BY KeyTags DEF AuthOnly
<1>2. \A b : /\ bundleKey(b) \in DOMAIN w <=> b = u.id
             /\ b = u.id => w[bundleKey(b)] = rec
  BY <1>1, KeyTags, KeysInjective
<1>3. \A v : /\ tupleKey(v) \in DOMAIN w <=> tupleKey(v) = tupleKey(u)
             /\ tupleKey(v) = tupleKey(u) => w[tupleKey(v)] = u.id
  BY <1>1, KeyTags
<1>4. \A v : /\ publicKey(v) \in DOMAIN w <=> publicKey(v) = publicKey(u)
             /\ publicKey(v) = publicKey(u) => w[publicKey(v)] = u.id
  BY <1>1, KeyTags
<1>5. \A v : /\ availableKey(v) \in DOMAIN w <=> availableKey(v) = availableKey(u)
             /\ availableKey(v) = availableKey(u) => w[availableKey(v)] = u.id /\ v.id = u.id
  BY <1>1, KeyTags, KeysInjective
<1>6. \A c : claimKey(c) \notin DOMAIN w  BY <1>1, KeyTags
<1>7. \A i, e : /\ deviceRecordKey(i, e) \in DOMAIN w <=> deviceRecordKey(i, e) \in DOMAIN a
                /\ deviceRecordKey(i, e) \in DOMAIN a => w[deviceRecordKey(i, e)] \in PubKey
  BY KeyTags, KeysInjective DEF AuthOnly
<1>8. \A i, e : /\ deviceMailboxBindingKey(i, e) \in DOMAIN w <=> deviceMailboxBindingKey(i, e) \in DOMAIN a
                /\ deviceMailboxBindingKey(i, e) \in DOMAIN a => w[deviceMailboxBindingKey(i, e)] = i
  BY KeyTags, KeysInjective DEF AuthOnly
<1>9. QED  BY <1>2, <1>3, <1>4, <1>5, <1>6, <1>7, <1>8 DEF Publishes

\* What the transaction found: nothing under the bundle's keys, and its writes add
\* what the device lacks.
Fresh(d, u, a) ==
    /\ d[bundleKey(u.id)] = Absent /\ d[tupleKey(u)] = Absent /\ d[publicKey(u)] = Absent
    /\ d[deviceRecordKey(u.identity, u.device)] = Absent =>
          deviceRecordKey(u.identity, u.device) \in DOMAIN a
    /\ d[deviceMailboxBindingKey(u.identity, u.device)] = Absent =>
          deviceMailboxBindingKey(u.identity, u.device) \in DOMAIN a

NewBundle(w, u, a) == \E rec : rec = [publication |-> u, claimed |-> FALSE] /\ Publishes(w, u, a, rec)

LEMMA PublishStore ==
  ASSUME NEW d, StoreTyped(d), StoreInv(d), NEW u \in Publication, NEW a, Fresh(d, u, a),
         NEW w, NewBundle(w, u, a)
  PROVE  /\ StoreTyped(Written(d, w)) /\ StoreInv(Written(d, w))
         /\ \A c \in ClaimId : Written(d, w)[claimKey(c)] = d[claimKey(c)]
<1>1. PICK rec : rec = [publication |-> u, claimed |-> FALSE] /\ Publishes(w, u, a, rec)
  BY DEF NewBundle
<1>4. d[bundleKey(u.id)] = Absent /\ d[tupleKey(u)] = Absent /\ d[publicKey(u)] = Absent
  BY DEF Fresh
<1>5. /\ d[deviceRecordKey(u.identity, u.device)] = Absent =>
            deviceRecordKey(u.identity, u.device) \in DOMAIN a
      /\ d[deviceMailboxBindingKey(u.identity, u.device)] = Absent =>
            deviceMailboxBindingKey(u.identity, u.device) \in DOMAIN a
  BY DEF Fresh
<1>2. rec \in StoredBundle /\ rec # Absent /\ rec.publication = u /\ rec.claimed = FALSE
  BY <1>1, BundleRecord
<1>3. u.id \in BundleId /\ u.identity \in Identity /\ u.device \in Device /\ u.id # Absent
  BY PublicationFields, AbsentAssumption
<1>6. \A b : /\ bundleKey(b) \in DOMAIN w <=> b = u.id
             /\ b = u.id => w[bundleKey(b)] = rec
  BY <1>1 DEF Publishes
<1>7. \A v : /\ tupleKey(v) \in DOMAIN w <=> tupleKey(v) = tupleKey(u)
             /\ tupleKey(v) = tupleKey(u) => w[tupleKey(v)] = u.id
  BY <1>1 DEF Publishes
<1>8. \A v : /\ publicKey(v) \in DOMAIN w <=> publicKey(v) = publicKey(u)
             /\ publicKey(v) = publicKey(u) => w[publicKey(v)] = u.id
  BY <1>1 DEF Publishes
<1>9. \A v : /\ availableKey(v) \in DOMAIN w <=> availableKey(v) = availableKey(u)
             /\ availableKey(v) = availableKey(u) => w[availableKey(v)] = u.id /\ v.id = u.id
  BY <1>1 DEF Publishes
<1>10. \A c : claimKey(c) \notin DOMAIN w  BY <1>1 DEF Publishes
<1>11. \A i, e : /\ deviceRecordKey(i, e) \in DOMAIN w <=> deviceRecordKey(i, e) \in DOMAIN a
                 /\ deviceRecordKey(i, e) \in DOMAIN a => w[deviceRecordKey(i, e)] \in PubKey
  BY <1>1 DEF Publishes
<1>12. \A i, e : /\ deviceMailboxBindingKey(i, e) \in DOMAIN w <=> deviceMailboxBindingKey(i, e) \in DOMAIN a
                 /\ deviceMailboxBindingKey(i, e) \in DOMAIN a => w[deviceMailboxBindingKey(i, e)] = i
  BY <1>1 DEF Publishes
<1>13. WritesTyped(w)
  <2>1. \A i \in Identity, e \in Device :
          /\ deviceRecordKey(i, e) \in DOMAIN w => w[deviceRecordKey(i, e)] \in PubKey
          /\ deviceMailboxBindingKey(i, e) \in DOMAIN w => w[deviceMailboxBindingKey(i, e)] = i
    BY <1>11, <1>12
  <2>2. \A b \in BundleId : bundleKey(b) \in DOMAIN w => w[bundleKey(b)] \in StoredBundle
    BY <1>2, <1>6
  <2>3. \A v \in Publication :
          /\ tupleKey(v) \in DOMAIN w => w[tupleKey(v)] \in BundleId
          /\ publicKey(v) \in DOMAIN w => w[publicKey(v)] \in BundleId
          /\ availableKey(v) \in DOMAIN w => w[availableKey(v)] \in {v.id, Absent}
    BY <1>3, <1>7, <1>8, <1>9
  <2>4. QED  BY <1>10, <2>1, <2>2, <2>3 DEF WritesTyped
<1>14. StoreTyped(Written(d, w))  BY <1>13, WrittenTyped
<1>15. PICK n : n = Written(d, w)  OBVIOUS
<1>16. \A k \in Key : n[k] = IF k \in DOMAIN w THEN w[k] ELSE d[k]  BY <1>15, WrittenValues
<1>17. \A b \in BundleId : n[bundleKey(b)] = IF b = u.id THEN rec ELSE d[bundleKey(b)]
  BY <1>6, <1>16, KeysExist
<1>18. \A v \in Publication : n[tupleKey(v)] = IF tupleKey(v) = tupleKey(u) THEN u.id ELSE d[tupleKey(v)]
  BY <1>7, <1>16, KeysExist
<1>19. \A v \in Publication : n[publicKey(v)] = IF publicKey(v) = publicKey(u) THEN u.id ELSE d[publicKey(v)]
  BY <1>8, <1>16, KeysExist
<1>20. \A v \in Publication :
          n[availableKey(v)] = IF availableKey(v) = availableKey(u) THEN u.id ELSE d[availableKey(v)]
  BY <1>9, <1>16, KeysExist
<1>21. \A c \in ClaimId : n[claimKey(c)] = d[claimKey(c)]  BY <1>10, <1>16, KeysExist
<1>22. \A i \in Identity, e \in Device :
          /\ d[deviceRecordKey(i, e)] # Absent => n[deviceRecordKey(i, e)] # Absent
          /\ d[deviceMailboxBindingKey(i, e)] = i => n[deviceMailboxBindingKey(i, e)] = i
  BY <1>11, <1>12, <1>16, KeysExist, AbsentAssumption
<1>23. /\ n[deviceRecordKey(u.identity, u.device)] # Absent
       /\ n[deviceMailboxBindingKey(u.identity, u.device)] = u.identity
  <2>1. d[deviceMailboxBindingKey(u.identity, u.device)] \in {u.identity, Absent}
    BY <1>3 DEF StoreTyped
  <2>2. n[deviceRecordKey(u.identity, u.device)] # Absent
    BY <1>3, <1>5, <1>11, <1>16, KeysExist, AbsentAssumption
  <2>3. n[deviceMailboxBindingKey(u.identity, u.device)] = u.identity
    BY <1>3, <1>5, <1>12, <1>16, <2>1, KeysExist
  <2>4. QED  BY <2>2, <2>3
<1>24. Reserved(n)
  <2> SUFFICES ASSUME NEW b \in BundleId, n[bundleKey(b)] # Absent
               PROVE  LET v == n[bundleKey(b)].publication
                      IN  v.id = b /\ n[tupleKey(v)] = b /\ n[publicKey(v)] = b
    BY DEF Reserved
  <2>1. CASE b = u.id  BY <1>2, <1>17, <1>18, <1>19, <2>1
  <2>2. CASE b # u.id
    <3>1. PICK v : v = d[bundleKey(b)].publication  OBVIOUS
    <3>2. n[bundleKey(b)] = d[bundleKey(b)]  BY <1>17, <2>2
    <3>3. v \in Publication /\ v.id = b /\ d[tupleKey(v)] = b /\ d[publicKey(v)] = b
      BY <3>1, <3>2, StoreFields DEF StoreInv, Reserved
    <3>4. tupleKey(v) # tupleKey(u) /\ publicKey(v) # publicKey(u)  BY <1>4, <3>3, AbsentAssumption
    <3>5. QED  BY <1>18, <1>19, <3>1, <3>2, <3>3, <3>4
  <2>3. QED  BY <2>1, <2>2
<1>25. Indexed(n)
  <2>1. \A v \in Publication : v.id # u.id => (Unclaimed(n, v) <=> Unclaimed(d, v))
    BY <1>17, PublicationFields DEF Unclaimed
  <2>2. Unclaimed(n, u)  BY <1>1, <1>3, <1>17 DEF Unclaimed
  <2>3. \A v \in Publication : v.id = u.id => ~Unclaimed(d, v) /\ (Unclaimed(n, v) => v = u)
    <3> SUFFICES ASSUME NEW v \in Publication, v.id = u.id
                 PROVE  ~Unclaimed(d, v) /\ (Unclaimed(n, v) => v = u)
      OBVIOUS
    <3>1. PICK r : r = [publication |-> v, claimed |-> FALSE]  OBVIOUS
    <3>2. r \in StoredBundle /\ r.publication = v  BY <3>1 DEF StoredBundle
    <3>3. ~Unclaimed(d, v)  BY <1>4, <3>1, <3>2, AbsentAssumption DEF Unclaimed
    <3>4. Unclaimed(n, v) => rec = r  BY <1>3, <1>17, <3>1 DEF Unclaimed
    <3>5. QED  BY <1>2, <3>2, <3>3, <3>4
  <2>4. ASSUME NEW v \in Publication
        PROVE  n[availableKey(v)] # Absent <=>
                 \E x \in Publication : availableKey(x) = availableKey(v) /\ Unclaimed(n, x)
    <3>1. CASE availableKey(v) = availableKey(u)  BY <1>3, <1>20, <2>2, <3>1
    <3>2. CASE availableKey(v) # availableKey(u)
      <4>1. n[availableKey(v)] = d[availableKey(v)]  BY <1>20, <3>2
      <4>2. \A x \in Publication : availableKey(x) = availableKey(v) =>
                (Unclaimed(n, x) <=> Unclaimed(d, x))
        BY <2>1, <2>3, <3>2
      <4>3. QED  BY <4>1, <4>2 DEF StoreInv, Indexed
    <3>3. QED  BY <3>1, <3>2
  <2>5. QED  BY <2>4 DEF Indexed
<1>26. ClaimsHold(n)
  <2> SUFFICES ASSUME NEW c \in ClaimId, d[claimKey(c)] # Absent
               PROVE  LET v == d[claimKey(c)].publication
                      IN  n[bundleKey(v.id)] = [publication |-> v, claimed |-> TRUE]
    BY <1>21 DEF ClaimsHold
  <2>1. PICK v : v = d[claimKey(c)].publication  OBVIOUS
  <2>2. PICK r : r = [publication |-> v, claimed |-> TRUE]  OBVIOUS
  <2>3. v \in Publication /\ v.id \in BundleId  BY <2>1, StoreFields, PublicationFields
  <2>4. d[bundleKey(v.id)] = r  BY <2>1, <2>2 DEF StoreInv, ClaimsHold
  <2>5. r # Absent  BY <2>2, <2>3, BundleRecord
  <2>6. v.id # u.id  BY <1>4, <2>4, <2>5
  <2>7. QED  BY <1>17, <2>1, <2>2, <2>3, <2>4, <2>6
<1>27. ClaimsApart(n)  BY <1>21 DEF StoreInv, ClaimsApart
<1>28. Authorized(n)
  <2> SUFFICES ASSUME NEW b \in BundleId, n[bundleKey(b)] # Absent
               PROVE  LET v == n[bundleKey(b)].publication
                      IN  /\ n[deviceRecordKey(v.identity, v.device)] # Absent
                          /\ n[deviceMailboxBindingKey(v.identity, v.device)] = v.identity
    BY DEF Authorized
  <2>1. CASE b = u.id  BY <1>2, <1>17, <1>23, <2>1
  <2>2. CASE b # u.id
    <3>1. PICK v : v = d[bundleKey(b)].publication  OBVIOUS
    <3>2. n[bundleKey(b)] = d[bundleKey(b)]  BY <1>17, <2>2
    <3>3. v \in Publication /\ v.identity \in Identity /\ v.device \in Device
      BY <3>1, <3>2, StoreFields, PublicationFields
    <3>4. /\ d[deviceRecordKey(v.identity, v.device)] # Absent
          /\ d[deviceMailboxBindingKey(v.identity, v.device)] = v.identity
      BY <3>1, <3>2 DEF StoreInv, Authorized
    <3>5. QED  BY <1>22, <3>1, <3>2, <3>3, <3>4
  <2>3. QED  BY <2>1, <2>2
<1>29. StoreInv(n)  BY <1>24, <1>25, <1>26, <1>27, <1>28 DEF StoreInv
<1>30. QED  BY <1>14, <1>15, <1>21, <1>29

\* The writes of a claim: the bundle is marked, leaves the index, and the claim is
\* recorded.
Takes(w, u, c, rec, answer) ==
    /\ \A b : /\ bundleKey(b) \in DOMAIN w <=> b = u.id
              /\ b = u.id => w[bundleKey(b)] = rec
    /\ \A v : tupleKey(v) \notin DOMAIN w /\ publicKey(v) \notin DOMAIN w
    /\ \A v : /\ availableKey(v) \in DOMAIN w <=> availableKey(v) = availableKey(u)
              /\ availableKey(v) = availableKey(u) => w[availableKey(v)] = Absent
    /\ \A x : /\ claimKey(x) \in DOMAIN w <=> x = c
              /\ x = c => w[claimKey(x)] = answer
    /\ \A i, e : deviceRecordKey(i, e) \notin DOMAIN w /\ deviceMailboxBindingKey(i, e) \notin DOMAIN w

LEMMA TakeWrites ==
  ASSUME NEW u, NEW c, NEW rec, NEW answer, NEW w,
         w = [k \in {bundleKey(u.id), availableKey(u), claimKey(c)} |->
                IF k = bundleKey(u.id) THEN rec ELSE IF k = availableKey(u) THEN Absent ELSE answer]
  PROVE  Takes(w, u, c, rec, answer)
<1>1. \A b : /\ bundleKey(b) \in DOMAIN w <=> b = u.id
             /\ b = u.id => w[bundleKey(b)] = rec
  BY KeyTags, KeysInjective
<1>2. \A v : tupleKey(v) \notin DOMAIN w /\ publicKey(v) \notin DOMAIN w  BY KeyTags
<1>3. \A v : /\ availableKey(v) \in DOMAIN w <=> availableKey(v) = availableKey(u)
             /\ availableKey(v) = availableKey(u) => w[availableKey(v)] = Absent
  BY KeyTags
<1>4. \A x : /\ claimKey(x) \in DOMAIN w <=> x = c
             /\ x = c => w[claimKey(x)] = answer
  BY KeyTags, KeysInjective
<1>5. \A i, e : deviceRecordKey(i, e) \notin DOMAIN w /\ deviceMailboxBindingKey(i, e) \notin DOMAIN w
  BY KeyTags
<1>6. QED  BY <1>1, <1>2, <1>3, <1>4, <1>5 DEF Takes

LEMMA ClaimStore ==
  ASSUME NEW d, StoreTyped(d), StoreInv(d), NEW u \in Publication, NEW c \in ClaimId,
         Unclaimed(d, u), d[claimKey(c)] = Absent,
         NEW rec, rec = [publication |-> u, claimed |-> TRUE],
         NEW answer \in StoredClaim, answer.publication = u,
         NEW w, Takes(w, u, c, rec, answer)
  PROVE  /\ StoreTyped(Written(d, w)) /\ StoreInv(Written(d, w))
         /\ \A x \in ClaimId : Written(d, w)[claimKey(x)] = IF x = c THEN answer ELSE d[claimKey(x)]
<1>1. rec = [publication |-> u, claimed |-> TRUE]  OBVIOUS
<1>2. rec \in StoredBundle /\ rec # Absent /\ rec.publication = u /\ rec.claimed = TRUE
  <2>1. TRUE \in BOOLEAN  OBVIOUS
  <2>2. [publication |-> u, claimed |-> TRUE] \in StoredBundle  BY <2>1, BundleRecord
  <2>3. rec \in StoredBundle /\ rec # Absent  BY <1>1, <2>2, AbsentAssumption
  <2>4. rec.publication = u /\ rec.claimed = TRUE  BY <1>1
  <2>5. QED  BY <2>3, <2>4
<1>3. u.id \in BundleId /\ u.id # Absent /\ answer # Absent
  BY PublicationFields, AbsentAssumption
<1>4. PICK old : old = [publication |-> u, claimed |-> FALSE]  OBVIOUS
<1>5. /\ old # Absent /\ old.publication = u /\ old.claimed = FALSE
      /\ d[bundleKey(u.id)] = old
  BY <1>4, BundleRecord DEF Unclaimed
<1>6. \A b : /\ bundleKey(b) \in DOMAIN w <=> b = u.id
             /\ b = u.id => w[bundleKey(b)] = rec
  BY DEF Takes
<1>7. \A v : tupleKey(v) \notin DOMAIN w /\ publicKey(v) \notin DOMAIN w  BY DEF Takes
<1>8. \A v : /\ availableKey(v) \in DOMAIN w <=> availableKey(v) = availableKey(u)
             /\ availableKey(v) = availableKey(u) => w[availableKey(v)] = Absent
  BY DEF Takes
<1>9. \A x : /\ claimKey(x) \in DOMAIN w <=> x = c
             /\ x = c => w[claimKey(x)] = answer
  BY DEF Takes
<1>10. \A i, e : deviceRecordKey(i, e) \notin DOMAIN w /\ deviceMailboxBindingKey(i, e) \notin DOMAIN w
  BY DEF Takes
<1>11. WritesTyped(w)  BY <1>2, <1>6, <1>7, <1>8, <1>9, <1>10 DEF WritesTyped
<1>12. StoreTyped(Written(d, w))  BY <1>11, WrittenTyped
<1>13. PICK n : n = Written(d, w)  OBVIOUS
<1>14. \A k \in Key : n[k] = IF k \in DOMAIN w THEN w[k] ELSE d[k]  BY <1>13, WrittenValues
<1>15. \A b \in BundleId : n[bundleKey(b)] = IF b = u.id THEN rec ELSE d[bundleKey(b)]
  BY <1>6, <1>14, KeysExist
<1>16. \A v \in Publication : n[tupleKey(v)] = d[tupleKey(v)] /\ n[publicKey(v)] = d[publicKey(v)]
  BY <1>7, <1>14, KeysExist
<1>17. \A v \in Publication :
          n[availableKey(v)] = IF availableKey(v) = availableKey(u) THEN Absent ELSE d[availableKey(v)]
  BY <1>8, <1>14, KeysExist
<1>18. \A x \in ClaimId : n[claimKey(x)] = IF x = c THEN answer ELSE d[claimKey(x)]
  BY <1>9, <1>14, KeysExist
<1>19. \A i \in Identity, e \in Device :
          /\ n[deviceRecordKey(i, e)] = d[deviceRecordKey(i, e)]
          /\ n[deviceMailboxBindingKey(i, e)] = d[deviceMailboxBindingKey(i, e)]
  BY <1>10, <1>14, KeysExist
<1>20. \A b \in BundleId : n[bundleKey(b)] # Absent =>
          d[bundleKey(b)] # Absent /\ n[bundleKey(b)].publication = d[bundleKey(b)].publication
  BY <1>2, <1>5, <1>15
<1>21. Reserved(n)
  <2> SUFFICES ASSUME NEW b \in BundleId, n[bundleKey(b)] # Absent
               PROVE  LET v == n[bundleKey(b)].publication
                      IN  v.id = b /\ n[tupleKey(v)] = b /\ n[publicKey(v)] = b
    BY DEF Reserved
  <2>1. PICK v : v = d[bundleKey(b)].publication  OBVIOUS
  <2>2. n[bundleKey(b)].publication = v /\ d[bundleKey(b)] # Absent  BY <1>20, <2>1
  <2>3. v \in Publication /\ v.id = b /\ d[tupleKey(v)] = b /\ d[publicKey(v)] = b
    BY <2>1, <2>2, StoreFields DEF StoreInv, Reserved
  <2>4. QED  BY <1>16, <2>2, <2>3
<1>22. Indexed(n)
  <2>1. \A v \in Publication : v.id # u.id => (Unclaimed(n, v) <=> Unclaimed(d, v))
    BY <1>15, PublicationFields DEF Unclaimed
  <2>2. \A v \in Publication : v.id = u.id => ~Unclaimed(n, v) /\ (Unclaimed(d, v) => v = u)
    <3> SUFFICES ASSUME NEW v \in Publication, v.id = u.id
                 PROVE  ~Unclaimed(n, v) /\ (Unclaimed(d, v) => v = u)
      OBVIOUS
    <3>1. PICK r : r = [publication |-> v, claimed |-> FALSE]  OBVIOUS
    <3>2. r.publication = v /\ r.claimed = FALSE  BY <3>1
    <3>3. Unclaimed(d, v) => old = r  BY <1>5, <3>1 DEF Unclaimed
    <3>4. Unclaimed(n, v) => rec = r  BY <1>3, <1>15, <3>1 DEF Unclaimed
    <3>5. QED  BY <1>2, <1>5, <3>2, <3>3, <3>4
  <2>3. ASSUME NEW v \in Publication
        PROVE  n[availableKey(v)] # Absent <=>
                 \E x \in Publication : availableKey(x) = availableKey(v) /\ Unclaimed(n, x)
    <3>1. CASE availableKey(v) = availableKey(u)
      <4>1. \A x \in Publication : availableKey(x) = availableKey(v) => ~Unclaimed(n, x)
        BY <2>2, <3>1, KeysInjective
      <4>2. QED  BY <1>17, <3>1, <4>1
    <3>2. CASE availableKey(v) # availableKey(u)
      <4>1. n[availableKey(v)] = d[availableKey(v)]  BY <1>17, <3>2
      <4>2. \A x \in Publication : availableKey(x) = availableKey(v) =>
                (Unclaimed(n, x) <=> Unclaimed(d, x))
        BY <2>1, <2>2, <3>2
      <4>3. QED  BY <4>1, <4>2 DEF StoreInv, Indexed
    <3>3. QED  BY <3>1, <3>2
  <2>4. QED  BY <2>3 DEF Indexed
<1>23. ASSUME NEW x \in ClaimId, d[claimKey(x)] # Absent
       PROVE  LET v == d[claimKey(x)].publication
              IN  v.id # u.id /\ n[bundleKey(v.id)] = [publication |-> v, claimed |-> TRUE]
  <2>1. PICK v : v = d[claimKey(x)].publication  OBVIOUS
  <2>2. PICK r : r = [publication |-> v, claimed |-> TRUE]  OBVIOUS
  <2>3. v \in Publication /\ v.id \in BundleId  BY <1>23, <2>1, StoreFields, PublicationFields
  <2>4. d[bundleKey(v.id)] = r /\ r.claimed = TRUE  BY <1>23, <2>1, <2>2 DEF StoreInv, ClaimsHold
  <2>5. v.id # u.id  BY <1>5, <2>4
  <2>6. QED  BY <1>15, <2>1, <2>2, <2>3, <2>4, <2>5
<1>24. ClaimsHold(n)
  <2> SUFFICES ASSUME NEW x \in ClaimId, n[claimKey(x)] # Absent
               PROVE  LET v == n[claimKey(x)].publication
                      IN  n[bundleKey(v.id)] = [publication |-> v, claimed |-> TRUE]
    BY DEF ClaimsHold
  <2>1. CASE x = c
    <3>1. n[claimKey(x)].publication = u  BY <1>18, <2>1
    <3>2. n[bundleKey(u.id)] = rec  BY <1>3, <1>15
    <3>3. QED  BY <1>1, <3>1, <3>2
  <2>2. CASE x # c  BY <1>18, <1>23, <2>2
  <2>3. QED  BY <2>1, <2>2
<1>25. ClaimsApart(n)
  <2>1. \A x \in ClaimId : x # c /\ d[claimKey(x)] # Absent => d[claimKey(x)].publication.id # u.id
    BY <1>23
  <2>2. \A x, y \in ClaimId : d[claimKey(x)] # Absent /\ d[claimKey(y)] # Absent /\ x # y =>
           d[claimKey(x)].publication.id # d[claimKey(y)].publication.id
    BY DEF StoreInv, ClaimsApart
  <2>3. answer.publication = u  OBVIOUS
  <2>4. QED  BY <1>18, <2>1, <2>2, <2>3 DEF ClaimsApart
<1>26. Authorized(n)
  <2> SUFFICES ASSUME NEW b \in BundleId, n[bundleKey(b)] # Absent
               PROVE  LET v == n[bundleKey(b)].publication
                      IN  /\ n[deviceRecordKey(v.identity, v.device)] # Absent
                          /\ n[deviceMailboxBindingKey(v.identity, v.device)] = v.identity
    BY DEF Authorized
  <2>1. PICK v : v = d[bundleKey(b)].publication  OBVIOUS
  <2>2. n[bundleKey(b)].publication = v /\ d[bundleKey(b)] # Absent  BY <1>20, <2>1
  <2>3. v \in Publication /\ v.identity \in Identity /\ v.device \in Device
    BY <2>1, <2>2, StoreFields, PublicationFields
  <2>4. /\ d[deviceRecordKey(v.identity, v.device)] # Absent
        /\ d[deviceMailboxBindingKey(v.identity, v.device)] = v.identity
    BY <2>1, <2>2 DEF StoreInv, Authorized
  <2>5. QED  BY <1>19, <2>2, <2>3, <2>4
<1>27. StoreInv(n)  BY <1>21, <1>22, <1>24, <1>25, <1>26 DEF StoreInv
<1>28. QED  BY <1>12, <1>13, <1>18, <1>27

-----------------------------------------------------------------------------
(* One run of a callback over a snapshot s of the store d, with the keys D *)
(* written since.                                                          *)

\* The commit keeps the store sound, every claim it held, and records what it hands out.
Sound(d, r, e) ==
    LET n == Written(d, e.writes)
    IN  /\ StoreTyped(n) /\ StoreInv(n)
        /\ \A c \in ClaimId : d[claimKey(c)] # Absent => n[claimKey(c)] = d[claimKey(c)]
        /\ e.bundle # Absent =>
              /\ r.kind = "claim" /\ e.bundle \in Publication
              /\ n[claimKey(r.claim)] # Absent /\ n[claimKey(r.claim)].publication = e.bundle

LEMMA EffectFields ==
  ASSUME NEW reads, NEW writes, NEW bundle
  PROVE  /\ Effect(reads, writes, bundle).reads = reads
         /\ Effect(reads, writes, bundle).writes = writes
         /\ Effect(reads, writes, bundle).bundle = bundle
BY DEF Effect

LEMMA RefusalFields ==
  ASSUME NEW reads
  PROVE  Refuse(reads).writes = NoWrite /\ Refuse(reads).bundle = Absent
BY EffectFields DEF Refuse

LEMMA NoWriteEmpty == DOMAIN NoWrite = {}
BY DEF NoWrite

LEMMA RefusalSound ==
  ASSUME NEW d, StoreTyped(d), StoreInv(d), NEW r, NEW reads
  PROVE  Sound(d, r, Refuse(reads))
<1>1. PICK e : e = Refuse(reads)  OBVIOUS
<1>2. e.writes = NoWrite /\ e.bundle = Absent  BY <1>1, RefusalFields
<1>3. Written(d, e.writes) = d  BY <1>2, NoWriteEmpty, NothingWritten
<1>4. Sound(d, r, e)  BY <1>2, <1>3 DEF Sound
<1>5. QED  BY <1>1, <1>4

LEMMA AuthorizationSound ==
  ASSUME NEW d, StoreTyped(d), StoreInv(d), NEW r, NEW i \in Identity, NEW f \in Device,
         NEW e, AuthOnly(e.writes, i, f), e.bundle = Absent
  PROVE  Sound(d, r, e)
<1>1. PICK w : w = e.writes  OBVIOUS
<1>2. /\ StoreTyped(Written(d, w)) /\ StoreInv(Written(d, w))
      /\ \A c \in ClaimId : Written(d, w)[claimKey(c)] = d[claimKey(c)]
  BY <1>1, AuthOnlyStore
<1>3. QED  BY <1>1, <1>2 DEF Sound

LEMMA RecordWrites ==
  ASSUME NEW i, NEW f, NEW key \in PubKey, NEW b,
         DOMAIN b \subseteq {deviceMailboxBindingKey(i, f)}, \A k \in DOMAIN b : b[k] = i,
         NEW w, w = [k \in {deviceRecordKey(i, f)} \cup DOMAIN b |->
                       IF k \in DOMAIN b THEN b[k] ELSE key]
  PROVE  AuthOnly(w, i, f)
BY DeviceKeysApart DEF AuthOnly

LEMMA DeviceWrites ==
  ASSUME NEW s, NEW i, NEW f, NEW key \in PubKey
  PROVE  AuthOnly([k \in {deviceRecordKey(i, f)} \cup DOMAIN BindingWrites(s, i, f) |->
                     IF k \in DOMAIN BindingWrites(s, i, f) THEN BindingWrites(s, i, f)[k] ELSE key], i, f)
<1>1. PICK b : b = BindingWrites(s, i, f)  OBVIOUS
<1>2. DOMAIN b = {deviceMailboxBindingKey(i, f)} \cap {k \in Key : s[k] = Absent}
  BY <1>1, BindingWritesDomain
<1>3. \A k \in DOMAIN b : b[k] = i  BY <1>1, BindingWritesDomain
<1>4. DOMAIN b \subseteq {deviceMailboxBindingKey(i, f)}  BY <1>2
<1>5. PICK w : w = [k \in {deviceRecordKey(i, f)} \cup DOMAIN b |->
                       IF k \in DOMAIN b THEN b[k] ELSE key]
  OBVIOUS
<1>6. AuthOnly(w, i, f)  BY <1>3, <1>4, <1>5, RecordWrites
<1>7. QED  BY <1>1, <1>5, <1>6

\* The writes of a new bundle, as SaveSignalV2 tells them apart.
LEMMA CasesOfPublish ==
  ASSUME NEW S, NEW a, NEW key, key \notin DOMAIN a, NEW rec, NEW id
  PROVE  [k \in S \cup DOMAIN a |-> CASE k \in DOMAIN a -> a[k] [] k = key -> rec [] OTHER -> id] =
         [k \in S \cup DOMAIN a |-> IF k \in DOMAIN a THEN a[k] ELSE IF k = key THEN rec ELSE id]
<1>1. \A k : (CASE k \in DOMAIN a -> a[k] [] k = key -> rec [] OTHER -> id) =
             IF k \in DOMAIN a THEN a[k] ELSE IF k = key THEN rec ELSE id
  <2> TAKE k
  <2>1. CASE k \in DOMAIN a  BY <2>1
  <2>2. CASE k \notin DOMAIN a /\ k = key  BY <2>2
  <2>3. CASE k \notin DOMAIN a /\ k # key  BY <2>3
  <2>4. QED  BY <2>1, <2>2, <2>3
<1>2. QED  BY <1>1

LEMMA DeviceEffect ==
  ASSUME NEW d, StoreTyped(d), StoreInv(d), NEW s,
         NEW r \in [kind: {"device"}, identity: Identity, device: Device, pubkey: PubKey]
  PROVE  Sound(d, r, SaveDeviceRecord(s, r))
<1>1. PICK i, f, pub : i = r.identity /\ f = r.device /\ pub = r.pubkey  OBVIOUS
<1>2. i \in Identity /\ f \in Device /\ pub \in PubKey  BY <1>1
<1> DEFINE reads == {deviceRecordKey(i, f), deviceMailboxBindingKey(i, f)}
           w == [k \in {deviceRecordKey(i, f)} \cup DOMAIN BindingWrites(s, i, f) |->
                   IF k \in DOMAIN BindingWrites(s, i, f) THEN BindingWrites(s, i, f)[k] ELSE pub]
<1>3. SaveDeviceRecord(s, r) \in {Refuse(reads), Effect(reads, w, Absent)}
  BY <1>1 DEF SaveDeviceRecord
<1>4. AuthOnly(w, i, f)  BY <1>2, DeviceWrites
<1> HIDE DEF reads, w
<1>5. PICK e : e = Effect(reads, w, Absent)  OBVIOUS
<1>6. e.writes = w /\ e.bundle = Absent  BY <1>5, EffectFields
<1>7. Sound(d, r, e)  BY <1>2, <1>4, <1>6, AuthorizationSound
<1>8. QED  BY <1>3, <1>5, <1>7, RefusalSound

LEMMA PublishEffect ==
  ASSUME NEW d, StoreTyped(d), StoreInv(d), NEW s, NEW D, Snapshot(s, d, D),
         NEW r \in [kind: {"publish"}, publication: Publication],
         NEW e, e = SaveSignalV2(s, r),
         DOMAIN e.writes = {} \/ e.reads \cap D = {}
  PROVE  Sound(d, r, e)
<1>1. PICK u : u = r.publication  OBVIOUS
<1>2. u \in Publication  BY <1>1
<1>3. u.identity \in Identity /\ u.device \in Device /\ u.id \in BundleId  BY <1>2, PublicationFields
<1>4. PICK a : a = AuthorizationWrites(s, u)  OBVIOUS
<1>5. PICK rec : rec = [publication |-> u, claimed |-> FALSE]  OBVIOUS
<1> DEFINE rk == deviceRecordKey(u.identity, u.device)
           bk == deviceMailboxBindingKey(u.identity, u.device)
           reads == {bundleKey(u.id), tupleKey(u), publicKey(u)} \cup {rk, bk}
           w == [k \in {bundleKey(u.id), tupleKey(u), publicKey(u), availableKey(u)} \cup DOMAIN a |->
                   IF k \in DOMAIN a THEN a[k] ELSE IF k = bundleKey(u.id) THEN rec ELSE u.id]
<1>6. DOMAIN a = {k \in {rk, bk} : s[k] = Absent} /\ AuthOnly(a, u.identity, u.device)
  BY <1>2, <1>4, AuthorizationWritesDomain
<1>7. \/ \E x : e = Refuse(x)
      \/ \E x : e = Effect(x, a, Absent)
      \/ /\ s[bundleKey(u.id)] = Absent /\ s[tupleKey(u)] = Absent /\ s[publicKey(u)] = Absent
         /\ e = Effect(reads, w, Absent)
  <2> DEFINE cases == [k \in {bundleKey(u.id), tupleKey(u), publicKey(u), availableKey(u)} \cup DOMAIN a |->
                         CASE k \in DOMAIN a -> a[k]
                           [] k = bundleKey(u.id) -> rec
                           [] OTHER -> u.id]
  <2>1. bundleKey(u.id) \notin DOMAIN a  BY <1>6, KeyTags DEF AuthOnly
  <2>2. cases = w  BY <2>1, CasesOfPublish
  <2> HIDE DEF w
  <2>3. PICK stored : stored = s[bundleKey(u.id)]  OBVIOUS
  <2>4. e = IF stored # Absent
            THEN IF stored.publication = u /\ AuthorizationAccepts(s, u)
                 THEN Effect({bundleKey(u.id)} \cup {rk, bk}, a, Absent)
                 ELSE Refuse(reads)
            ELSE IF /\ s[tupleKey(u)] = Absent
                    /\ s[publicKey(u)] = Absent
                    /\ AuthorizationAccepts(s, u)
            THEN Effect(reads, cases, Absent)
            ELSE Refuse(reads)
    BY <1>1, <1>4, <1>5, <2>3 DEF SaveSignalV2
  <2> HIDE DEF cases, rk, bk, reads
  <2>5. QED  BY <2>2, <2>3, <2>4
<1>8. ASSUME NEW x, e = Refuse(x) PROVE Sound(d, r, e)  BY <1>8, RefusalSound
<1>9. ASSUME NEW x, e = Effect(x, a, Absent) PROVE Sound(d, r, e)
  <2>1. e.writes = a /\ e.bundle = Absent  BY <1>9, EffectFields
  <2>2. QED  BY <1>3, <1>6, <2>1, AuthorizationSound
<1>10. ASSUME s[bundleKey(u.id)] = Absent, s[tupleKey(u)] = Absent, s[publicKey(u)] = Absent,
              e = Effect(reads, w, Absent)
       PROVE  Sound(d, r, e)
  <2>1. e.writes = w /\ e.bundle = Absent /\ e.reads = reads  BY <1>10, EffectFields
  <2>2. bundleKey(u.id) \in DOMAIN w  OBVIOUS
  <2>3. Publishes(w, u, a, rec)  BY <1>6, PublishWrites
  <2> HIDE DEF w
  <2>4. reads \cap D = {}  BY <2>1, <2>2
  <2>5. \A k \in reads : k \in Key /\ s[k] = d[k]
    <3>1. \A k \in reads : k \in Key  BY <1>2, <1>3, KeysExist
    <3>2. QED  BY <2>4, <3>1 DEF Snapshot
  <2>6. /\ d[bundleKey(u.id)] = Absent /\ d[tupleKey(u)] = Absent /\ d[publicKey(u)] = Absent
        /\ d[rk] = Absent => rk \in DOMAIN a
        /\ d[bk] = Absent => bk \in DOMAIN a
    <3> HIDE DEF rk, bk
    <3>1. QED  BY <1>6, <1>10, <2>5
  <2> HIDE DEF reads
  <2>7. /\ StoreTyped(Written(d, w)) /\ StoreInv(Written(d, w))
        /\ \A c \in ClaimId : Written(d, w)[claimKey(c)] = d[claimKey(c)]
    <3>1. Fresh(d, u, a)  BY <2>6 DEF Fresh
    <3>2. NewBundle(w, u, a)  BY <1>5, <2>3 DEF NewBundle
    <3>3. QED  BY <1>2, <3>1, <3>2, PublishStore
  <2>8. QED  BY <2>1, <2>7 DEF Sound
<1>11. QED  BY <1>7, <1>8, <1>9, <1>10

\* The writes of a claim, as ClaimWrites tells them apart.
LEMMA CasesOfClaim ==
  ASSUME NEW r, NEW u, NEW rec, rec = [publication |-> u, claimed |-> TRUE],
         NEW answer, answer = [identity |-> r.identity, device |-> r.device, publication |-> u]
  PROVE  Takes(ClaimWrites(r, u), u, r.claim, rec, answer)
<1>1. PICK bk, ak, ck : bk = bundleKey(u.id) /\ ak = availableKey(u) /\ ck = claimKey(r.claim)  OBVIOUS
<1>2. bk # ak /\ bk # ck /\ ak # ck  BY <1>1, KeyTags
<1>3. ClaimWrites(r, u) = [k \in {bk, ak, ck} |-> CASE k = bk -> rec [] k = ak -> Absent [] OTHER -> answer]
  BY <1>1 DEF ClaimWrites
<1>4. \A k : (CASE k = bk -> rec [] k = ak -> Absent [] OTHER -> answer) =
              IF k = bk THEN rec ELSE IF k = ak THEN Absent ELSE answer
  <2> TAKE k
  <2>1. CASE k = bk  BY <1>2, <2>1
  <2>2. CASE k # bk /\ k = ak  BY <2>2
  <2>3. CASE k # bk /\ k # ak  BY <2>3
  <2>4. QED  BY <2>1, <2>2, <2>3
<1>5. PICK w : w = [k \in {bk, ak, ck} |-> IF k = bk THEN rec ELSE IF k = ak THEN Absent ELSE answer]
  OBVIOUS
<1>6. ClaimWrites(r, u) = w  BY <1>3, <1>4, <1>5
<1>7. w = [k \in {bundleKey(u.id), availableKey(u), claimKey(r.claim)} |->
             IF k = bundleKey(u.id) THEN rec ELSE IF k = availableKey(u) THEN Absent ELSE answer]
  BY <1>1, <1>5
<1>8. Takes(w, u, r.claim, rec, answer)  BY <1>7, TakeWrites
<1>9. QED  BY <1>6, <1>8

\* The bundle a claim takes is the first that serves it, unclaimed in the snapshot,
\* and the walk has read its keys.
Taken(s, r, u, reads) ==
    /\ u \in Publication /\ Unclaimed(s, u) /\ s[claimKey(r.claim)] = Absent
    /\ claimKey(r.claim) \in reads /\ availableKey(u) \in reads /\ bundleKey(u.id) \in reads

LEMMA WalkReads ==
  ASSUME NEW r, NEW walked, NEW u \in walked
  PROVE  /\ claimKey(r.claim) \in ClaimReads(r, walked)
         /\ availableKey(u) \in ClaimReads(r, walked) /\ bundleKey(u.id) \in ClaimReads(r, walked)
<1> DEFINE own(v) == {availableKey(v), bundleKey(v.id)}
           read == UNION {own(v) : v \in walked}
<1>1. ClaimReads(r, walked) = {claimKey(r.claim)} \cup read  BY DEF ClaimReads
<1>2. availableKey(u) \in own(u) /\ bundleKey(u.id) \in own(u)  OBVIOUS
<1> HIDE DEF own
<1>3. availableKey(u) \in read /\ bundleKey(u.id) \in read  BY <1>2
<1> HIDE DEF read
<1>4. QED  BY <1>1, <1>3

LEMMA ClaimCases ==
  ASSUME NEW s, StoreTyped(s),
         NEW r, NEW e, e = ClaimSignalV2(s, r)
  PROVE  \/ /\ s[claimKey(r.claim)] # Absent
            /\ \E x, b : e = Effect(x, NoWrite, b) /\ b \in {s[claimKey(r.claim)].publication, Absent}
         \/ \E x : e = Refuse(x)
         \/ \E x, u : e = Effect(x, ClaimWrites(r, u), u) /\ Taken(s, r, u, x)
<1> DEFINE old == s[claimKey(r.claim)]
           available == AvailableTo(s, r.identity)
           first == {u \in available :
                       /\ Serves(s, r, u)
                       /\ \A v \in available : Serves(s, r, v) => ~Earlier(v, u)}
           walked == {v \in available : \A u \in first : ~Earlier(u, v)}
           reads == ClaimReads(r, walked)
           b == IF old.identity = r.identity /\ old.device = r.device THEN old.publication ELSE Absent
           u == CHOOSE u \in first : TRUE
<1>1. e = IF old # Absent THEN Effect(reads, NoWrite, b)
          ELSE IF first = {} THEN Refuse(reads)
          ELSE Effect(reads, ClaimWrites(r, u), u)
  BY DEF ClaimSignalV2
<1>2. b \in {old.publication, Absent}  OBVIOUS
<1>3. ASSUME old = Absent, first # {} PROVE Taken(s, r, u, reads)
  <2>1. u \in first  BY <1>3
  <2>2. PICK v : v = u  OBVIOUS
  <2> HIDE DEF u
  <2>3. /\ v \in available /\ Serves(s, r, v)
        /\ \A x \in available : Serves(s, r, x) => ~Earlier(x, v)
    BY <2>1, <2>2
  <2>4. v \in walked  BY <2>3
  <2>5. /\ v \in Publication /\ s[bundleKey(v.id)] # Absent /\ s[bundleKey(v.id)].publication = v
    BY <2>3 DEF AvailableTo
  <2>6. ~s[bundleKey(v.id)].claimed  BY <2>3 DEF Serves
  <2> HIDE DEF available, first, walked
  <2>7. Unclaimed(s, v)
    <3>1. PICK x : x = s[bundleKey(v.id)]  OBVIOUS
    <3>2. v.id \in BundleId  BY <2>5, PublicationFields
    <3>3. x.claimed \in BOOLEAN /\ x = [publication |-> x.publication, claimed |-> x.claimed]
      BY <2>5, <3>1, <3>2, StoreFields
    <3>4. x.claimed = FALSE  BY <2>6, <3>1, <3>3
    <3>5. x = [publication |-> v, claimed |-> FALSE]  BY <2>5, <3>1, <3>3, <3>4
    <3>6. QED  BY <3>1, <3>5 DEF Unclaimed
  <2>8. claimKey(r.claim) \in reads /\ availableKey(v) \in reads /\ bundleKey(v.id) \in reads
    BY <2>4, WalkReads
  <2> HIDE DEF reads
  <2>9. QED  BY <1>3, <2>2, <2>5, <2>7, <2>8 DEF Taken
<1> HIDE DEF available, first, walked, reads, u, b
<1>4. QED  BY <1>1, <1>2, <1>3

LEMMA ClaimEffect ==
  ASSUME NEW d, StoreTyped(d), StoreInv(d), NEW s, NEW D, Snapshot(s, d, D),
         NEW r \in [kind: {"claim"}, claim: ClaimId, identity: Identity,
                    device: Device \cup {Absent}, now: Nat],
         NEW e, e = ClaimSignalV2(s, r),
         DOMAIN e.writes = {} \/ e.reads \cap D = {}
  PROVE  Sound(d, r, e)
<1>1. r.kind = "claim" /\ r.claim \in ClaimId /\ r.identity \in Identity /\ r.device \in Device \cup {Absent}
  OBVIOUS
<1>2. StoreTyped(s)  BY DEF Snapshot
<1>3. \/ /\ s[claimKey(r.claim)] # Absent
         /\ \E x, b : e = Effect(x, NoWrite, b) /\ b \in {s[claimKey(r.claim)].publication, Absent}
      \/ \E x : e = Refuse(x)
      \/ \E x, u : e = Effect(x, ClaimWrites(r, u), u) /\ Taken(s, r, u, x)
  BY <1>2, ClaimCases
<1>4. ASSUME s[claimKey(r.claim)] # Absent, NEW x, NEW b, e = Effect(x, NoWrite, b),
             b \in {s[claimKey(r.claim)].publication, Absent}
      PROVE  Sound(d, r, e)
  <2>1. e.writes = NoWrite /\ e.bundle = b  BY <1>4, EffectFields
  <2>2. Written(d, e.writes) = d  BY <2>1, NoWriteEmpty, NothingWritten
  <2>3. d[claimKey(r.claim)] = s[claimKey(r.claim)]  BY <1>1, <1>4 DEF Snapshot
  <2>4. s[claimKey(r.claim)].publication \in Publication  BY <1>1, <1>2, <1>4, StoreFields
  <2>5. QED  BY <1>1, <1>4, <2>1, <2>2, <2>3, <2>4 DEF Sound
<1>5. ASSUME NEW x, e = Refuse(x) PROVE Sound(d, r, e)  BY <1>5, RefusalSound
<1>6. ASSUME NEW x, NEW u, e = Effect(x, ClaimWrites(r, u), u), Taken(s, r, u, x)
      PROVE  Sound(d, r, e)
  <2>1. PICK w : w = ClaimWrites(r, u)  OBVIOUS
  <2>2. e.writes = w /\ e.bundle = u /\ e.reads = x  BY <1>6, <2>1, EffectFields
  <2>3. PICK rec : rec = [publication |-> u, claimed |-> TRUE]  OBVIOUS
  <2>4. PICK answer : answer = [identity |-> r.identity, device |-> r.device, publication |-> u]  OBVIOUS
  <2>5. Takes(w, u, r.claim, rec, answer)  BY <2>1, <2>3, <2>4, CasesOfClaim
  <2>6. u \in Publication /\ u.id \in BundleId  BY <1>6, PublicationFields DEF Taken
  <2>7. answer \in StoredClaim /\ answer.publication = u  BY <1>1, <2>4, <2>6 DEF StoredClaim
  <2>8. answer # Absent  BY <2>7, AbsentAssumption
  <2>9. x \cap D = {}
    <3>1. claimKey(r.claim) \in DOMAIN w  BY <2>5 DEF Takes
    <3>2. QED  BY <2>2, <3>1
  <2>10. bundleKey(u.id) \in Key \ D /\ claimKey(r.claim) \in Key \ D
    BY <1>1, <1>6, <2>6, <2>9, KeysExist DEF Taken
  <2>11. Unclaimed(d, u) /\ d[claimKey(r.claim)] = Absent
    BY <1>6, <2>10 DEF Snapshot, Taken, Unclaimed
  <2>12. PICK c : c = r.claim  OBVIOUS
  <2>13. /\ StoreTyped(Written(d, w)) /\ StoreInv(Written(d, w))
         /\ \A y \in ClaimId : Written(d, w)[claimKey(y)] = IF y = c THEN answer ELSE d[claimKey(y)]
    BY <1>1, <2>3, <2>5, <2>6, <2>7, <2>11, <2>12, ClaimStore
  <2>14. QED  BY <1>1, <2>2, <2>6, <2>7, <2>8, <2>11, <2>12, <2>13 DEF Sound
<1>7. QED  BY <1>3, <1>4, <1>5, <1>6

LEMMA EffectSound ==
  ASSUME NEW d, StoreTyped(d), StoreInv(d), NEW s, NEW D, Snapshot(s, d, D),
         NEW r \in Request, NEW e, e = RunOver(s, r),
         DOMAIN e.writes = {} \/ e.reads \cap D = {}
  PROVE  Sound(d, r, e)
<1>1. ASSUME NEW x \in [kind: {"device"}, identity: Identity, device: Device, pubkey: PubKey], x = r
      PROVE  Sound(d, r, e)
  <2>1. r.kind = "device"  BY <1>1
  <2>2. e = SaveDeviceRecord(s, r)  BY <2>1 DEF RunOver
  <2>3. QED  BY <1>1, <2>2, DeviceEffect
<1>2. ASSUME NEW x \in [kind: {"publish"}, publication: Publication], x = r
      PROVE  Sound(d, r, e)
  <2>1. r.kind = "publish"  BY <1>2
  <2>2. e = SaveSignalV2(s, r)  BY <2>1 DEF RunOver
  <2>3. QED  BY <1>2, <2>2, PublishEffect
<1>3. ASSUME NEW x \in [kind: {"claim"}, claim: ClaimId, identity: Identity,
                        device: Device \cup {Absent}, now: Nat], x = r
      PROVE  Sound(d, r, e)
  <2>1. r.kind = "claim"  BY <1>3
  <2>2. e = ClaimSignalV2(s, r)  BY <2>1 DEF RunOver
  <2>3. QED  BY <1>3, <2>2, ClaimEffect
<1>4. QED  BY <1>1, <1>2, <1>3 DEF Request

\* A transaction writes keys of the store.
LEMMA WritesAreKeys ==
  ASSUME NEW s, StoreTyped(s), NEW r \in Request, NEW e, e = RunOver(s, r)
  PROVE  DOMAIN e.writes \subseteq Key
<1>1. ASSUME NEW x \in [kind: {"device"}, identity: Identity, device: Device, pubkey: PubKey], x = r
      PROVE  DOMAIN e.writes \subseteq Key
  <2>1. r.kind = "device" /\ r.identity \in Identity /\ r.device \in Device  BY <1>1
  <2>2. e = SaveDeviceRecord(s, r)  BY <2>1 DEF RunOver
  <2> DEFINE b == BindingWrites(s, r.identity, r.device)
             w == [k \in {deviceRecordKey(r.identity, r.device)} \cup DOMAIN b |->
                     IF k \in DOMAIN b THEN b[k] ELSE r.pubkey]
  <2>3. \E y : e \in {Refuse(y), Effect(y, w, Absent)}  BY <2>2 DEF SaveDeviceRecord
  <2>4. DOMAIN w = {deviceRecordKey(r.identity, r.device)} \cup DOMAIN b  OBVIOUS
  <2>5. DOMAIN b \subseteq Key  BY DEF BindingWrites
  <2> HIDE DEF w, b
  <2>6. DOMAIN w \subseteq Key  BY <2>1, <2>4, <2>5, KeysExist
  <2>7. e.writes \in {NoWrite, w}  BY <2>3, EffectFields, RefusalFields
  <2>8. QED  BY <2>6, <2>7, NoWriteEmpty
<1>2. ASSUME NEW x \in [kind: {"publish"}, publication: Publication], x = r
      PROVE  DOMAIN e.writes \subseteq Key
  <2>1. r.kind = "publish"  BY <1>2
  <2>2. e = SaveSignalV2(s, r)  BY <2>1 DEF RunOver
  <2>3. PICK u : u = r.publication  OBVIOUS
  <2>4. u \in Publication /\ u.identity \in Identity /\ u.device \in Device /\ u.id \in BundleId
    BY <1>2, <2>3, PublicationFields
  <2>5. PICK a : a = AuthorizationWrites(s, u)  OBVIOUS
  <2> DEFINE w == [k \in {bundleKey(u.id), tupleKey(u), publicKey(u), availableKey(u)} \cup DOMAIN a |->
                        CASE k \in DOMAIN a -> a[k]
                          [] k = bundleKey(u.id) -> [publication |-> u, claimed |-> FALSE]
                          [] OTHER -> u.id]
  <2>6. \E y : e \in {Refuse(y), Effect(y, a, Absent), Effect(y, w, Absent)}
    BY <2>2, <2>3, <2>5 DEF SaveSignalV2
  <2>7. DOMAIN w = {bundleKey(u.id), tupleKey(u), publicKey(u), availableKey(u)} \cup DOMAIN a  OBVIOUS
  <2> HIDE DEF w
  <2>8. DOMAIN a \subseteq Key
    <3>1. DOMAIN a \subseteq {deviceRecordKey(u.identity, u.device),
                              deviceMailboxBindingKey(u.identity, u.device)}
      BY <2>4, <2>5, AuthorizationWritesDomain DEF AuthOnly
    <3>2. QED  BY <2>4, <3>1, KeysExist
  <2>9. DOMAIN w \subseteq Key  BY <2>4, <2>7, <2>8, KeysExist
  <2>10. e.writes \in {NoWrite, a, w}  BY <2>6, EffectFields, RefusalFields
  <2>11. QED  BY <2>8, <2>9, <2>10, NoWriteEmpty
<1>3. ASSUME NEW x \in [kind: {"claim"}, claim: ClaimId, identity: Identity,
                        device: Device \cup {Absent}, now: Nat], x = r
      PROVE  DOMAIN e.writes \subseteq Key
  <2>1. r.kind = "claim" /\ r.claim \in ClaimId  BY <1>3
  <2>2. e = ClaimSignalV2(s, r)  BY <2>1 DEF RunOver
  <2>3. \/ e.writes = NoWrite
        \/ \E u \in Publication : e.writes = ClaimWrites(r, u)
    BY <2>2, ClaimCases, EffectFields, RefusalFields DEF Taken
  <2>4. \A u \in Publication : DOMAIN ClaimWrites(r, u) \subseteq Key
    BY <2>1, KeysExist, PublicationFields DEF ClaimWrites
  <2>5. QED  BY <2>3, <2>4, NoWriteEmpty
<1>4. QED  BY <1>1, <1>2, <1>3 DEF Request

-----------------------------------------------------------------------------
(* The steps.                                                              *)

LEMMA InvariantTyped == IInv => TypeOK
<1> SUFFICES ASSUME IInv PROVE TypeOK  OBVIOUS
<1>1. ASSUME NEW p \in Proc
      PROVE  /\ snap[p] = NoTxn \/ StoreTyped(snap[p])
             /\ Open(p) <=> pc[p] = "commit"
             /\ dirty[p] \subseteq Key
             /\ req[p] \in IF pc[p] = "idle" THEN {NoRequest} ELSE Request
  <2>1. Handler(db, snap[p], dirty[p], pc[p], req[p])  BY DEF IInv, Handlers
  <2>2. CASE pc[p] = "commit"
    <3>1. StoreTyped(snap[p]) /\ dirty[p] \subseteq Key /\ req[p] \in Request
      BY <2>1, <2>2 DEF Handler, Snapshot
    <3>2. Open(p)  BY <3>1, StoreIsNoMarker DEF Open
    <3>3. QED  BY <2>2, <3>1, <3>2
  <2>3. CASE pc[p] # "commit"  BY <2>1, <2>3 DEF Handler, Open
  <2>4. QED  BY <2>2, <2>3
<1>2. QED  BY <1>1 DEF TypeOK, IInv, Handlers

LEMMA InitInvariant == Init => IInv
<1> SUFFICES ASSUME Init PROVE IInv  OBVIOUS
<1> DEFINE legacy(k) == {x \in LegacyDevice : k = deviceRecordKey(x.identity, x.device)}
           stored(k) == (CHOOSE x \in legacy(k) : TRUE).pubkey
<1>1. /\ db = [k \in Key |-> IF legacy(k) = {} THEN Absent ELSE stored(k)]
      /\ snap = [p \in Proc |-> NoTxn] /\ dirty = [p \in Proc |-> {}]
  BY DEF Init, TxnInit
<1>2. \A k : k[1] # "device_record" => legacy(k) = {}  BY KeyTags
<1>3. \A k : legacy(k) # {} => stored(k) \in PubKey
  <2> SUFFICES ASSUME NEW k, legacy(k) # {} PROVE stored(k) \in PubKey  OBVIOUS
  <2>1. (CHOOSE x \in legacy(k) : TRUE) \in legacy(k)  OBVIOUS
  <2>2. (CHOOSE x \in legacy(k) : TRUE) \in LegacyDevice  BY <2>1
  <2>3. QED  BY <2>2, RegistryAssumption
<1> HIDE DEF legacy, stored
<1>4. \A k \in Key : k[1] # "device_record" => db[k] = Absent  BY <1>1, <1>2
<1>5. \A k \in Key : db[k] \in PubKey \cup {Absent}  BY <1>1, <1>3
<1>6. db = [k \in Key |-> db[k]]  BY <1>1
<1>7. \A i \in Identity, d \in Device : db[deviceMailboxBindingKey(i, d)] = Absent
  BY <1>4, KeysExist, KeyTags
<1>8. \A b \in BundleId : db[bundleKey(b)] = Absent  BY <1>4, KeysExist, KeyTags
<1>9. \A u \in Publication : /\ db[tupleKey(u)] = Absent /\ db[publicKey(u)] = Absent
                               /\ db[availableKey(u)] = Absent
  BY <1>4, KeysExist, KeyTags
<1>10. \A c \in ClaimId : db[claimKey(c)] = Absent  BY <1>4, KeysExist, KeyTags
<1>11. StoreTyped(db)  BY <1>5, <1>6, <1>7, <1>8, <1>9, <1>10, KeysExist DEF StoreTyped
<1>12. \A v \in Publication : ~Unclaimed(db, v)
  <2> SUFFICES ASSUME NEW v \in Publication PROVE ~Unclaimed(db, v)  OBVIOUS
  <2>1. PICK r : r = [publication |-> v, claimed |-> FALSE]  OBVIOUS
  <2>2. r # Absent  BY <2>1, BundleRecord
  <2>3. db[bundleKey(v.id)] = Absent  BY <1>8, PublicationFields
  <2>4. QED  BY <2>1, <2>2, <2>3 DEF Unclaimed
<1>13. StoreInv(db)
  BY <1>8, <1>9, <1>10, <1>12 DEF StoreInv, Reserved, Indexed, ClaimsHold, ClaimsApart, Authorized
<1>14. Handlers
  <2>1. pc = [p \in Proc |-> "idle"] /\ req = [p \in Proc |-> NoRequest] /\ tries = [p \in Proc |-> 0]
    BY DEF Init
  <2>2. 0 \in 0..Retries  BY RegistryAssumption
  <2>3. \A p \in Proc : Handler(db, snap[p], dirty[p], pc[p], req[p])
    BY <1>1, <2>1 DEF Handler
  <2>4. QED  BY <1>1, <2>1, <2>2, <2>3 DEF Handlers
<1>15. now \in 0..MaxTime /\ handed = {}  BY RegistryAssumption DEF Init
<1>16. QED  BY <1>11, <1>13, <1>14, <1>15 DEF IInv, HandedRecorded

LEMMA StartStep ==
  ASSUME IInv, NEW p \in Proc, NEW r \in Request, Start(p, r)
  PROVE  IInv'
<1>1. /\ pc[p] = "idle" /\ req' = [req EXCEPT ![p] = r] /\ pc' = [pc EXCEPT ![p] = "begin"]
      /\ tries' = [tries EXCEPT ![p] = Retries]
      /\ db' = db /\ snap' = snap /\ dirty' = dirty /\ now' = now /\ handed' = handed
  BY DEF Start
<1>2. ASSUME NEW q \in Proc PROVE Handler(db', snap'[q], dirty'[q], pc'[q], req'[q])
  <2>1. Handler(db, snap[q], dirty[q], pc[q], req[q])  BY DEF IInv, Handlers
  <2>2. CASE q = p
    <3>1. pc'[q] = "begin" /\ req'[q] = r  BY <1>1, <2>2 DEF IInv, Handlers
    <3>2. QED  BY <1>1, <2>1, <2>2, <3>1 DEF Handler
  <2>3. CASE q # p
    <3>1. pc'[q] = pc[q] /\ req'[q] = req[q]  BY <1>1, <2>3 DEF IInv, Handlers
    <3>2. QED  BY <1>1, <2>1, <3>1
  <2>4. QED  BY <2>2, <2>3
<1>3. pc' \in [Proc -> {"idle", "begin", "commit"}] /\ tries' \in [Proc -> 0..Retries]
  BY <1>1, RegistryAssumption DEF IInv, Handlers
<1>4. DOMAIN snap' = Proc /\ DOMAIN dirty' = Proc /\ DOMAIN req' = Proc
  BY <1>1 DEF IInv, Handlers
<1>5. Handlers'  BY <1>2, <1>3, <1>4 DEF Handlers
<1>6. HandedRecorded'  BY <1>1 DEF IInv, HandedRecorded
<1>7. StoreTyped(db') /\ StoreInv(db')  BY <1>1 DEF IInv
<1>8. now' \in 0..MaxTime /\ handed' \subseteq ClaimId \X Publication  BY <1>1 DEF IInv
<1>9. QED  BY <1>5, <1>6, <1>7, <1>8 DEF IInv

LEMMA BeginStep ==
  ASSUME IInv, NEW p \in Proc, BeginTransaction(p)
  PROVE  IInv'
<1>1. /\ pc[p] = "begin" /\ snap' = [snap EXCEPT ![p] = db] /\ pc' = [pc EXCEPT ![p] = "commit"]
      /\ db' = db /\ dirty' = dirty /\ now' = now /\ req' = req /\ tries' = tries /\ handed' = handed
  BY DEF BeginTransaction, Begin
<1>2. ASSUME NEW q \in Proc PROVE Handler(db', snap'[q], dirty'[q], pc'[q], req'[q])
  <2>1. Handler(db, snap[q], dirty[q], pc[q], req[q])  BY DEF IInv, Handlers
  <2>2. CASE q = p
    <3>1. pc'[q] = "commit" /\ snap'[q] = db  BY <1>1, <2>2 DEF IInv, Handlers
    <3>2. dirty[q] = {} /\ req[q] \in Request  BY <1>1, <2>1, <2>2 DEF Handler
    <3>3. Snapshot(db, db, {})  BY DEF Snapshot, IInv
    <3>4. QED  BY <1>1, <3>1, <3>2, <3>3 DEF Handler
  <2>3. CASE q # p
    <3>1. pc'[q] = pc[q] /\ snap'[q] = snap[q]  BY <1>1, <2>3 DEF IInv, Handlers
    <3>2. QED  BY <1>1, <2>1, <3>1
  <2>4. QED  BY <2>2, <2>3
<1>3. pc' \in [Proc -> {"idle", "begin", "commit"}] /\ tries' \in [Proc -> 0..Retries]
  BY <1>1 DEF IInv, Handlers
<1>4. DOMAIN snap' = Proc /\ DOMAIN dirty' = Proc /\ DOMAIN req' = Proc
  BY <1>1 DEF IInv, Handlers
<1>5. Handlers'  BY <1>2, <1>3, <1>4 DEF Handlers
<1>6. HandedRecorded'  BY <1>1 DEF IInv, HandedRecorded
<1>7. StoreTyped(db') /\ StoreInv(db')  BY <1>1 DEF IInv
<1>8. now' \in 0..MaxTime /\ handed' \subseteq ClaimId \X Publication  BY <1>1 DEF IInv
<1>9. QED  BY <1>5, <1>6, <1>7, <1>8 DEF IInv

\* Another handler's snapshot when a transaction commits.
LEMMA SnapshotKept ==
  ASSUME NEW d, StoreTyped(d), NEW s, NEW D, Snapshot(s, d, D), NEW w, NEW n, n = Written(d, w),
         \A c \in ClaimId : d[claimKey(c)] # Absent => n[claimKey(c)] = d[claimKey(c)]
  PROVE  Snapshot(s, n, D \cup DOMAIN w)
<1>1. StoreTyped(s)  BY DEF Snapshot
<1>2. ASSUME NEW k \in Key \ (D \cup DOMAIN w) PROVE s[k] = n[k]
  <2>1. n[k] = d[k]  BY <1>2, WrittenValues
  <2>2. s[k] = d[k]  BY <1>2 DEF Snapshot
  <2>3. QED  BY <2>1, <2>2
<1>3. ASSUME NEW c \in ClaimId, s[claimKey(c)] # Absent PROVE s[claimKey(c)] = n[claimKey(c)]
  <2>1. s[claimKey(c)] = d[claimKey(c)]  BY <1>3 DEF Snapshot
  <2>2. QED  BY <1>3, <2>1
<1>4. QED  BY <1>1, <1>2, <1>3 DEF Snapshot

LEMMA CommitStep ==
  ASSUME IInv, NEW p \in Proc, CommitTransaction(p)
  PROVE  IInv'
<1>1. PICK e : e = RunOver(snap[p], req[p])  OBVIOUS
<1>2. /\ pc[p] = "commit" /\ ~Conflicts(p, e.reads, e.writes) /\ Commit(p, e.writes)
      /\ handed' = handed \cup ({<<req[p].claim, b>> : b \in {e.bundle} \ {Absent}})
      /\ pc' = [pc EXCEPT ![p] = "idle"] /\ req' = [req EXCEPT ![p] = NoRequest]
      /\ tries' = [tries EXCEPT ![p] = 0] /\ now' = now
  BY <1>1 DEF CommitTransaction, Answer
<1>3. /\ db' = Written(db, e.writes) /\ snap' = [snap EXCEPT ![p] = NoTxn]
      /\ dirty' = [q \in Proc |-> IF q # p /\ Open(q) THEN dirty[q] \cup DOMAIN e.writes ELSE {}]
  BY <1>2 DEF Commit, Written
<1>4. /\ Snapshot(snap[p], db, dirty[p]) /\ req[p] \in Request /\ StoreTyped(snap[p])
  BY <1>2 DEF IInv, Handlers, Handler, Snapshot
<1>5. DOMAIN e.writes = {} \/ e.reads \cap dirty[p] = {}  BY <1>2 DEF Conflicts
<1>6. StoreTyped(db) /\ StoreInv(db)  BY DEF IInv
<1>7. Sound(db, req[p], e)
  <2>1. PICK d, s, D, r : d = db /\ s = snap[p] /\ D = dirty[p] /\ r = req[p]  OBVIOUS
  <2>2. Sound(d, r, e)  BY <1>1, <1>4, <1>5, <1>6, <2>1, EffectSound
  <2>3. QED  BY <2>1, <2>2
<1>8. DOMAIN e.writes \subseteq Key  BY <1>1, <1>4, WritesAreKeys
<1>9. /\ StoreTyped(db') /\ StoreInv(db')
      /\ \A c \in ClaimId : db[claimKey(c)] # Absent => db'[claimKey(c)] = db[claimKey(c)]
      /\ e.bundle # Absent =>
            /\ req[p].kind = "claim" /\ e.bundle \in Publication
            /\ db'[claimKey(req[p].claim)] # Absent /\ db'[claimKey(req[p].claim)].publication = e.bundle
  BY <1>3, <1>7 DEF Sound
<1>10. req[p].kind = "claim" => req[p].claim \in ClaimId  BY <1>4 DEF Request
<1>11. ASSUME NEW q \in Proc PROVE Handler(db', snap'[q], dirty'[q], pc'[q], req'[q])
  <2>1. Handler(db, snap[q], dirty[q], pc[q], req[q])  BY DEF IInv, Handlers
  <2>2. CASE q = p
    <3>1. snap'[q] = NoTxn /\ dirty'[q] = {} /\ pc'[q] = "idle" /\ req'[q] = NoRequest
      BY <1>2, <1>3, <2>2 DEF IInv, Handlers
    <3>2. QED  BY <3>1 DEF Handler
  <2>3. CASE q # p
    <3>1. snap'[q] = snap[q] /\ pc'[q] = pc[q] /\ req'[q] = req[q]
      BY <1>2, <1>3, <2>3 DEF IInv, Handlers
    <3>2. CASE pc[q] = "commit"
      <4>1. Snapshot(snap[q], db, dirty[q]) /\ dirty[q] \subseteq Key /\ req[q] \in Request
        BY <2>1, <3>2 DEF Handler
      <4>2. Open(q)  BY <4>1, StoreIsNoMarker DEF Snapshot, Open
      <4>3. dirty'[q] = dirty[q] \cup DOMAIN e.writes  BY <1>3, <2>3, <4>2
      <4>4. Snapshot(snap[q], db', dirty[q] \cup DOMAIN e.writes)
        BY <1>3, <1>6, <1>9, <4>1, SnapshotKept
      <4>5. QED  BY <1>8, <3>1, <3>2, <4>1, <4>3, <4>4 DEF Handler
    <3>3. CASE pc[q] # "commit"
      <4>1. snap[q] = NoTxn /\ dirty'[q] = {}  BY <1>3, <2>1, <3>3 DEF Handler, Open
      <4>2. QED  BY <2>1, <3>1, <3>3, <4>1 DEF Handler
    <3>4. QED  BY <3>2, <3>3
  <2>4. QED  BY <2>2, <2>3
<1>12. Handlers'
  <2>1. pc' \in [Proc -> {"idle", "begin", "commit"}] /\ tries' \in [Proc -> 0..Retries]
    BY <1>2, RegistryAssumption DEF IInv, Handlers
  <2>2. DOMAIN snap' = Proc /\ DOMAIN dirty' = Proc /\ DOMAIN req' = Proc
    BY <1>2, <1>3 DEF IInv, Handlers
  <2>3. QED  BY <1>11, <2>1, <2>2 DEF Handlers
<1>13. ASSUME NEW x \in handed'
       PROVE  /\ x \in ClaimId \X Publication
              /\ db'[claimKey(x[1])] # Absent /\ db'[claimKey(x[1])].publication = x[2]
  <2>1. CASE x \in handed
    <3>1. x \in ClaimId \X Publication  BY <2>1 DEF IInv
    <3>2. x[1] \in ClaimId  BY <3>1
    <3>3. db[claimKey(x[1])] # Absent /\ db[claimKey(x[1])].publication = x[2]
      BY <2>1 DEF IInv, HandedRecorded
    <3>4. QED  BY <1>9, <3>1, <3>2, <3>3
  <2>2. CASE x \notin handed
    <3>1. e.bundle # Absent /\ x = <<req[p].claim, e.bundle>>  BY <1>2, <1>13, <2>2
    <3>2. x[1] = req[p].claim /\ x[2] = e.bundle  BY <3>1
    <3>3. req[p].claim \in ClaimId /\ e.bundle \in Publication  BY <1>9, <1>10, <3>1
    <3>4. x \in ClaimId \X Publication  BY <3>1, <3>3
    <3>5. QED  BY <1>9, <3>1, <3>2, <3>4
  <2>3. QED  BY <2>1, <2>2
<1>14. handed' \subseteq ClaimId \X Publication  BY <1>13
<1>15. HandedRecorded'  BY <1>13 DEF HandedRecorded
<1>16. now' \in 0..MaxTime  BY <1>2 DEF IInv
<1>17. QED  BY <1>9, <1>12, <1>14, <1>15, <1>16 DEF IInv

LEMMA RetryStep ==
  ASSUME IInv, NEW p \in Proc, RetryOnConflict(p)
  PROVE  IInv'
<1>1. /\ pc[p] = "commit" /\ snap' = [snap EXCEPT ![p] = NoTxn] /\ dirty' = [dirty EXCEPT ![p] = {}]
      /\ db' = db /\ now' = now /\ handed' = handed
  BY DEF RetryOnConflict, Discard, Answer
<1>2. \/ /\ tries[p] > 1 /\ pc' = [pc EXCEPT ![p] = "begin"]
         /\ tries' = [tries EXCEPT ![p] = tries[p] - 1] /\ req' = req
      \/ /\ pc' = [pc EXCEPT ![p] = "idle"] /\ req' = [req EXCEPT ![p] = NoRequest]
         /\ tries' = [tries EXCEPT ![p] = 0]
  BY DEF RetryOnConflict, Answer
<1>3. ASSUME NEW q \in Proc PROVE Handler(db', snap'[q], dirty'[q], pc'[q], req'[q])
  <2>1. Handler(db, snap[q], dirty[q], pc[q], req[q])  BY DEF IInv, Handlers
  <2>2. CASE q = p
    <3>1. snap'[q] = NoTxn /\ dirty'[q] = {}  BY <1>1, <2>2 DEF IInv, Handlers
    <3>2. req[q] \in Request  BY <1>1, <2>1, <2>2 DEF Handler
    <3>3. \/ pc'[q] = "begin" /\ req'[q] = req[q]
          \/ pc'[q] = "idle" /\ req'[q] = NoRequest
      BY <1>2, <2>2 DEF IInv, Handlers
    <3>4. QED  BY <3>1, <3>2, <3>3 DEF Handler
  <2>3. CASE q # p
    <3>1. /\ snap'[q] = snap[q] /\ dirty'[q] = dirty[q] /\ pc'[q] = pc[q] /\ req'[q] = req[q]
      BY <1>1, <1>2, <2>3 DEF IInv, Handlers
    <3>2. QED  BY <1>1, <2>1, <3>1
  <2>4. QED  BY <2>2, <2>3
<1>4. Handlers'
  <2>1. pc' \in [Proc -> {"idle", "begin", "commit"}]  BY <1>2 DEF IInv, Handlers
  <2>2. tries' \in [Proc -> 0..Retries]  BY <1>2, RegistryAssumption DEF IInv, Handlers
  <2>3. DOMAIN snap' = Proc /\ DOMAIN dirty' = Proc /\ DOMAIN req' = Proc
    BY <1>1, <1>2 DEF IInv, Handlers
  <2>4. QED  BY <1>3, <2>1, <2>2, <2>3 DEF Handlers
<1>5. HandedRecorded'  BY <1>1 DEF IInv, HandedRecorded
<1>6. StoreTyped(db') /\ StoreInv(db')  BY <1>1 DEF IInv
<1>7. now' \in 0..MaxTime /\ handed' \subseteq ClaimId \X Publication  BY <1>1 DEF IInv
<1>8. QED  BY <1>4, <1>5, <1>6, <1>7 DEF IInv

\* The backfill adds bindings and touches nothing else.
Backfilled(n, d) ==
    /\ n = [k \in Key |-> n[k]]
    /\ \A k \in Key :
          n[k] = d[k] \/ \E i \in Identity, e \in Device : k = deviceMailboxBindingKey(i, e) /\ n[k] = i

LEMMA BackfillWrites ==
  ASSUME NEW d, NEW bound, bound \subseteq Identity \X Device
  PROVE  Backfilled([k \in Key |->
                       IF d[k] = Absent /\ \E x \in bound : k = deviceMailboxBindingKey(x[1], x[2])
                       THEN k[2] ELSE d[k]], d)
<1> DEFINE added(k) == d[k] = Absent /\ \E x \in bound : k = deviceMailboxBindingKey(x[1], x[2])
<1>1. PICK n : n = [k \in Key |-> IF added(k) THEN k[2] ELSE d[k]]  OBVIOUS
<1>2. \A k : added(k) => \E i \in Identity, e \in Device : k = deviceMailboxBindingKey(i, e) /\ k[2] = i
  <2> SUFFICES ASSUME NEW k, added(k)
               PROVE  \E i \in Identity, e \in Device : k = deviceMailboxBindingKey(i, e) /\ k[2] = i
    OBVIOUS
  <2>1. PICK x \in bound : k = deviceMailboxBindingKey(x[1], x[2])  OBVIOUS
  <2>2. x[1] \in Identity /\ x[2] \in Device  OBVIOUS
  <2>3. k[2] = x[1]  BY <2>1 DEF deviceMailboxBindingKey
  <2>4. QED  BY <2>1, <2>2, <2>3
<1> HIDE DEF added
<1>3. ASSUME NEW k \in Key
      PROVE  n[k] = d[k] \/ \E i \in Identity, e \in Device : k = deviceMailboxBindingKey(i, e) /\ n[k] = i
  <2>1. n[k] = IF added(k) THEN k[2] ELSE d[k]  BY <1>1
  <2>2. QED  BY <1>2, <2>1
<1>4. Backfilled(n, d)
  <2>1. n = [k \in Key |-> n[k]]  BY <1>1
  <2>2. QED  BY <1>3, <2>1 DEF Backfilled
<1>5. QED  BY <1>1, <1>4 DEF added

LEMMA BackfillStore ==
  ASSUME NEW d, StoreTyped(d), StoreInv(d), NEW n, Backfilled(n, d)
  PROVE  StoreTyped(n) /\ StoreInv(n) /\ \A c \in ClaimId : n[claimKey(c)] = d[claimKey(c)]
<1>1. \A k \in Key : k[1] # "device_mailbox" => n[k] = d[k]  BY KeyTags DEF Backfilled
<1>2. \A b \in BundleId : n[bundleKey(b)] = d[bundleKey(b)]  BY <1>1, KeysExist, KeyTags
<1>3. \A u \in Publication : /\ n[tupleKey(u)] = d[tupleKey(u)] /\ n[publicKey(u)] = d[publicKey(u)]
                              /\ n[availableKey(u)] = d[availableKey(u)]
  BY <1>1, KeysExist, KeyTags
<1>4. \A c \in ClaimId : n[claimKey(c)] = d[claimKey(c)]  BY <1>1, KeysExist, KeyTags
<1>5. ASSUME NEW i \in Identity, NEW e \in Device
      PROVE  /\ n[deviceRecordKey(i, e)] = d[deviceRecordKey(i, e)]
             /\ n[deviceMailboxBindingKey(i, e)] \in {d[deviceMailboxBindingKey(i, e)], i}
  <2>1. n[deviceRecordKey(i, e)] = d[deviceRecordKey(i, e)]  BY <1>1, KeysExist, KeyTags
  <2>2. deviceMailboxBindingKey(i, e) \in Key  BY KeysExist
  <2>3. QED  BY <2>1, <2>2, KeysInjective DEF Backfilled
<1>6. StoreTyped(n)  BY <1>2, <1>3, <1>4, <1>5 DEF Backfilled, StoreTyped
<1>7. \A i \in Identity, e \in Device :
         /\ d[deviceRecordKey(i, e)] # Absent => n[deviceRecordKey(i, e)] # Absent
         /\ d[deviceMailboxBindingKey(i, e)] = i => n[deviceMailboxBindingKey(i, e)] = i
  BY <1>5
<1>8. StoreInv(n)  BY <1>2, <1>3, <1>4, <1>7, DeviceFrame
<1>9. QED  BY <1>4, <1>6, <1>8

LEMMA RestartStep ==
  ASSUME IInv, RestartAndBackfill
  PROVE  IInv'
<1>1. PICK bound \in SUBSET {x \in Identity \X Device : db[deviceRecordKey(x[1], x[2])] # Absent} :
        db' = [k \in Key |->
                 IF db[k] = Absent /\ \E x \in bound : k = deviceMailboxBindingKey(x[1], x[2])
                 THEN k[2] ELSE db[k]]
  BY DEF RestartAndBackfill
<1>2. /\ snap' = [p \in Proc |-> NoTxn] /\ dirty' = [p \in Proc |-> {}] /\ pc' = [p \in Proc |-> "idle"]
      /\ req' = [p \in Proc |-> NoRequest] /\ tries' = [p \in Proc |-> 0]
      /\ now' = now /\ handed' = handed
  BY DEF RestartAndBackfill
<1>3. StoreTyped(db) /\ StoreInv(db) /\ bound \subseteq Identity \X Device  BY DEF IInv
<1>4. StoreTyped(db') /\ StoreInv(db') /\ \A c \in ClaimId : db'[claimKey(c)] = db[claimKey(c)]
  <2>1. Backfilled(db', db)  BY <1>1, <1>3, BackfillWrites
  <2>2. QED  BY <1>3, <2>1, BackfillStore
<1>5. Handlers'
  <2>1. 0 \in 0..Retries  BY RegistryAssumption
  <2>2. \A p \in Proc : Handler(db', snap'[p], dirty'[p], pc'[p], req'[p])  BY <1>2 DEF Handler
  <2>3. QED  BY <1>2, <2>1, <2>2 DEF Handlers
<1>6. HandedRecorded'
  <2>1. \A x \in handed : x[1] \in ClaimId  BY DEF IInv
  <2>2. QED  BY <1>2, <1>4, <2>1 DEF IInv, HandedRecorded
<1>7. now' \in 0..MaxTime /\ handed' \subseteq ClaimId \X Publication  BY <1>2 DEF IInv
<1>8. QED  BY <1>4, <1>5, <1>6, <1>7 DEF IInv

LEMMA TickStep ==
  ASSUME IInv, Tick \/ UNCHANGED vars
  PROVE  IInv'
<1>1. /\ db' = db /\ snap' = snap /\ dirty' = dirty /\ req' = req /\ pc' = pc /\ tries' = tries
      /\ handed' = handed
  BY DEF Tick, vars
<1>2. now' \in 0..MaxTime  BY RegistryAssumption DEF Tick, vars, IInv
<1>3. Handlers'  BY <1>1 DEF IInv, Handlers
<1>4. HandedRecorded'  BY <1>1 DEF IInv, HandedRecorded
<1>5. StoreTyped(db') /\ StoreInv(db') /\ handed' \subseteq ClaimId \X Publication  BY <1>1 DEF IInv
<1>6. QED  BY <1>2, <1>3, <1>4, <1>5 DEF IInv

LEMMA StepInvariant == IInv /\ [Next]_vars => IInv'
<1> SUFFICES ASSUME IInv, [Next]_vars PROVE IInv'  OBVIOUS
<1>1. ASSUME NEW p \in Proc, HandlerStep(p) PROVE IInv'
  BY <1>1, BeginStep, CommitStep, RetryStep DEF HandlerStep
<1>2. ASSUME NEW p \in Proc, NEW r \in DeviceRecord, PublishDeviceRecord(p, r) PROVE IInv'
  <2>1. PICK x : x = [kind |-> "device", identity |-> r.identity, device |-> r.device, pubkey |-> r.pubkey]
    OBVIOUS
  <2>2. r.identity \in Identity /\ r.device \in Device /\ r.pubkey \in PubKey
    BY <1>2, RegistryAssumption
  <2>3. x \in [kind: {"device"}, identity: Identity, device: Device, pubkey: PubKey]  BY <2>1, <2>2
  <2>4. Start(p, x)  BY <1>2, <2>1 DEF PublishDeviceRecord
  <2>5. x \in Request  BY <2>3 DEF Request
  <2>6. QED  BY <1>2, <2>4, <2>5, StartStep
<1>3. ASSUME NEW p \in Proc, NEW u \in Publication, PublishSignalPreKeyBundleV2(p, u) PROVE IInv'
  <2>1. PICK x : x = [kind |-> "publish", publication |-> u]  OBVIOUS
  <2>2. x \in [kind: {"publish"}, publication: Publication]  BY <1>3, <2>1
  <2>3. Start(p, x)  BY <1>3, <2>1 DEF PublishSignalPreKeyBundleV2
  <2>4. x \in Request  BY <2>2 DEF Request
  <2>5. QED  BY <1>3, <2>3, <2>4, StartStep
<1>4. ASSUME NEW p \in Proc, NEW c \in ClaimId, NEW i \in Identity, NEW d \in Device \cup {Absent},
             ClaimSignalPreKeyBundleV2(p, c, i, d)
      PROVE  IInv'
  <2>1. PICK x : x = [kind |-> "claim", claim |-> c, identity |-> i, device |-> d, now |-> now]  OBVIOUS
  <2>2. now \in Nat  BY RegistryAssumption DEF IInv
  <2>3. x \in [kind: {"claim"}, claim: ClaimId, identity: Identity, device: Device \cup {Absent}, now: Nat]
    BY <1>4, <2>1, <2>2
  <2>4. Start(p, x)  BY <1>4, <2>1 DEF ClaimSignalPreKeyBundleV2
  <2>5. x \in Request  BY <2>3 DEF Request
  <2>6. QED  BY <1>4, <2>4, <2>5, StartStep
<1>5. QED  BY <1>1, <1>2, <1>3, <1>4, RestartStep, TickStep DEF Next

-----------------------------------------------------------------------------
(* The theorems.                                                           *)

\* The inductive invariant: the store is sound, and so is what every handler holds
\* of it.
THEOREM RegistryInvariant == Spec => []IInv
BY InitInvariant, StepInvariant, PTL DEF Spec

\* The type invariant: every key of the store, and of every open transaction's
\* snapshot of it, holds a value of its family.
THEOREM RegistryTyped == Spec => []TypeOK
BY RegistryInvariant, InvariantTyped, PTL

\* Two claims never receive the same bundle or two bundles that share a one-time key,
\* however many handlers race for the pool and whenever the relay restarts.
THEOREM OneTimeKeyGoesToOneClaim == Spec => []OneTimeKeyHandedOnce
<1>1. IInv => OneTimeKeyHandedOnce
  <2> SUFFICES ASSUME IInv, NEW x \in handed, NEW y \in handed, x[1] # y[1]
               PROVE  x[2].id # y[2].id /\ x[2].public # y[2].public /\ tupleKey(x[2]) # tupleKey(y[2])
    BY DEF OneTimeKeyHandedOnce
  <2>1. PICK u, v : u = x[2] /\ v = y[2]  OBVIOUS
  <2>2. x[1] \in ClaimId /\ y[1] \in ClaimId /\ u \in Publication /\ v \in Publication
    BY <2>1 DEF IInv
  <2>3. /\ db[claimKey(x[1])] # Absent /\ db[claimKey(x[1])].publication = u
        /\ db[claimKey(y[1])] # Absent /\ db[claimKey(y[1])].publication = v
    BY <2>1 DEF IInv, HandedRecorded
  <2>4. u.id # v.id  BY <2>2, <2>3 DEF IInv, StoreInv, ClaimsApart
  <2>5. ASSUME NEW c \in ClaimId, NEW t \in Publication, db[claimKey(c)] # Absent,
               db[claimKey(c)].publication = t
        PROVE  db[tupleKey(t)] = t.id /\ db[publicKey(t)] = t.id
    <3>1. PICK rec : rec = [publication |-> t, claimed |-> TRUE]  OBVIOUS
    <3>2. rec # Absent /\ rec.publication = t  BY <3>1, BundleRecord
    <3>3. db[bundleKey(t.id)] = rec  BY <2>5, <3>1 DEF IInv, StoreInv, ClaimsHold
    <3>4. t.id \in BundleId  BY PublicationFields
    <3>5. QED  BY <3>2, <3>3, <3>4 DEF IInv, StoreInv, Reserved
  <2>6. /\ db[tupleKey(u)] = u.id /\ db[publicKey(u)] = u.id
        /\ db[tupleKey(v)] = v.id /\ db[publicKey(v)] = v.id
    BY <2>2, <2>3, <2>5
  <2>7. tupleKey(u) # tupleKey(v) /\ publicKey(u) # publicKey(v)  BY <2>4, <2>6
  <2>8. u.public # v.public  BY <2>7 DEF publicKey
  <2>9. QED  BY <2>1, <2>4, <2>7, <2>8
<1>2. QED  BY <1>1, RegistryInvariant, PTL

\* A claim id is answered with one bundle, whatever number of its retries race.
THEOREM RetriedClaimSameAnswer == Spec => []ClaimAnswerStable
<1>1. IInv => ClaimAnswerStable  BY DEF IInv, HandedRecorded, ClaimAnswerStable
<1>2. QED  BY <1>1, RegistryInvariant, PTL

\* The availability index holds a bundle exactly while it is unclaimed.
THEOREM IndexIsUnclaimed == Spec => []AvailableIffUnclaimed
<1>1. IInv => AvailableIffUnclaimed  BY DEF IInv, StoreInv, Indexed, Unclaimed, AvailableIffUnclaimed
<1>2. QED  BY <1>1, RegistryInvariant, PTL

\* The device of every stored bundle keeps its record and its mailbox binding.
THEOREM PublishersStayAuthorized == Spec => []PublishersAuthorized
<1>1. IInv => PublishersAuthorized
  BY PublicationFields DEF IInv, StoreInv, Authorized, PublishersAuthorized
<1>2. QED  BY <1>1, RegistryInvariant, PTL
=============================================================================
