--------------------------- MODULE OutboundProofs ---------------------------
(***************************************************************************)
(* What is proved of the prekey pool and the outbound messenger for every  *)
(* set of processes, slots and messages and every bound: their types; that *)
(* the members of the pool differ; that a message is encrypted once; that  *)
(* what is in the mailbox can be read; and, for one send command at a      *)
(* time, that a contact holds one live prekey for this sender.  The        *)
(* invariant has a part for the pool, the relay, the contact's keys and    *)
(* the sender; most steps touch one of them and leave the others in their  *)
(* frames.                                                                 *)
(***************************************************************************)
EXTENDS Outbound, FiniteSetTheorems, TLAPS

-----------------------------------------------------------------------------
(* The inductive invariant.                                                *)

\* The pool is filled as a whole, and around prekeys up to the current one.
PoolShape ==
    /\ \/ \A s \in Slot : slot[s] = Absent
       \/ \A s \in Slot : slot[s] \in Bundle
    /\ (\A s \in Slot : slot[s] = Absent) => pointer \in pre /\ \A b \in Bundle : born[b] = Absent
    /\ \A s \in Slot : slot[s] # Absent => slot[s] <= pointer /\ born[slot[s]] # Absent
    /\ \A b \in pre : b <= pointer
    /\ \A b \in Bundle : born[b] # Absent => b <= pointer
    /\ MembersDistinct

\* The relay holds, and hands out, bundles that were signed.
RelayShape ==
    /\ \A b \in stored : born[b] # Absent
    /\ \A b \in Bundle : claim[b] # Absent => b \in stored

\* A prekey no stranger claimed has its private half or its session.
KeysKept == \A b \in Bundle : (born[b] # Absent /\ claim[b] # Stranger) => b \in pre \cup sessions

\* What a publish command carries was signed.
PublisherOK(w, signed) ==
    \/ w = Idle
    \/ w \in Publishing /\ \A s \in Slot : signed[w.members[s]] # Absent
    \/ /\ w \in Offering
       /\ \A s \in Slot : signed[w.members[s]] # Absent
       /\ signed[w.bundle] # Absent
PublishersOK == \A q \in Publisher : PublisherOK(publisher[q], born)

\* A key this sender may encrypt with.
Ours(k, owner) == k = Peer \/ (k \in Bundle /\ owner[k] \in ClaimId)

\* The envelope of a message is the one in the outbox.
Settled(e, box) == box[e.message] # Absent /\ box[e.message].envelope = e

CommandOK(w, owner, box, held) ==
    \/ w = Idle
    \/ w \in Asked
    \/ w \in Claiming
    \/ w \in Answered /\ owner[w.bundle] \in ClaimId
    \/ /\ w \in Committing
       /\ IF w.bundle = Absent THEN held # Absent ELSE owner[w.bundle] \in ClaimId
    \/ w \in Delivering /\ Settled(w.record.envelope, box)
CommandsOK == \A p \in Proc : CommandOK(proc[p], claim, outbox, session)

OutboxOK ==
    \A m \in Message : outbox[m] # Absent => /\ outbox[m].envelope.message = m
                                             /\ Ours(outbox[m].envelope.key, claim)

AcceptedOK == \A e \in accepted : Settled(e, outbox)

SessionOK == session = Absent \/ Ours(session, claim)

IInv ==
    /\ TypeOK
    /\ PoolShape /\ RelayShape /\ KeysKept /\ PublishersOK
    /\ CommandsOK /\ OutboxOK /\ AcceptedOK /\ SessionOK

-----------------------------------------------------------------------------
(* What a step may not undo.                                               *)

\* A prekey this sender has claimed stays claimed by it.
ClaimsStay == \A b \in Bundle : claim[b] \in ClaimId => claim'[b] \in ClaimId

\* The envelope of a message in the outbox stays.
OutboxStays ==
    \A m \in Message : outbox[m] # Absent =>
        outbox'[m] # Absent /\ outbox'[m].envelope = outbox[m].envelope

SessionStays == session # Absent => session' # Absent

\* What a command relies on outlives the steps of the others.
LEMMA CommandKept ==
    ASSUME ClaimsStay, OutboxStays, SessionStays, NEW w,
           CommandOK(w, claim, outbox, session)
    PROVE  CommandOK(w, claim', outbox', session')
<1>1. CASE w = Idle
    BY <1>1 DEF CommandOK
<1>2. CASE w \in Asked
    BY <1>2 DEF CommandOK
<1>3. CASE w \in Claiming
    BY <1>3 DEF CommandOK
<1>4. CASE w \in Answered /\ claim[w.bundle] \in ClaimId
    <2>1. w.bundle \in Bundle
        BY <1>4 DEF Answered
    <2>2. claim'[w.bundle] \in ClaimId
        BY <1>4, <2>1 DEF ClaimsStay
    <2> QED
        BY <1>4, <2>2 DEF CommandOK
<1>5. CASE w \in Committing /\ w.bundle = Absent /\ session # Absent
    BY <1>5 DEF CommandOK, SessionStays
<1>6. CASE w \in Committing /\ w.bundle # Absent /\ claim[w.bundle] \in ClaimId
    <2>1. w.bundle \in Bundle
        BY <1>6 DEF Committing
    <2>2. claim'[w.bundle] \in ClaimId
        BY <1>6, <2>1 DEF ClaimsStay
    <2> QED
        BY <1>6, <2>2 DEF CommandOK
<1>7. CASE w \in Delivering /\ Settled(w.record.envelope, outbox)
    <2>1. w.record.envelope.message \in Message
        BY <1>7 DEF Delivering, Record, Envelope
    <2>2. Settled(w.record.envelope, outbox')
        BY <1>7, <2>1 DEF Settled, OutboxStays
    <2> QED
        BY <1>7, <2>2 DEF CommandOK
<1> QED
    BY <1>1, <1>2, <1>3, <1>4, <1>5, <1>6, <1>7 DEF CommandOK

LEMMA OursKept ==
    ASSUME ClaimsStay, NEW k, Ours(k, claim)
    PROVE  Ours(k, claim')
    BY DEF Ours, ClaimsStay

LEMMA SettledKept ==
    ASSUME OutboxStays, NEW e, e.message \in Message, Settled(e, outbox)
    PROVE  Settled(e, outbox')
    BY DEF Settled, OutboxStays

\* A step of one command, or of none, keeps the commands in order.
LEMMA CommandsKept ==
    ASSUME CommandsOK, ClaimsStay, OutboxStays, SessionStays, UNCHANGED proc
    PROVE  CommandsOK'
    BY CommandKept DEF CommandsOK

LEMMA CommandTurns ==
    ASSUME TypeOK, CommandsOK, ClaimsStay, OutboxStays, SessionStays,
           NEW p \in Proc, NEW w, Turn(p, w), CommandOK(w, claim', outbox', session')
    PROVE  CommandsOK'
<1> SUFFICES ASSUME NEW q \in Proc PROVE CommandOK(proc'[q], claim', outbox', session')
    BY DEF CommandsOK
<1>1. DOMAIN proc = Proc
    BY DEF TypeOK
<1>2. CASE q = p
    BY <1>1, <1>2 DEF Turn
<1>3. CASE q # p
    <2>1. proc'[q] = proc[q]
        BY <1>1, <1>3 DEF Turn
    <2> QED
        BY <2>1, CommandKept DEF CommandsOK
<1> QED
    BY <1>2, <1>3

\* A command in order has the type of a command.
LEMMA TurnTyped ==
    ASSUME TypeOK, NEW p \in Proc, NEW w, Turn(p, w),
           w \in {Idle} \cup Asked \cup Claiming \cup Answered \cup Committing \cup Delivering
    PROVE  proc' \in [Proc -> {Idle} \cup Asked \cup Claiming \cup Answered \cup Committing \cup Delivering]
    BY DEF TypeOK, Turn

LEMMA StayWhenUnchanged ==
    /\ UNCHANGED claim => ClaimsStay
    /\ UNCHANGED outbox => OutboxStays
    /\ UNCHANGED session => SessionStays
    BY DEF ClaimsStay, OutboxStays, SessionStays

-----------------------------------------------------------------------------
(* The steps of the pool.                                                  *)

PoolInv == PoolTypeOK /\ PoolShape /\ RelayShape /\ KeysKept /\ PublishersOK

\* What was signed stays signed.
SignedStays == \A b \in Bundle : born[b] # Absent => born'[b] # Absent

\* A publish command that turns to w.
LEMMA PublisherTurns ==
    ASSUME PoolTypeOK, PublishersOK, SignedStays,
           NEW q \in Publisher, NEW w, Become(q, w), PublisherOK(w, born')
    PROVE  /\ publisher' \in [Publisher -> {Idle} \cup Publishing \cup Offering]
           /\ PublishersOK'
<1>1. publisher \in [Publisher -> {Idle} \cup Publishing \cup Offering]
    BY DEF PoolTypeOK
<1>2. w \in {Idle} \cup Publishing \cup Offering
    BY DEF PublisherOK
<1>3. publisher' \in [Publisher -> {Idle} \cup Publishing \cup Offering]
    BY <1>1, <1>2 DEF Become
<1>4. ASSUME NEW r \in Publisher PROVE PublisherOK(publisher'[r], born')
    <2>1. CASE r = q
        BY <1>1, <2>1 DEF Become
    <2>2. CASE r # q
        <3>1. publisher'[r] = publisher[r]
            BY <1>1, <2>2 DEF Become
        <3>2. PublisherOK(publisher[r], born)
            BY DEF PublishersOK
        <3>3. PublisherOK(publisher[r], born')
            BY <3>2 DEF PublisherOK, SignedStays, Publishing, Offering
        <3> QED
            BY <3>1, <3>3
    <2> QED
        BY <2>1, <2>2
<1> QED
    BY <1>3, <1>4 DEF PublishersOK

LEMMA PublishersKept ==
    ASSUME PoolTypeOK, PublishersOK, UNCHANGED <<publisher, born>>
    PROVE  /\ publisher' \in [Publisher -> {Idle} \cup Publishing \cup Offering]
           /\ PublishersOK'
    BY DEF PoolTypeOK, PublishersOK

\* Submitting a signed bundle to the relay.
LEMMA StoredKeeps ==
    ASSUME PoolTypeOK, RelayShape, NEW b \in Bundle, born[b] # Absent, Stored(b),
           UNCHANGED <<born, claim>>
    PROVE  stored' \subseteq Bundle /\ RelayShape'
    BY DEF PoolTypeOK, RelayShape, Stored

\* The current prekey is the highest of those held.
LEMMA FreshIsNext ==
    ASSUME PoolTypeOK, PoolShape
    PROVE  FreshPrekey = pointer + 1
<1>1. pre \cup {pointer} \subseteq Int /\ pointer \in Int
    BY PoolAssumption DEF PoolTypeOK, Bundle
<1>2. \A y \in pre \cup {pointer} : pointer >= y
    BY <1>1 DEF PoolShape
<1>3. \A x \in pre \cup {pointer} : (\A y \in pre \cup {pointer} : x >= y) => x = pointer
    BY <1>1, <1>2
<1>4. Max(pre \cup {pointer}) = pointer
    BY <1>2, <1>3 DEF Max
<1> QED
    BY <1>4 DEF FreshPrekey

\* The prekeys of a pool that is filled at once: one above the other, the last
\* for slot 0.
LEMMA FirstPrekeys ==
    ASSUME PoolTypeOK, NEW s \in Slot
    PROVE  PrekeyFor(s, Slot) = pointer + PoolTarget - s - 1
<1>1. s \in Int /\ PoolTarget \in Int /\ s <= PoolTarget - 1 /\ 0 <= s
    BY PoolAssumption DEF Slot
<1>2. {t \in Slot : t >= s} = s..(PoolTarget - 1)
    BY <1>1 DEF Slot
<1>3. Cardinality(s..(PoolTarget - 1)) = PoolTarget - s
    BY <1>1, FS_Interval
<1> QED
    BY <1>1, <1>2, <1>3 DEF PrekeyFor, PoolTypeOK, Bundle

\* A publish command finds the pool filled, or fills it as a whole.
Empty == {s \in Slot : slot[s] = Absent}
Filled == [s \in Slot |-> IF s \in Empty THEN PrekeyFor(s, Empty) ELSE slot[s]]
Minted == {Filled[s] : s \in Empty}

LEMMA RestoreFinds ==
    ASSUME PoolTypeOK, PoolShape, NEW q \in Publisher, RestorePublicationPool(q),
           \A s \in Slot : slot[s] \in Bundle
    PROVE  /\ UNCHANGED <<slot, pre, pointer, born, stored, claim, now, strangers, faults>>
           /\ Become(q, [pc |-> "submit", at |-> 0, members |-> slot, dead |-> {}])
<1>1. Empty = {}
    BY PoolAssumption DEF Empty, Bundle
<1>2. Filled = slot
    BY <1>1 DEF Filled, PoolTypeOK
<1>3. Minted = {}
    BY <1>1 DEF Minted
<1>4. slot' = Filled /\ pre' = pre \cup (Minted \ {pointer})
      /\ pointer' = (IF 0 \in Empty THEN Filled[0] ELSE pointer)
      /\ born' = [b \in Bundle |-> IF b \in Minted THEN now ELSE born[b]]
      /\ Become(q, [pc |-> "submit", at |-> 0, members |-> Filled, dead |-> {}])
      /\ UNCHANGED <<now, stored, claim, strangers, faults>>
    BY DEF RestorePublicationPool, Empty, Filled, Minted
<1>5. born' = born
    BY <1>3, <1>4 DEF PoolTypeOK
<1> QED
    BY <1>1, <1>2, <1>3, <1>4, <1>5

LEMMA RestoreFills ==
    ASSUME PoolTypeOK, PoolShape, NEW q \in Publisher, RestorePublicationPool(q),
           \A s \in Slot : slot[s] = Absent
    PROVE  /\ slot' \in [Slot -> Bundle]
           /\ \A s \in Slot : slot'[s] = pointer + PoolTarget - s - 1
           /\ pre \subseteq pre' /\ pre' \subseteq Bundle
           /\ \A s \in Slot : slot'[s] \in pre'
           /\ \A b \in pre' : b \in pre \/ \E s \in Slot : b = slot'[s]
           /\ pointer' = pointer + PoolTarget - 1
           /\ born' \in [Bundle -> Nat \cup {Absent}]
           /\ \A b \in Bundle : born'[b] # Absent <=> \E s \in Slot : b = slot'[s]
           /\ Become(q, [pc |-> "submit", at |-> 0, members |-> slot', dead |-> {}])
           /\ UNCHANGED <<stored, claim, now, strangers, faults>>
<1>1. Empty = Slot
    BY DEF Empty
<1>2. Filled = [s \in Slot |-> pointer + PoolTarget - s - 1]
    BY <1>1, FirstPrekeys DEF Filled
<1>3. slot' = Filled /\ pre' = pre \cup (Minted \ {pointer})
      /\ pointer' = (IF 0 \in Empty THEN Filled[0] ELSE pointer)
      /\ born' = [b \in Bundle |-> IF b \in Minted THEN now ELSE born[b]]
      /\ Become(q, [pc |-> "submit", at |-> 0, members |-> Filled, dead |-> {}])
      /\ UNCHANGED <<now, stored, claim, strangers, faults>>
      /\ \A b \in Minted : b <= MaxBundles
    BY DEF RestorePublicationPool, Empty, Filled, Minted
<1>4. Minted = {Filled[s] : s \in Slot}
    BY <1>1 DEF Minted
<1>5. \A s \in Slot : Filled[s] \in Bundle /\ Filled[s] = pointer + PoolTarget - s - 1
    <2> TAKE s \in Slot
    <2>1. Filled[s] = pointer + PoolTarget - s - 1
        BY <1>2
    <2>2. Filled[s] <= MaxBundles
        BY <1>3, <1>4
    <2>3. pointer \in Int /\ 1 <= pointer /\ s \in Int /\ s <= PoolTarget - 1
        BY PoolAssumption DEF PoolTypeOK, Bundle, Slot
    <2> QED
        BY <2>1, <2>2, <2>3, PoolAssumption DEF Bundle
<1>6. slot' \in [Slot -> Bundle] /\ \A s \in Slot : slot'[s] = pointer + PoolTarget - s - 1
    BY <1>2, <1>3, <1>5
<1>7. 0 \in Slot
    BY PoolAssumption DEF Slot
<1>8. pointer' = pointer + PoolTarget - 1
    BY <1>1, <1>3, <1>5, <1>7, PoolAssumption DEF PoolTypeOK, Bundle
<1>9. pointer \in pre /\ \A b \in Bundle : born[b] = Absent
    BY DEF PoolShape
<1>10. Minted \subseteq Bundle /\ \A b : b \in Minted <=> \E s \in Slot : b = slot'[s]
    BY <1>3, <1>4, <1>5
<1>11. /\ pre \subseteq pre' /\ pre' \subseteq Bundle
       /\ \A s \in Slot : slot'[s] \in pre'
       /\ \A b \in pre' : b \in pre \/ \E s \in Slot : b = slot'[s]
    BY <1>3, <1>9, <1>10 DEF PoolTypeOK
<1>12. now \in Nat /\ now # Absent
    BY PoolAssumption DEF PoolTypeOK
<1>13. /\ born' \in [Bundle -> Nat \cup {Absent}]
       /\ \A b \in Bundle : born'[b] # Absent <=> b \in Minted
    BY <1>3, <1>9, <1>12 DEF PoolTypeOK
<1>14. \A b \in Bundle : born'[b] # Absent <=> \E s \in Slot : b = slot'[s]
    BY <1>10, <1>13
<1> QED
    BY <1>3, <1>6, <1>8, <1>11, <1>13, <1>14

LEMMA RestoreStep ==
    ASSUME PoolInv, sessions \subseteq Bundle, UNCHANGED sessions,
           NEW q \in Publisher, RestorePublicationPool(q)
    PROVE  PoolInv' /\ ClaimsStay
<1>0. PoolTypeOK /\ PoolShape /\ RelayShape /\ KeysKept /\ PublishersOK
    BY DEF PoolInv
<1>1. CASE \A s \in Slot : slot[s] \in Bundle
    <2>1. /\ UNCHANGED <<slot, pre, pointer, born, stored, claim, now, strangers, faults>>
          /\ Become(q, [pc |-> "submit", at |-> 0, members |-> slot, dead |-> {}])
        BY <1>0, <1>1, RestoreFinds
    <2>2. slot \in [Slot -> Bundle] /\ \A s \in Slot : born[slot[s]] # Absent
        BY <1>0, <1>1, PoolAssumption DEF PoolTypeOK, PoolShape, Bundle
    <2>3. PublisherOK([pc |-> "submit", at |-> 0, members |-> slot, dead |-> {}], born')
        <3>1. [pc |-> "submit", at |-> 0, members |-> slot, dead |-> {}] \in Publishing
            BY <2>2, PoolAssumption DEF Publishing
        <3> QED
            BY <2>1, <2>2, <3>1 DEF PublisherOK
    <2>4. SignedStays
        BY <2>1 DEF SignedStays
    <2>5. /\ publisher' \in [Publisher -> {Idle} \cup Publishing \cup Offering]
          /\ PublishersOK'
        BY <1>0, <2>1, <2>3, <2>4, PublisherTurns
    <2>6. PoolTypeOK'
        BY <1>0, <2>1, <2>5 DEF PoolTypeOK
    <2>7. PoolShape' /\ RelayShape' /\ KeysKept'
        BY <1>0, <2>1 DEF PoolShape, RelayShape, KeysKept, MembersDistinct
    <2>8. ClaimsStay
        BY <2>1 DEF ClaimsStay
    <2> QED
        BY <2>5, <2>6, <2>7, <2>8 DEF PoolInv
<1>2. CASE \A s \in Slot : slot[s] = Absent
    <2>1. /\ slot' \in [Slot -> Bundle]
          /\ \A s \in Slot : slot'[s] = pointer + PoolTarget - s - 1
          /\ pre \subseteq pre' /\ pre' \subseteq Bundle
          /\ \A s \in Slot : slot'[s] \in pre'
          /\ \A b \in pre' : b \in pre \/ \E s \in Slot : b = slot'[s]
          /\ pointer' = pointer + PoolTarget - 1
          /\ born' \in [Bundle -> Nat \cup {Absent}]
          /\ \A b \in Bundle : born'[b] # Absent <=> \E s \in Slot : b = slot'[s]
          /\ Become(q, [pc |-> "submit", at |-> 0, members |-> slot', dead |-> {}])
          /\ UNCHANGED <<stored, claim, now, strangers, faults>>
        BY <1>0, <1>2, RestoreFills
    <2>2. \A b \in Bundle : born[b] = Absent
        BY <1>0, <1>2 DEF PoolShape
    <2>3. SignedStays
        BY <2>2 DEF SignedStays
    <2>4. PublisherOK([pc |-> "submit", at |-> 0, members |-> slot', dead |-> {}], born')
        <3>1. [pc |-> "submit", at |-> 0, members |-> slot', dead |-> {}] \in Publishing
            BY <2>1, PoolAssumption DEF Publishing
        <3>2. \A s \in Slot : born'[slot'[s]] # Absent
            BY <2>1
        <3> QED
            BY <3>1, <3>2 DEF PublisherOK
    <2>5. /\ publisher' \in [Publisher -> {Idle} \cup Publishing \cup Offering]
          /\ PublishersOK'
        BY <1>0, <2>1, <2>3, <2>4, PublisherTurns
    <2>6. 0 \in Slot /\ \A s \in Slot : s \in Int /\ 0 <= s /\ s <= PoolTarget - 1
        BY PoolAssumption DEF Slot
    <2>7. pointer \in Int /\ PoolTarget \in Int /\ 1 <= pointer /\ 1 <= PoolTarget
        BY <1>0, PoolAssumption DEF PoolTypeOK, Bundle
    <2>8. \A s \in Slot : slot'[s] \in Int /\ slot'[s] <= pointer'
        BY <2>1, <2>6, <2>7
    <2>9. pointer' = slot'[0]
        BY <2>1, <2>6, <2>7
    <2>10. pointer' \in Bundle
        BY <2>1, <2>6, <2>9
    <2>11. PoolTypeOK'
        BY <1>0, <2>1, <2>5, <2>10 DEF PoolTypeOK
    <2>12. \A s \in Slot : slot'[s] # Absent
        BY <2>1, PoolAssumption DEF Bundle
    <2>13. MembersDistinct'
        BY <2>1, <2>6, <2>7 DEF MembersDistinct
    <2>14. \A b \in pre' : b <= pointer'
        <3> TAKE b \in pre'
        <3>1. CASE b \in pre
            BY <1>0, <2>1, <2>7, <3>1 DEF PoolShape, PoolTypeOK, Bundle
        <3>2. CASE \E s \in Slot : b = slot'[s]
            BY <2>8, <3>2
        <3> QED
            BY <2>1, <3>1, <3>2
    <2>15. \A b \in Bundle : born'[b] # Absent => b <= pointer'
        BY <2>1, <2>8
    <2>16. PoolShape'
        BY <2>1, <2>6, <2>8, <2>12, <2>13, <2>14, <2>15 DEF PoolShape
    <2>17. RelayShape'
        BY <1>0, <2>1, <2>2 DEF RelayShape, PoolTypeOK
    <2>18. KeysKept'
        BY <2>1 DEF KeysKept
    <2>19. ClaimsStay
        BY <2>1 DEF ClaimsStay
    <2> QED
        BY <2>5, <2>11, <2>16, <2>17, <2>18, <2>19 DEF PoolInv
<1> QED
    BY <1>0, <1>1, <1>2 DEF PoolShape

\* A step that leaves the profile's pool alone, and may submit a bundle.
LEMMA RelayStep ==
    ASSUME PoolInv, UNCHANGED <<now, slot, pre, pointer, born, claim, strangers, sessions>>,
           faults' \in 0..MaxFaults,
           NEW q \in Publisher, NEW w, Become(q, w), PublisherOK(w, born),
           stored' \subseteq Bundle, RelayShape'
    PROVE  PoolInv' /\ ClaimsStay
<1>0. PoolTypeOK /\ PoolShape /\ RelayShape /\ KeysKept /\ PublishersOK
    BY DEF PoolInv
<1>1. SignedStays
    BY DEF SignedStays
<1>2. PublisherOK(w, born')
    OBVIOUS
<1>3. /\ publisher' \in [Publisher -> {Idle} \cup Publishing \cup Offering]
      /\ PublishersOK'
    BY <1>0, <1>1, <1>2, PublisherTurns
<1>4. PoolTypeOK'
    BY <1>0, <1>3 DEF PoolTypeOK
<1>5. PoolShape' /\ KeysKept'
    BY <1>0 DEF PoolShape, KeysKept, MembersDistinct
<1> QED
    BY <1>3, <1>4, <1>5 DEF PoolInv, ClaimsStay

LEMMA SubmitStep ==
    ASSUME PoolInv, UNCHANGED sessions, NEW q \in Publisher, SubmitMember(q)
    PROVE  PoolInv' /\ ClaimsStay
<1>0. PoolTypeOK /\ RelayShape /\ PublisherOK(publisher[q], born)
    BY DEF PoolInv, PublishersOK
<1> PICK w : w = publisher[q]
    OBVIOUS
<1> PICK b : b = w.members[w.at]
    OBVIOUS
<1>1. w \in Publishing /\ \A s \in Slot : born[w.members[s]] # Absent
    BY <1>0 DEF PublisherOK, SubmitMember, Idle, Offering
<1>2. w.at \in Slot /\ w.at \in Int
    BY <1>1, PoolAssumption DEF SubmitMember, Slot, Publishing
<1>3. b \in Bundle /\ born[b] # Absent
    BY <1>1, <1>2 DEF Publishing
<1>4. Stored(b) /\ UNCHANGED <<now, slot, pre, pointer, born, claim, strangers, faults>>
    BY DEF SubmitMember
<1>5. stored' \subseteq Bundle /\ RelayShape'
    BY <1>0, <1>3, <1>4, StoredKeeps
<1>6. PICK d : d = IF Claimable(b) THEN w.dead ELSE w.dead \cup {w.at}
    OBVIOUS
<1>7. PICK v : v = [w EXCEPT !.at = w.at + 1, !.dead = d]
    OBVIOUS
<1>8. Become(q, v)
    BY <1>6, <1>7 DEF SubmitMember
<1>9. d \in SUBSET Slot /\ w.at + 1 \in 0..PoolTarget
    BY <1>1, <1>2, <1>6, PoolAssumption DEF Publishing, Slot
<1>10. v \in Publishing /\ v.members = w.members
    BY <1>1, <1>7, <1>9 DEF Publishing
<1>11. PublisherOK(v, born)
    BY <1>1, <1>10 DEF PublisherOK
<1>12. faults' \in 0..MaxFaults
    BY <1>0, <1>4 DEF PoolTypeOK
<1> QED
    BY <1>4, <1>5, <1>8, <1>11, <1>12, RelayStep

LEMMA ReplaceStep ==
    ASSUME PoolInv, UNCHANGED sessions, NEW q \in Publisher, ReplacePublicationSlot(q)
    PROVE  PoolInv' /\ ClaimsStay
<1>0. PoolTypeOK /\ PoolShape /\ RelayShape /\ KeysKept /\ PublishersOK
      /\ PublisherOK(publisher[q], born)
    BY DEF PoolInv, PublishersOK
<1> PICK w : w = publisher[q]
    OBVIOUS
<1> PICK b : b = FreshPrekey
    OBVIOUS
<1>1. w \in Publishing /\ \A s \in Slot : born[w.members[s]] # Absent
    BY <1>0 DEF PublisherOK, ReplacePublicationSlot, Idle, Offering
<1>2. b = pointer + 1
    BY <1>0, FreshIsNext
<1>3. PICK s \in w.dead : /\ slot' = [slot EXCEPT ![s] = b]
                          /\ pre' = pre \cup {b}
                          /\ Become(q, [pc |-> "offer", members |-> [w.members EXCEPT ![s] = b],
                                        dead |-> w.dead \ {s}, bundle |-> b])
    BY DEF ReplacePublicationSlot, HeldAfter
<1>4. /\ b <= MaxBundles /\ pointer' = b /\ born' = [born EXCEPT ![b] = now]
      /\ UNCHANGED <<now, stored, claim, strangers, faults>>
    BY DEF ReplacePublicationSlot
<1>5. pointer \in Int /\ 1 <= pointer
    BY <1>0 DEF PoolTypeOK, Bundle
<1>6. b \in Bundle /\ b # Absent /\ b \in Int /\ b > pointer
    BY <1>2, <1>4, <1>5, PoolAssumption DEF Bundle
<1>7. s \in Slot
    BY <1>1 DEF Publishing
<1>8. now \in Nat /\ now # Absent
    BY <1>0, PoolAssumption DEF PoolTypeOK
<1>9. /\ born' \in [Bundle -> Nat \cup {Absent}] /\ born'[b] # Absent
      /\ \A d \in Bundle : d # b => born'[d] = born[d]
    BY <1>0, <1>4, <1>6, <1>8 DEF PoolTypeOK
<1>10. SignedStays
    BY <1>9 DEF SignedStays
<1>11. slot' \in [Slot -> Bundle \cup {Absent}] /\ slot'[s] = b
       /\ \A t \in Slot : t # s => slot'[t] = slot[t]
    BY <1>0, <1>3, <1>6, <1>7 DEF PoolTypeOK
<1>12. PICK v : v = [pc |-> "offer", members |-> [w.members EXCEPT ![s] = b],
                     dead |-> w.dead \ {s}, bundle |-> b]
    OBVIOUS
<1>13. [w.members EXCEPT ![s] = b] \in [Slot -> Bundle]
       /\ \A t \in Slot : born'[[w.members EXCEPT ![s] = b][t]] # Absent
    <2>1. w.members \in [Slot -> Bundle]
        BY <1>1 DEF Publishing
    <2>2. \A t \in Slot : born'[w.members[t]] # Absent
        BY <1>1, <1>10, <2>1 DEF SignedStays
    <2> QED
        BY <1>6, <1>7, <1>9, <2>1, <2>2
<1>14. v \in Offering /\ v.bundle = b /\ v.members = [w.members EXCEPT ![s] = b]
    BY <1>1, <1>6, <1>12, <1>13 DEF Offering, Publishing
<1>15. PublisherOK(v, born')
    BY <1>9, <1>13, <1>14 DEF PublisherOK
<1>16. /\ publisher' \in [Publisher -> {Idle} \cup Publishing \cup Offering]
       /\ PublishersOK'
    BY <1>0, <1>3, <1>10, <1>12, <1>15, PublisherTurns
<1>17. PoolTypeOK'
    BY <1>0, <1>3, <1>4, <1>6, <1>9, <1>11, <1>16 DEF PoolTypeOK
<1>18. \A t \in Slot : slot[t] \in Bundle
    <2>1. ~ \A t \in Slot : slot[t] = Absent
        BY <1>0, <1>1, <1>7 DEF PoolShape, Publishing
    <2> QED
        BY <1>0, <2>1 DEF PoolShape
<1>19. \A t \in Slot : slot[t] # Absent /\ slot[t] \in Int /\ slot[t] <= pointer /\ born[slot[t]] # Absent
    BY <1>0, <1>18, PoolAssumption DEF PoolShape, Bundle
<1>20. MembersDistinct'
    BY <1>0, <1>5, <1>6, <1>11, <1>19 DEF MembersDistinct, PoolShape
<1>21. \A t \in Slot : slot'[t] \in Bundle /\ slot'[t] # Absent /\ slot'[t] <= pointer' /\ born'[slot'[t]] # Absent
    BY <1>4, <1>5, <1>6, <1>9, <1>11, <1>18, <1>19
<1>22. \A d \in pre' : d <= pointer'
    BY <1>0, <1>3, <1>4, <1>5, <1>6 DEF PoolShape, PoolTypeOK, Bundle
<1>23. \A d \in Bundle : born'[d] # Absent => d <= pointer'
    BY <1>0, <1>4, <1>5, <1>6, <1>9 DEF PoolShape, Bundle
<1>24. PoolShape'
    BY <1>7, <1>20, <1>21, <1>22, <1>23 DEF PoolShape
<1>25. RelayShape'
    BY <1>0, <1>4, <1>10 DEF RelayShape, SignedStays, PoolTypeOK
<1>26. KeysKept'
    BY <1>0, <1>3, <1>4, <1>9 DEF KeysKept
<1> QED
    BY <1>4, <1>16, <1>17, <1>24, <1>25, <1>26 DEF PoolInv, ClaimsStay

LEMMA OfferStep ==
    ASSUME PoolInv, UNCHANGED sessions, NEW q \in Publisher, OfferReplacement(q)
    PROVE  PoolInv' /\ ClaimsStay
<1>0. PoolTypeOK /\ RelayShape /\ PublisherOK(publisher[q], born)
    BY DEF PoolInv, PublishersOK
<1> PICK w : w = publisher[q]
    OBVIOUS
<1>1. w \in Offering /\ (\A s \in Slot : born[w.members[s]] # Absent) /\ born[w.bundle] # Absent
    BY <1>0 DEF PublisherOK, OfferReplacement, Idle, Publishing
<1>2. PICK v : v = [pc |-> "submit", at |-> PoolTarget, members |-> w.members, dead |-> w.dead]
    OBVIOUS
<1>3. v \in Publishing /\ v.members = w.members
    BY <1>1, <1>2, PoolAssumption DEF Publishing, Offering
<1>4. PublisherOK(v, born) /\ PublisherOK(Idle, born)
    BY <1>1, <1>3 DEF PublisherOK
<1>5. PICK u : u = IF Expired(w.bundle) THEN Idle ELSE v
    OBVIOUS
<1>6. PublisherOK(u, born)
    BY <1>4, <1>5
<1>7. Stored(w.bundle) /\ UNCHANGED <<now, slot, pre, pointer, born, claim, strangers, faults>>
      /\ Become(q, u)
    BY <1>2, <1>5 DEF OfferReplacement
<1>8. w.bundle \in Bundle
    BY <1>1 DEF Offering
<1>9. stored' \subseteq Bundle /\ RelayShape'
    BY <1>0, <1>1, <1>7, <1>8, StoredKeeps
<1>10. faults' \in 0..MaxFaults
    BY <1>0, <1>7 DEF PoolTypeOK
<1> QED
    BY <1>6, <1>7, <1>9, <1>10, RelayStep

LEMMA DoneStep ==
    ASSUME PoolInv, UNCHANGED sessions, NEW q \in Publisher, PublishDone(q)
    PROVE  PoolInv' /\ ClaimsStay
<1>1. PublisherOK(Idle, born)
    BY DEF PublisherOK
<1>2. UNCHANGED <<now, slot, pre, pointer, born, stored, claim, strangers, faults>> /\ Become(q, Idle)
    BY DEF PublishDone
<1>3. stored' \subseteq Bundle /\ RelayShape' /\ faults' \in 0..MaxFaults
    BY <1>2 DEF PoolInv, PoolTypeOK, RelayShape
<1> QED
    BY <1>1, <1>2, <1>3, RelayStep

LEMMA PublishEndsStep ==
    ASSUME PoolInv, UNCHANGED sessions, NEW q \in Publisher, PublishEnds(q)
    PROVE  PoolInv' /\ ClaimsStay
<1>0. PoolTypeOK /\ RelayShape /\ PublisherOK(publisher[q], born)
    BY DEF PoolInv, PublishersOK
<1> PICK w : w = publisher[q]
    OBVIOUS
<1>1. PublisherOK(Idle, born)
    BY DEF PublisherOK
<1>2. UNCHANGED <<now, slot, pre, pointer, born, claim, strangers>> /\ Become(q, Idle)
    BY DEF PublishEnds
<1>3. faults' \in 0..MaxFaults
    BY <1>0, PoolAssumption DEF PublishEnds, PoolTypeOK
<1>4. stored' \subseteq Bundle /\ RelayShape'
    <2>1. CASE UNCHANGED stored
        BY <1>0, <1>2, <2>1 DEF PoolTypeOK, RelayShape
    <2>2. CASE w.pc = "offer" /\ Stored(w.bundle)
        <3>1. w.bundle \in Bundle /\ born[w.bundle] # Absent
            BY <1>0, <2>2 DEF PublisherOK, Idle, Publishing, Offering
        <3> QED
            BY <1>0, <1>2, <2>2, <3>1, StoredKeeps
    <2>3. CASE w.pc = "submit" /\ w.at < PoolTarget /\ Stored(w.members[w.at])
        <3>1. w \in Publishing /\ \A s \in Slot : born[w.members[s]] # Absent
            BY <1>0, <2>3 DEF PublisherOK, Idle, Offering
        <3>2. w.at \in Slot
            BY <2>3, <3>1, PoolAssumption DEF Slot, Publishing
        <3>3. w.members[w.at] \in Bundle /\ born[w.members[w.at]] # Absent
            BY <3>1, <3>2 DEF Publishing
        <3> QED
            BY <1>0, <1>2, <2>3, <3>3, StoredKeeps
    <2> QED
        BY <2>1, <2>2, <2>3 DEF PublishEnds
<1> QED
    BY <1>1, <1>2, <1>3, <1>4, RelayStep

\* The relay hands out only what no one has claimed.
LEMMA AvailableIsFree ==
    ASSUME NEW b \in FirstAvailable
    PROVE  b \in stored /\ claim[b] = Absent /\ ~Expired(b)
    BY DEF FirstAvailable, Claimable

LEMMA StrangerClaimsStep ==
    ASSUME PoolInv, UNCHANGED sessions, StrangerClaims
    PROVE  PoolInv' /\ ClaimsStay
<1>0. PoolTypeOK /\ PoolShape /\ RelayShape /\ KeysKept /\ PublishersOK
    BY DEF PoolInv
<1>1. PICK b \in FirstAvailable : claim' = [claim EXCEPT ![b] = Stranger]
    BY DEF StrangerClaims
<1>2. b \in stored /\ claim[b] = Absent /\ b \in Bundle
    BY <1>0, AvailableIsFree DEF PoolTypeOK
<1>3. UNCHANGED <<now, slot, pre, pointer, born, stored, publisher, faults>>
      /\ strangers' = strangers + 1 /\ strangers < MaxStrangers
    BY DEF StrangerClaims
<1>4. claim' \in [Bundle -> ClaimId \cup {Stranger, Absent}] /\ claim'[b] = Stranger
      /\ \A d \in Bundle : d # b => claim'[d] = claim[d]
    BY <1>0, <1>1, <1>2 DEF PoolTypeOK
<1>5. ClaimsStay
    BY <1>2, <1>4, PoolAssumption DEF ClaimsStay, ClaimId
<1>6. PublishersOK' /\ publisher' \in [Publisher -> {Idle} \cup Publishing \cup Offering]
    BY <1>0, <1>3, PublishersKept
<1>7. strangers' \in 0..MaxStrangers
    BY <1>0, <1>3, PoolAssumption DEF PoolTypeOK
<1>8. PoolTypeOK'
    BY <1>0, <1>3, <1>4, <1>6, <1>7 DEF PoolTypeOK
<1>9. PoolShape'
    BY <1>0, <1>3 DEF PoolShape, MembersDistinct
<1>10. RelayShape' /\ KeysKept'
    BY <1>0, <1>2, <1>3, <1>4 DEF RelayShape, KeysKept
<1> QED
    BY <1>5, <1>6, <1>8, <1>9, <1>10 DEF PoolInv

\* A stranger's first message uses up the prekey the stranger claimed.
LEMMA StrangerMessageStep ==
    ASSUME PoolInv, UNCHANGED sessions, NEW b \in Bundle, StrangerMessage(b)
    PROVE  PoolInv' /\ ClaimsStay
<1>0. PoolTypeOK /\ PoolShape /\ RelayShape /\ KeysKept /\ PublishersOK
    BY DEF PoolInv
<1>1. UNCHANGED <<now, slot, pointer, born, stored, claim, publisher, strangers, faults>>
      /\ pre' = pre \ {b} /\ claim[b] = Stranger
    BY DEF StrangerMessage
<1>2. PublishersOK' /\ publisher' \in [Publisher -> {Idle} \cup Publishing \cup Offering]
    BY <1>0, <1>1, PublishersKept
<1>3. PoolTypeOK'
    BY <1>0, <1>1, <1>2 DEF PoolTypeOK
<1>4. born[b] # Absent
    BY <1>0, <1>1, PoolAssumption DEF RelayShape
<1>5. PoolShape'
    BY <1>0, <1>1, <1>4 DEF PoolShape, MembersDistinct
<1>6. RelayShape' /\ KeysKept'
    BY <1>0, <1>1 DEF RelayShape, KeysKept
<1> QED
    BY <1>1, <1>2, <1>3, <1>5, <1>6 DEF PoolInv, ClaimsStay

LEMMA TickStep ==
    ASSUME PoolInv, UNCHANGED sessions, Tick
    PROVE  PoolInv' /\ ClaimsStay
<1>0. PoolTypeOK /\ PoolShape /\ RelayShape /\ KeysKept /\ PublishersOK
    BY DEF PoolInv
<1>1. UNCHANGED <<slot, pre, pointer, born, stored, claim, publisher, strangers, faults>>
    BY DEF Tick
<1>2. now' \in 0..MaxTime
    BY <1>0, PoolAssumption DEF Tick, PoolTypeOK
<1>3. PublishersOK' /\ publisher' \in [Publisher -> {Idle} \cup Publishing \cup Offering]
    BY <1>0, <1>1, PublishersKept
<1>4. PoolTypeOK'
    BY <1>0, <1>1, <1>2, <1>3 DEF PoolTypeOK
<1>5. PoolShape' /\ RelayShape' /\ KeysKept'
    BY <1>0, <1>1 DEF PoolShape, RelayShape, KeysKept, MembersDistinct
<1> QED
    BY <1>1, <1>3, <1>4, <1>5 DEF PoolInv, ClaimsStay

LEMMA PoolStep ==
    ASSUME PoolInv, sessions \subseteq Bundle, UNCHANGED sessions, PoolNext
    PROVE  PoolInv' /\ ClaimsStay
<1>1. CASE \E q \in Publisher : PublishStep(q) \/ PublishEnds(q)
    BY <1>1, RestoreStep, SubmitStep, ReplaceStep, OfferStep, DoneStep, PublishEndsStep
       DEF PublishStep
<1>2. CASE StrangerClaims
    BY <1>2, StrangerClaimsStep
<1>3. CASE \E b \in Bundle : StrangerMessage(b)
    BY <1>3, StrangerMessageStep
<1>4. CASE Tick
    BY <1>4, TickStep
<1> QED
    BY <1>1, <1>2, <1>3, <1>4 DEF PoolNext

-----------------------------------------------------------------------------
(* The steps of the send commands and of the contact.                      *)

SenderTypeOK ==
    /\ claimKey \in ClaimId \cup {Absent}
    /\ claims \in ClaimId \cup {0}
    /\ session \in Bundle \cup {Peer, Absent}
    /\ outbox \in [Message -> Record \cup {Absent}]
    /\ envelopes \in Nat
    /\ mailbox \subseteq accepted
    /\ sessions \subseteq Bundle
    /\ accepted \subseteq Envelope
    /\ proc \in [Proc -> {Idle} \cup Asked \cup Claiming \cup Answered \cup Committing \cup Delivering]

SenderInv == CommandsOK /\ OutboxOK /\ AcceptedOK /\ SessionOK

LEMMA Parts ==
    /\ IInv <=> PoolInv /\ SenderTypeOK /\ SenderInv
    /\ IInv' <=> PoolInv' /\ SenderTypeOK' /\ SenderInv'
    BY DEF IInv, PoolInv, SenderTypeOK, SenderInv, TypeOK

\* A command's record has the type of its place in the command.
LEMMA CommandTyped ==
    ASSUME NEW w, NEW owner, NEW box, NEW held, CommandOK(w, owner, box, held)
    PROVE  w \in {Idle} \cup Asked \cup Claiming \cup Answered \cup Committing \cup Delivering
    BY DEF CommandOK

\* Turning to a state that is in order.
LEMMA TurnKeeps ==
    ASSUME IInv, ClaimsStay, OutboxStays, SessionStays,
           NEW p \in Proc, NEW w, Turn(p, w), CommandOK(w, claim', outbox', session')
    PROVE  /\ proc' \in [Proc -> {Idle} \cup Asked \cup Claiming \cup Answered \cup Committing \cup Delivering]
           /\ CommandsOK'
<1>1. TypeOK /\ CommandsOK
    BY DEF IInv
<1>2. w \in {Idle} \cup Asked \cup Claiming \cup Answered \cup Committing \cup Delivering
    BY CommandTyped
<1> QED
    BY <1>1, <1>2, CommandTurns, TurnTyped

\* The pool as a step leaves it that touches none of it.
LEMMA PoolKept ==
    ASSUME PoolInv, UNCHANGED poolVars, UNCHANGED sessions
    PROVE  PoolInv' /\ ClaimsStay
<1>1. UNCHANGED <<now, slot, pre, pointer, born, stored, claim, publisher, strangers, faults>>
    BY DEF poolVars
<1>2. PoolTypeOK'
    BY <1>1 DEF PoolInv, PoolTypeOK
<1>3. PoolShape' /\ RelayShape' /\ KeysKept' /\ PublishersOK'
    BY <1>1 DEF PoolInv, PoolShape, RelayShape, KeysKept, MembersDistinct, PublishersOK
<1> QED
    BY <1>1, <1>2, <1>3 DEF PoolInv, ClaimsStay

\* What is in the outbox, accepted and established is untouched.
LEMMA PaperKept ==
    ASSUME SenderTypeOK, SenderInv, ClaimsStay, UNCHANGED <<session, outbox, accepted>>
    PROVE  OutboxOK' /\ AcceptedOK' /\ SessionOK' /\ OutboxStays /\ SessionStays
<1>1. OutboxOK'
    BY OursKept DEF SenderInv, OutboxOK
<1>2. AcceptedOK'
    BY DEF SenderInv, AcceptedOK
<1>3. SessionOK'
    BY OursKept DEF SenderInv, SessionOK
<1> QED
    BY <1>1, <1>2, <1>3, StayWhenUnchanged

LEMMA SendOwnedStep ==
    ASSUME IInv, NEW p \in Proc, NEW s \in Sends, SendOwned(p, s)
    PROVE  IInv'
<1>0. PoolInv /\ SenderTypeOK /\ SenderInv
    BY Parts
<1>1. UNCHANGED <<poolVars, claimKey, claims, session, outbox, envelopes, mailbox, sessions, accepted>>
    BY DEF SendOwned
<1>2. PoolInv' /\ ClaimsStay
    BY <1>0, <1>1, PoolKept
<1>3. OutboxOK' /\ AcceptedOK' /\ SessionOK' /\ OutboxStays /\ SessionStays
    BY <1>0, <1>1, <1>2, PaperKept
<1>4. s.message \in Message
    BY OutboundAssumption
<1>5. proc' \in [Proc -> {Idle} \cup Asked \cup Claiming \cup Answered \cup Committing \cup Delivering]
      /\ CommandsOK'
    <2>1. CASE outbox[s.message] = Absent
        <3>1. PICK w : w = [pc |-> "claimId", send |-> s]
            OBVIOUS
        <3>2. Turn(p, w)
            BY <2>1, <3>1 DEF SendOwned
        <3>3. w \in Asked
            BY <3>1 DEF Asked
        <3>4. CommandOK(w, claim', outbox', session')
            BY <3>3 DEF CommandOK
        <3> QED
            BY <1>2, <1>3, <3>2, <3>4, TurnKeeps
    <2>2. CASE outbox[s.message] # Absent
        <3>1. PICK w : w = [pc |-> "deliver", record |-> outbox[s.message]]
            OBVIOUS
        <3>2. Turn(p, w)
            BY <2>2, <3>1 DEF SendOwned
        <3>3. outbox[s.message] \in Record
            BY <1>0, <1>4, <2>2 DEF SenderTypeOK
        <3>4. w \in Delivering
            BY <3>1, <3>3 DEF Delivering
        <3>5. outbox[s.message].envelope.message = s.message
            BY <1>0, <1>4, <2>2 DEF SenderInv, OutboxOK
        <3>6. Settled(w.record.envelope, outbox')
            BY <1>1, <2>2, <3>1, <3>5 DEF Settled
        <3>7. CommandOK(w, claim', outbox', session')
            BY <3>4, <3>6 DEF CommandOK
        <3> QED
            BY <1>2, <1>3, <3>2, <3>7, TurnKeeps
    <2> QED
        BY <2>1, <2>2
<1>6. SenderTypeOK'
    BY <1>0, <1>1, <1>5 DEF SenderTypeOK
<1> QED
    BY <1>2, <1>3, <1>5, <1>6, Parts DEF SenderInv

LEMMA StoreClaimIdStep ==
    ASSUME IInv, NEW p \in Proc, StoreClaimId(p)
    PROVE  IInv'
<1>0. PoolInv /\ SenderTypeOK /\ SenderInv
    BY Parts
<1> PICK v : v = proc[p]
    OBVIOUS
<1>1. UNCHANGED <<poolVars, session, outbox, envelopes, mailbox, sessions, accepted>>
      /\ v.pc = "claimId"
    BY DEF StoreClaimId
<1>2. PoolInv' /\ ClaimsStay
    BY <1>0, <1>1, PoolKept
<1>3. OutboxOK' /\ AcceptedOK' /\ SessionOK' /\ OutboxStays /\ SessionStays
    BY <1>0, <1>1, <1>2, PaperKept
<1>4. v.send \in Sends
    BY <1>0, <1>1 DEF SenderTypeOK, Idle, Asked, Claiming, Answered, Committing, Delivering
<1>5. /\ proc' \in [Proc -> {Idle} \cup Asked \cup Claiming \cup Answered \cup Committing \cup Delivering]
      /\ CommandsOK'
      /\ claimKey' \in ClaimId \cup {Absent} /\ claims' \in ClaimId \cup {0}
    <2>1. CASE session # Absent
        <3>1. PICK w : w = [pc |-> "commit", send |-> v.send, bundle |-> Absent]
            OBVIOUS
        <3>2. Turn(p, w) /\ UNCHANGED <<claimKey, claims>>
            BY <2>1, <3>1 DEF StoreClaimId
        <3>3. w \in Committing
            BY <1>4, <3>1 DEF Committing
        <3>4. CommandOK(w, claim', outbox', session')
            BY <1>1, <2>1, <3>1, <3>3 DEF CommandOK
        <3> QED
            BY <1>0, <1>2, <1>3, <3>2, <3>4, TurnKeeps DEF SenderTypeOK
    <2>2. CASE session = Absent
        <3>1. PICK id : id = IF StoredClaimId = Absent THEN claims + 1 ELSE StoredClaimId
            OBVIOUS
        <3>2. PICK w : w = [pc |-> "claim", send |-> v.send, claim |-> id, replaced |-> FALSE]
            OBVIOUS
        <3>3. /\ id \in ClaimId /\ claimKey' = id /\ Turn(p, w)
              /\ claims' = IF StoredClaimId = Absent THEN id ELSE claims
            BY <2>2, <3>1, <3>2 DEF StoreClaimId
        <3>4. w \in Claiming
            BY <1>4, <3>2, <3>3 DEF Claiming
        <3>5. CommandOK(w, claim', outbox', session')
            BY <3>4 DEF CommandOK
        <3> QED
            BY <1>0, <1>2, <1>3, <3>3, <3>5, TurnKeeps DEF SenderTypeOK
    <2> QED
        BY <2>1, <2>2
<1>6. SenderTypeOK'
    BY <1>0, <1>1, <1>5 DEF SenderTypeOK
<1> QED
    BY <1>2, <1>3, <1>5, <1>6, Parts DEF SenderInv

\* The relay's part of a claim.
LEMMA ClaimKeeps ==
    ASSUME PoolInv, NEW c \in ClaimId, NEW b \in Offers(c), ClaimedBy(c, b),
           UNCHANGED <<now, slot, pre, pointer, born, stored, publisher, strangers, sessions>>,
           faults' \in 0..MaxFaults
    PROVE  PoolInv' /\ ClaimsStay /\ b \in Bundle /\ claim'[b] = c
<1>0. PoolTypeOK /\ PoolShape /\ RelayShape /\ KeysKept /\ PublishersOK
    BY DEF PoolInv
<1>1. b \in Bundle /\ (claim[b] = c \/ claim[b] = Absent) /\ b \in stored
    <2>1. CASE {d \in Bundle : claim[d] = c} # {}
        BY <1>0, <2>1, PoolAssumption DEF Offers, RelayShape, ClaimId
    <2>2. CASE {d \in Bundle : claim[d] = c} = {}
        <3>1. b \in FirstAvailable
            BY <2>2 DEF Offers
        <3> QED
            BY <1>0, <3>1, AvailableIsFree DEF PoolTypeOK
    <2> QED
        BY <2>1, <2>2
<1>2. claim' \in [Bundle -> ClaimId \cup {Stranger, Absent}] /\ claim'[b] = c
      /\ \A d \in Bundle : d # b => claim'[d] = claim[d]
    BY <1>0, <1>1 DEF PoolTypeOK, ClaimedBy
<1>3. ClaimsStay
    BY <1>2 DEF ClaimsStay
<1>4. PublishersOK' /\ publisher' \in [Publisher -> {Idle} \cup Publishing \cup Offering]
    BY <1>0, PublishersKept
<1>5. PoolTypeOK'
    BY <1>0, <1>2, <1>4 DEF PoolTypeOK
<1>6. PoolShape'
    BY <1>0 DEF PoolShape, MembersDistinct
<1>7. RelayShape'
    BY <1>0, <1>1, <1>2 DEF RelayShape
<1>8. claim[b] # Stranger
    BY <1>1, PoolAssumption DEF ClaimId
<1>9. KeysKept'
    BY <1>0, <1>2, <1>8 DEF KeysKept
<1> QED
    BY <1>1, <1>2, <1>3, <1>4, <1>5, <1>6, <1>7, <1>9 DEF PoolInv

LEMMA ClaimStep ==
    ASSUME IInv, NEW p \in Proc, ClaimFirstContact(p)
    PROVE  IInv'
<1>0. PoolInv /\ SenderTypeOK /\ SenderInv
    BY Parts
<1> PICK w : w = proc[p]
    OBVIOUS
<1>1. UNCHANGED <<now, slot, pre, pointer, born, stored, publisher, strangers, faults, claimKey,
                  claims, session, outbox, envelopes, mailbox, sessions, accepted>>
      /\ w.pc = "claim"
    BY DEF ClaimFirstContact
<1>2. w.send \in Sends /\ w.claim \in ClaimId /\ w.replaced \in BOOLEAN
    BY <1>0, <1>1 DEF SenderTypeOK, Idle, Asked, Claiming, Answered, Committing, Delivering
<1>3. faults' \in 0..MaxFaults
    BY <1>0, <1>1 DEF PoolInv, PoolTypeOK
<1>4. PoolInv' /\ ClaimsStay /\ \E v : Turn(p, v) /\ CommandOK(v, claim', outbox', session')
    <2>1. CASE Offers(w.claim) = {}
        <3>1. Turn(p, Idle) /\ UNCHANGED claim
            BY <2>1 DEF ClaimFirstContact
        <3>2. PoolInv' /\ ClaimsStay
            BY <1>0, <1>1, <3>1, PoolKept DEF poolVars
        <3>3. CommandOK(Idle, claim', outbox', session')
            BY DEF CommandOK
        <3> QED
            BY <3>1, <3>2, <3>3
    <2>2. CASE Offers(w.claim) # {}
        <3>1. PICK b \in Offers(w.claim) :
                  /\ ClaimedBy(w.claim, b)
                  /\ Turn(p, [pc |-> "judge", send |-> w.send, replaced |-> w.replaced, bundle |-> b])
            BY <2>2 DEF ClaimFirstContact
        <3>2. PoolInv' /\ ClaimsStay /\ b \in Bundle /\ claim'[b] = w.claim
            BY <1>0, <1>1, <1>2, <1>3, <3>1, ClaimKeeps
        <3>3. PICK v : v = [pc |-> "judge", send |-> w.send, replaced |-> w.replaced, bundle |-> b]
            OBVIOUS
        <3>4. v \in Answered /\ v.bundle = b
            BY <1>2, <3>2, <3>3 DEF Answered
        <3>5. CommandOK(v, claim', outbox', session')
            BY <1>2, <3>2, <3>4 DEF CommandOK
        <3> QED
            BY <3>1, <3>2, <3>3, <3>5
    <2> QED
        BY <2>1, <2>2
<1>5. OutboxOK' /\ AcceptedOK' /\ SessionOK' /\ OutboxStays /\ SessionStays
    BY <1>0, <1>1, <1>4, PaperKept
<1>6. proc' \in [Proc -> {Idle} \cup Asked \cup Claiming \cup Answered \cup Committing \cup Delivering]
      /\ CommandsOK'
    BY <1>4, <1>5, TurnKeeps
<1>7. SenderTypeOK'
    BY <1>0, <1>1, <1>6 DEF SenderTypeOK
<1> QED
    BY <1>4, <1>5, <1>6, <1>7, Parts DEF SenderInv

LEMMA JudgeStep ==
    ASSUME IInv, NEW p \in Proc, JudgeClaim(p)
    PROVE  IInv'
<1>0. PoolInv /\ SenderTypeOK /\ SenderInv
    BY Parts
<1> PICK w : w = proc[p]
    OBVIOUS
<1>1. UNCHANGED <<poolVars, claimKey, claims, session, outbox, envelopes, mailbox, sessions, accepted>>
      /\ w.pc = "judge"
    BY DEF JudgeClaim
<1>2. PoolInv' /\ ClaimsStay
    BY <1>0, <1>1, PoolKept
<1>3. OutboxOK' /\ AcceptedOK' /\ SessionOK' /\ OutboxStays /\ SessionStays
    BY <1>0, <1>1, <1>2, PaperKept
<1>4. w \in Answered /\ claim[w.bundle] \in ClaimId
    BY <1>0, <1>1 DEF SenderInv, CommandsOK, CommandOK, Idle, Asked, Claiming, Committing, Delivering
<1>5. w.send \in Sends /\ w.bundle \in Bundle /\ w.bundle # Absent
    BY <1>4, PoolAssumption DEF Answered, Bundle
<1>6. [pc |-> "reclaim", send |-> w.send] \in Asked
    BY <1>5 DEF Asked
<1>7. [pc |-> "commit", send |-> w.send, bundle |-> w.bundle] \in Committing
    BY <1>5 DEF Committing
<1>8. PICK v : v = IF Expired(w.bundle) THEN DeadClaim(w)
                   ELSE [pc |-> "commit", send |-> w.send, bundle |-> w.bundle]
    OBVIOUS
<1>9. Turn(p, v)
    BY <1>8 DEF JudgeClaim
<1>10. claim'[w.bundle] \in ClaimId
    BY <1>2, <1>4, <1>5 DEF ClaimsStay
<1>11. CommandOK(Idle, claim', outbox', session')
       /\ CommandOK([pc |-> "reclaim", send |-> w.send], claim', outbox', session')
    BY <1>6 DEF CommandOK
<1>12. CommandOK([pc |-> "commit", send |-> w.send, bundle |-> w.bundle], claim', outbox', session')
    BY <1>5, <1>7, <1>10 DEF CommandOK
<1>13. CommandOK(v, claim', outbox', session')
    BY <1>8, <1>11, <1>12 DEF DeadClaim
<1>14. proc' \in [Proc -> {Idle} \cup Asked \cup Claiming \cup Answered \cup Committing \cup Delivering]
      /\ CommandsOK'
    BY <1>2, <1>3, <1>9, <1>13, TurnKeeps
<1>15. SenderTypeOK'
    BY <1>0, <1>1, <1>14 DEF SenderTypeOK
<1> QED
    BY <1>2, <1>3, <1>14, <1>15, Parts DEF SenderInv

LEMMA ReplaceDeadClaimStep ==
    ASSUME IInv, NEW p \in Proc, ReplaceDeadClaim(p)
    PROVE  IInv'
<1>0. PoolInv /\ SenderTypeOK /\ SenderInv
    BY Parts
<1> PICK w : w = proc[p]
    OBVIOUS
<1>1. UNCHANGED <<poolVars, session, outbox, envelopes, mailbox, sessions, accepted>>
      /\ w.pc = "reclaim" /\ claims + 1 \in ClaimId /\ claims' = claims + 1 /\ claimKey' = claims + 1
    BY DEF ReplaceDeadClaim
<1>2. PoolInv' /\ ClaimsStay
    BY <1>0, <1>1, PoolKept
<1>3. OutboxOK' /\ AcceptedOK' /\ SessionOK' /\ OutboxStays /\ SessionStays
    BY <1>0, <1>1, <1>2, PaperKept
<1>4. w.send \in Sends
    BY <1>0, <1>1 DEF SenderTypeOK, Idle, Asked, Claiming, Answered, Committing, Delivering
<1>5. PICK v : v = [pc |-> "claim", send |-> w.send, claim |-> claims + 1, replaced |-> TRUE]
    OBVIOUS
<1>6. v \in Claiming
    BY <1>1, <1>4, <1>5 DEF Claiming
<1>7. CommandOK(v, claim', outbox', session')
    BY <1>6 DEF CommandOK
<1>8. Turn(p, v)
    BY <1>5 DEF ReplaceDeadClaim
<1>9. proc' \in [Proc -> {Idle} \cup Asked \cup Claiming \cup Answered \cup Committing \cup Delivering]
      /\ CommandsOK'
    BY <1>2, <1>3, <1>7, <1>8, TurnKeeps
<1>10. SenderTypeOK'
    BY <1>0, <1>1, <1>9 DEF SenderTypeOK
<1> QED
    BY <1>2, <1>3, <1>9, <1>10, Parts DEF SenderInv

\* Committing a message under key k: the session, the outbox entry and the end of
\* the claim.
LEMMA CommitKeeps ==
    ASSUME IInv, NEW p \in Proc, NEW s \in Sends, NEW k, k # Absent, Ours(k, claim),
           outbox[s.message] = Absent,
           NEW r, r = [envelope |-> Encrypted(s, k), status |-> "pending"],
           session' = k, outbox' = [outbox EXCEPT ![s.message] = r], envelopes' = envelopes + 1,
           claimKey' = Absent, Turn(p, [pc |-> "deliver", record |-> r]),
           UNCHANGED <<poolVars, claims, mailbox, sessions, accepted>>
    PROVE  IInv'
<1>0. PoolInv /\ SenderTypeOK /\ SenderInv
    BY Parts
<1>1. PoolInv' /\ ClaimsStay /\ UNCHANGED claim
    BY <1>0, PoolKept DEF poolVars
<1>2. s.message \in Message /\ s.content \in Content
    BY OutboundAssumption
<1>3. now + EnvelopeLife \in Nat /\ envelopes + 1 \in Nat
    BY <1>0, PoolAssumption, OutboundAssumption DEF PoolInv, PoolTypeOK, SenderTypeOK
<1>4. k \in Bundle \cup {Peer}
    BY DEF Ours
<1>5. PICK e : e = Encrypted(s, k)
    OBVIOUS
<1>6. e \in Envelope /\ e.message = s.message /\ e.key = k
    BY <1>2, <1>3, <1>4, <1>5 DEF Envelope, Encrypted
<1>7. r \in Record /\ r.envelope = e /\ r # Absent
    BY <1>5, <1>6, RecordAssumption DEF Record
<1>8. outbox \in [Message -> Record \cup {Absent}]
    BY <1>0 DEF SenderTypeOK
<1>9. outbox' \in [Message -> Record \cup {Absent}] /\ outbox'[s.message] = r
      /\ \A m \in Message : m # s.message => outbox'[m] = outbox[m]
    BY <1>2, <1>7, <1>8
<1>10. OutboxStays
    BY <1>9 DEF OutboxStays
<1>11. SessionStays
    BY DEF SessionStays
<1>12. PICK v : v = [pc |-> "deliver", record |-> r]
    OBVIOUS
<1>13. v \in Delivering /\ v.record.envelope = e
    BY <1>7, <1>12 DEF Delivering
<1>14. Settled(e, outbox')
    BY <1>6, <1>7, <1>9 DEF Settled
<1>15. CommandOK(v, claim', outbox', session')
    BY <1>13, <1>14 DEF CommandOK
<1>16. proc' \in [Proc -> {Idle} \cup Asked \cup Claiming \cup Answered \cup Committing \cup Delivering]
      /\ CommandsOK'
    BY <1>1, <1>10, <1>11, <1>12, <1>15, TurnKeeps
<1>17. OutboxOK'
    <2> SUFFICES ASSUME NEW m \in Message, outbox'[m] # Absent
                 PROVE  outbox'[m].envelope.message = m /\ Ours(outbox'[m].envelope.key, claim')
        BY DEF OutboxOK
    <2>1. CASE m = s.message
        BY <1>1, <1>6, <1>7, <1>9, <2>1
    <2>2. CASE m # s.message
        BY <1>0, <1>1, <1>9, <2>2 DEF SenderInv, OutboxOK
    <2> QED
        BY <2>1, <2>2
<1>18. AcceptedOK'
    <2> SUFFICES ASSUME NEW f \in accepted PROVE Settled(f, outbox')
        BY DEF AcceptedOK
    <2>1. Settled(f, outbox) /\ f.message \in Message
        BY <1>0 DEF SenderInv, AcceptedOK, SenderTypeOK, Envelope
    <2> QED
        BY <1>10, <2>1, SettledKept
<1>19. SessionOK'
    BY <1>1 DEF SessionOK
<1>20. SenderTypeOK'
    BY <1>0, <1>3, <1>4, <1>9, <1>16 DEF SenderTypeOK
<1> QED
    BY <1>1, <1>16, <1>17, <1>18, <1>19, <1>20, Parts DEF SenderInv

LEMMA CommitStep ==
    ASSUME IInv, NEW p \in Proc, Commit(p)
    PROVE  IInv'
<1>0. PoolInv /\ SenderTypeOK /\ SenderInv
    BY Parts
<1> PICK w : w = proc[p]
    OBVIOUS
<1> PICK s : s = w.send
    OBVIOUS
<1>1. UNCHANGED <<poolVars, claims, mailbox, sessions, accepted>> /\ w.pc = "commit"
    BY DEF Commit
<1>2. w \in Committing /\ (IF w.bundle = Absent THEN session # Absent ELSE claim[w.bundle] \in ClaimId)
    BY <1>0, <1>1 DEF SenderInv, CommandsOK, CommandOK, Idle, Asked, Claiming, Answered, Delivering
<1>3. s \in Sends /\ w.bundle \in Bundle \cup {Absent}
    BY <1>2 DEF Committing
<1>4. s.message \in Message
    BY <1>3, OutboundAssumption
<1>5. ASSUME UNCHANGED <<claimKey, session, outbox, envelopes>>,
             NEW v, Turn(p, v), CommandOK(v, claim', outbox', session')
      PROVE  IInv'
    <2>1. PoolInv' /\ ClaimsStay
        BY <1>0, <1>1, PoolKept
    <2>2. OutboxOK' /\ AcceptedOK' /\ SessionOK' /\ OutboxStays /\ SessionStays
        BY <1>0, <1>1, <1>5, <2>1, PaperKept
    <2>3. proc' \in [Proc -> {Idle} \cup Asked \cup Claiming \cup Answered \cup Committing \cup Delivering]
          /\ CommandsOK'
        BY <1>5, <2>1, <2>2, TurnKeeps
    <2>4. SenderTypeOK'
        BY <1>0, <1>1, <1>5, <2>3 DEF SenderTypeOK
    <2> QED
        BY <2>1, <2>2, <2>3, <2>4, Parts DEF SenderInv
<1>6. CommandOK(Idle, claim', outbox', session')
    BY DEF CommandOK
<1>7. CASE outbox[s.message] # Absent
    <2>1. PICK v : v = [pc |-> "deliver", record |-> outbox[s.message]]
        OBVIOUS
    <2>2. UNCHANGED <<claimKey, session, outbox, envelopes>> /\ (Turn(p, v) \/ Turn(p, Idle))
        BY <1>7, <2>1 DEF Commit, Committed
    <2>3. outbox[s.message] \in Record
        BY <1>0, <1>4, <1>7 DEF SenderTypeOK
    <2>4. v \in Delivering
        BY <2>1, <2>3 DEF Delivering
    <2>5. outbox[s.message].envelope.message = s.message
        BY <1>0, <1>4, <1>7 DEF SenderInv, OutboxOK
    <2>6. Settled(v.record.envelope, outbox')
        BY <1>7, <2>1, <2>2, <2>5 DEF Settled
    <2>7. CommandOK(v, claim', outbox', session')
        BY <2>4, <2>6 DEF CommandOK
    <2> QED
        BY <1>5, <1>6, <2>2, <2>7
<1>8. CASE outbox[s.message] = Absent /\ EstablishRefuses(w.bundle)
    <2>1. Turn(p, Idle) /\ UNCHANGED <<claimKey, session, outbox, envelopes>>
        BY <1>8 DEF Commit, Committed
    <2> QED
        BY <1>5, <1>6, <2>1
<1>9. CASE outbox[s.message] = Absent /\ ~EstablishRefuses(w.bundle)
    <2>1. PICK k : k = IF w.bundle = Absent THEN session ELSE w.bundle
        OBVIOUS
    <2>2. PICK r : r = [envelope |-> Encrypted(s, k), status |-> "pending"]
        OBVIOUS
    <2>3. /\ session' = k /\ outbox' = [outbox EXCEPT ![s.message] = r]
          /\ envelopes' = envelopes + 1 /\ claimKey' = Absent
          /\ Turn(p, [pc |-> "deliver", record |-> r])
        BY <1>9, <2>1, <2>2 DEF Commit, Committed
    <2>4. k # Absent /\ Ours(k, claim)
        BY <1>0, <1>2, <1>3, <2>1 DEF SenderInv, SessionOK, Ours
    <2> QED
        BY <1>1, <1>3, <1>9, <2>2, <2>3, <2>4, CommitKeeps
<1> QED
    BY <1>7, <1>8, <1>9

\* The relay's part of a delivery.
LEMMA DepositKeeps ==
    ASSUME SenderTypeOK, SenderInv, NEW e \in Envelope, Settled(e, outbox), UNCHANGED outbox,
           Deposited(e)
    PROVE  mailbox' \subseteq accepted' /\ accepted' \subseteq Envelope /\ AcceptedOK'
    BY DEF SenderTypeOK, SenderInv, AcceptedOK, Deposited

LEMMA DeliveringFacts ==
    ASSUME SenderInv, NEW p \in Proc, proc[p].pc \in {"deliver", "delivered"}
    PROVE  /\ proc[p] \in Delivering
           /\ proc[p].record \in Record
           /\ proc[p].record.envelope \in Envelope
           /\ proc[p].record.envelope.message \in Message
           /\ Settled(proc[p].record.envelope, outbox)
<1>1. CommandOK(proc[p], claim, outbox, session)
    BY DEF SenderInv, CommandsOK
<1>2. proc[p] \in Delivering /\ Settled(proc[p].record.envelope, outbox)
    BY <1>1 DEF CommandOK, Idle, Asked, Claiming, Answered, Committing
<1> QED
    BY <1>2 DEF Delivering, Record, Envelope

LEMMA DeliverStep ==
    ASSUME IInv, NEW p \in Proc, Deliver(p)
    PROVE  IInv'
<1>0. PoolInv /\ SenderTypeOK /\ SenderInv
    BY Parts
<1> PICK w : w = proc[p]
    OBVIOUS
<1> PICK e : e = w.record.envelope
    OBVIOUS
<1>1. UNCHANGED <<poolVars, claimKey, claims, session, outbox, envelopes, sessions>>
      /\ w.pc = "deliver"
    BY DEF Deliver
<1>2. PoolInv' /\ ClaimsStay
    BY <1>0, <1>1, PoolKept
<1>3. w \in Delivering /\ w.record \in Record /\ e \in Envelope /\ Settled(e, outbox)
    BY <1>0, <1>1, DeliveringFacts
<1>4. OutboxStays /\ SessionStays
    BY <1>1, StayWhenUnchanged
<1>5. OutboxOK' /\ SessionOK'
    BY <1>0, <1>1, <1>2, OursKept DEF SenderInv, OutboxOK, SessionOK
<1>6. /\ mailbox' \subseteq accepted' /\ accepted' \subseteq Envelope /\ AcceptedOK'
      /\ \E v : Turn(p, v) /\ CommandOK(v, claim', outbox', session')
    <2>1. CASE now < e.expires
        <3>1. PICK v : v = [w EXCEPT !.pc = "delivered"]
            OBVIOUS
        <3>2. Deposited(e) /\ Turn(p, v)
            BY <2>1, <3>1 DEF Deliver
        <3>3. v \in Delivering /\ v.record = w.record
            BY <1>3, <3>1 DEF Delivering
        <3>4. Settled(e, outbox')
            BY <1>1, <1>3
        <3>5. CommandOK(v, claim', outbox', session')
            BY <3>3, <3>4 DEF CommandOK
        <3> QED
            BY <1>0, <1>1, <1>3, <3>2, <3>5, DepositKeeps
    <2>2. CASE ~(now < e.expires)
        <3>1. Turn(p, Idle) /\ UNCHANGED <<mailbox, accepted>>
            BY <2>2 DEF Deliver
        <3>2. CommandOK(Idle, claim', outbox', session')
            BY DEF CommandOK
        <3>3. mailbox' \subseteq accepted' /\ accepted' \subseteq Envelope /\ AcceptedOK'
            BY <1>0, <1>1, <3>1 DEF SenderTypeOK, SenderInv, AcceptedOK
        <3> QED
            BY <3>1, <3>2, <3>3
    <2> QED
        BY <2>1, <2>2
<1>7. proc' \in [Proc -> {Idle} \cup Asked \cup Claiming \cup Answered \cup Committing \cup Delivering]
      /\ CommandsOK'
    BY <1>2, <1>4, <1>6, TurnKeeps
<1>8. SenderTypeOK'
    BY <1>0, <1>1, <1>6, <1>7 DEF SenderTypeOK
<1> QED
    BY <1>2, <1>5, <1>6, <1>7, <1>8, Parts DEF SenderInv

LEMMA MarkDeliveredStep ==
    ASSUME IInv, NEW p \in Proc, MarkDelivered(p)
    PROVE  IInv'
<1>0. PoolInv /\ SenderTypeOK /\ SenderInv
    BY Parts
<1> PICK r : r = proc[p].record
    OBVIOUS
<1> PICK d : d = [r EXCEPT !.status = "delivered"]
    OBVIOUS
<1> PICK m : m = r.envelope.message
    OBVIOUS
<1>1. UNCHANGED <<poolVars, claimKey, claims, session, envelopes, mailbox, sessions, accepted>>
      /\ proc[p].pc = "delivered" /\ outbox' = [outbox EXCEPT ![m] = d] /\ Turn(p, Idle)
    BY DEF MarkDelivered
<1>2. PoolInv' /\ ClaimsStay
    BY <1>0, <1>1, PoolKept
<1>3. r \in Record /\ m \in Message /\ Settled(r.envelope, outbox)
    BY <1>0, <1>1, DeliveringFacts
<1>4. d \in Record /\ d.envelope = r.envelope /\ d # Absent
    BY <1>3, RecordAssumption DEF Record
<1>5. outbox \in [Message -> Record \cup {Absent}]
    BY <1>0 DEF SenderTypeOK
<1>6. outbox' \in [Message -> Record \cup {Absent}] /\ outbox'[m] = d
      /\ \A n \in Message : n # m => outbox'[n] = outbox[n]
    BY <1>1, <1>3, <1>4, <1>5
<1>7. outbox[m] # Absent /\ outbox[m].envelope = r.envelope
    BY <1>3 DEF Settled
<1>8. OutboxStays
    BY <1>4, <1>6, <1>7 DEF OutboxStays
<1>9. SessionStays
    BY <1>1, StayWhenUnchanged
<1>10. SessionOK'
    BY <1>0, <1>1, <1>2, OursKept DEF SenderInv, SessionOK
<1>11. OutboxOK'
    <2> SUFFICES ASSUME NEW n \in Message, outbox'[n] # Absent
                 PROVE  outbox'[n].envelope.message = n /\ Ours(outbox'[n].envelope.key, claim')
        BY DEF OutboxOK
    <2>1. outbox[n] # Absent /\ outbox'[n].envelope = outbox[n].envelope
        BY <1>4, <1>6, <1>7
    <2>2. outbox[n].envelope.message = n /\ Ours(outbox[n].envelope.key, claim)
        BY <1>0, <2>1 DEF SenderInv, OutboxOK
    <2> QED
        BY <1>2, <2>1, <2>2, OursKept
<1>12. AcceptedOK'
    <2> SUFFICES ASSUME NEW f \in accepted PROVE Settled(f, outbox')
        BY <1>1 DEF AcceptedOK
    <2>1. Settled(f, outbox) /\ f.message \in Message
        BY <1>0 DEF SenderInv, AcceptedOK, SenderTypeOK, Envelope
    <2> QED
        BY <1>8, <2>1, SettledKept
<1>13. CommandOK(Idle, claim', outbox', session')
    BY DEF CommandOK
<1>14. proc' \in [Proc -> {Idle} \cup Asked \cup Claiming \cup Answered \cup Committing \cup Delivering]
      /\ CommandsOK'
    BY <1>1, <1>2, <1>8, <1>9, <1>13, TurnKeeps
<1>15. SenderTypeOK'
    BY <1>0, <1>1, <1>6, <1>14 DEF SenderTypeOK
<1> QED
    BY <1>2, <1>10, <1>11, <1>12, <1>14, <1>15, Parts DEF SenderInv

LEMMA SendEndsStep ==
    ASSUME IInv, NEW p \in Proc, SendEnds(p)
    PROVE  IInv'
<1>0. PoolInv /\ SenderTypeOK /\ SenderInv
    BY Parts
<1> PICK w : w = proc[p]
    OBVIOUS
<1>1. UNCHANGED <<now, slot, pre, pointer, born, stored, publisher, strangers, claimKey, claims,
                  session, outbox, envelopes, sessions>>
      /\ Turn(p, Idle) /\ faults < MaxFaults /\ faults' = faults + 1
    BY DEF SendEnds
<1>2. faults' \in 0..MaxFaults
    BY <1>0, <1>1, PoolAssumption DEF PoolInv, PoolTypeOK
<1>3. ASSUME UNCHANGED claim PROVE PoolInv' /\ ClaimsStay
    <2>1. PoolTypeOK /\ PoolShape /\ RelayShape /\ KeysKept /\ PublishersOK
        BY <1>0 DEF PoolInv
    <2>2. PublishersOK' /\ publisher' \in [Publisher -> {Idle} \cup Publishing \cup Offering]
        BY <1>1, <2>1, PublishersKept
    <2>3. PoolTypeOK'
        BY <1>1, <1>2, <1>3, <2>1, <2>2 DEF PoolTypeOK
    <2>4. PoolShape' /\ RelayShape' /\ KeysKept'
        BY <1>1, <1>3, <2>1 DEF PoolShape, RelayShape, KeysKept, MembersDistinct
    <2> QED
        BY <1>3, <2>2, <2>3, <2>4 DEF PoolInv, ClaimsStay
<1>4. UNCHANGED accepted => AcceptedOK'
    BY <1>0, <1>1 DEF SenderInv, AcceptedOK
<1>5. UNCHANGED <<mailbox, accepted>> => mailbox' \subseteq accepted' /\ accepted' \subseteq Envelope
    BY <1>0 DEF SenderTypeOK
<1>6. /\ PoolInv' /\ ClaimsStay
      /\ mailbox' \subseteq accepted' /\ accepted' \subseteq Envelope /\ AcceptedOK'
    <2>1. CASE UNCHANGED <<claim, mailbox, accepted>>
        BY <1>3, <1>4, <1>5, <2>1
    <2>2. CASE /\ w.pc = "claim"
               /\ \E b \in Offers(w.claim) : ClaimedBy(w.claim, b)
               /\ UNCHANGED <<mailbox, accepted>>
        <3>1. w.claim \in ClaimId
            BY <1>0, <2>2 DEF SenderTypeOK, Idle, Asked, Claiming, Answered, Committing, Delivering
        <3>2. PICK b \in Offers(w.claim) : ClaimedBy(w.claim, b)
            BY <2>2
        <3>3. PoolInv' /\ ClaimsStay
            BY <1>0, <1>1, <1>2, <3>1, <3>2, ClaimKeeps
        <3> QED
            BY <1>4, <1>5, <2>2, <3>3
    <2>3. CASE /\ w.pc = "deliver"
               /\ Deposited(w.record.envelope)
               /\ UNCHANGED claim
        <3>1. w.record.envelope \in Envelope /\ Settled(w.record.envelope, outbox)
            BY <1>0, <2>3, DeliveringFacts
        <3>2. mailbox' \subseteq accepted' /\ accepted' \subseteq Envelope /\ AcceptedOK'
            BY <1>0, <1>1, <2>3, <3>1, DepositKeeps
        <3> QED
            BY <1>3, <2>3, <3>2
    <2> QED
        BY <2>1, <2>2, <2>3 DEF SendEnds
<1>7. OutboxStays /\ SessionStays
    BY <1>1, StayWhenUnchanged
<1>8. OutboxOK' /\ SessionOK'
    BY <1>0, <1>1, <1>6, OursKept DEF SenderInv, OutboxOK, SessionOK
<1>9. CommandOK(Idle, claim', outbox', session')
    BY DEF CommandOK
<1>10. proc' \in [Proc -> {Idle} \cup Asked \cup Claiming \cup Answered \cup Committing \cup Delivering]
      /\ CommandsOK'
    BY <1>1, <1>6, <1>7, <1>9, TurnKeeps
<1>11. SenderTypeOK'
    BY <1>0, <1>1, <1>6, <1>10 DEF SenderTypeOK
<1> QED
    BY <1>6, <1>8, <1>10, <1>11, Parts DEF SenderInv

\* The key of everything accepted is ours.
LEMMA AcceptedKeys ==
    ASSUME SenderTypeOK, SenderInv, NEW e \in accepted
    PROVE  Ours(e.key, claim)
<1>1. e \in Envelope /\ Settled(e, outbox)
    BY DEF SenderTypeOK, SenderInv, AcceptedOK
<1>2. e.message \in Message /\ outbox[e.message] # Absent /\ outbox[e.message].envelope = e
    BY <1>1 DEF Envelope, Settled
<1> QED
    BY <1>2 DEF SenderInv, OutboxOK

LEMMA ReceiveStep ==
    ASSUME IInv, NEW e \in mailbox, Receive(e)
    PROVE  IInv'
<1>0. PoolInv /\ SenderTypeOK /\ SenderInv
    BY Parts
<1>1. UNCHANGED <<now, slot, pointer, born, stored, claim, publisher, strangers, faults, claimKey,
                  claims, session, outbox, envelopes, proc, accepted>>
      /\ sessions' = sessions \cup ({e.key} \ {Peer}) /\ pre' = pre \ {e.key}
      /\ mailbox' \subseteq mailbox
    BY DEF Receive
<1>2. e \in accepted
    BY <1>0 DEF SenderTypeOK
<1>3. Ours(e.key, claim)
    BY <1>0, <1>2, AcceptedKeys
<1>4. PoolTypeOK /\ PoolShape /\ RelayShape /\ KeysKept /\ PublishersOK
    BY <1>0 DEF PoolInv
<1>5. PublishersOK' /\ publisher' \in [Publisher -> {Idle} \cup Publishing \cup Offering]
    BY <1>1, <1>4, PublishersKept
<1>6. PoolTypeOK'
    BY <1>1, <1>4, <1>5 DEF PoolTypeOK
<1>7. e.key \in pre => born[e.key] # Absent
    <2>1. CASE e.key = Peer
        BY <1>4, <2>1, OutboundAssumption DEF PoolTypeOK
    <2>2. CASE e.key \in Bundle /\ claim[e.key] \in ClaimId
        BY <1>4, <2>2, PoolAssumption DEF RelayShape, ClaimId
    <2> QED
        BY <1>3, <2>1, <2>2 DEF Ours
<1>8. PoolShape'
    <2>1. (\A s \in Slot : slot[s] = Absent) => e.key \notin pre
        BY <1>4, <1>7 DEF PoolShape, PoolTypeOK
    <2> QED
        BY <1>1, <1>4, <2>1 DEF PoolShape, MembersDistinct
<1>9. RelayShape'
    BY <1>1, <1>4 DEF RelayShape
<1>10. Peer \notin Bundle
    BY OutboundAssumption
<1>11. KeysKept'
    BY <1>1, <1>4, <1>10 DEF KeysKept
<1>12. PoolInv' /\ ClaimsStay
    BY <1>1, <1>5, <1>6, <1>8, <1>9, <1>11 DEF PoolInv, ClaimsStay
<1>13. OutboxOK' /\ AcceptedOK' /\ SessionOK' /\ OutboxStays /\ SessionStays
    BY <1>0, <1>1, <1>12, PaperKept
<1>14. CommandsOK'
    BY <1>0, <1>1, <1>12, <1>13, CommandsKept DEF SenderInv
<1>15. e.key \in Bundle \cup {Peer}
    BY <1>3 DEF Ours
<1>16. SenderTypeOK'
    BY <1>0, <1>1, <1>15 DEF SenderTypeOK
<1> QED
    BY <1>12, <1>13, <1>14, <1>16, Parts DEF SenderInv

LEMMA PeerStep ==
    ASSUME IInv, PeerBegins
    PROVE  IInv'
<1>0. PoolInv /\ SenderTypeOK /\ SenderInv
    BY Parts
<1>1. UNCHANGED <<poolVars, claimKey, claims, outbox, envelopes, mailbox, sessions, proc, accepted>>
      /\ session' = Peer
    BY DEF PeerBegins
<1>2. PoolInv' /\ ClaimsStay
    BY <1>0, <1>1, PoolKept
<1>3. SessionStays /\ OutboxStays
    BY <1>1, OutboundAssumption, StayWhenUnchanged DEF SessionStays
<1>4. OutboxOK' /\ AcceptedOK' /\ SessionOK'
    BY <1>0, <1>1, <1>2, OursKept DEF SenderInv, OutboxOK, AcceptedOK, SessionOK, Ours
<1>5. CommandsOK'
    BY <1>0, <1>1, <1>2, <1>3, CommandsKept DEF SenderInv
<1>6. SenderTypeOK'
    BY <1>0, <1>1 DEF SenderTypeOK
<1> QED
    BY <1>2, <1>4, <1>5, <1>6, Parts DEF SenderInv

LEMMA PoolAloneStep ==
    ASSUME IInv, PoolNext, UNCHANGED senderVars
    PROVE  IInv'
<1>0. PoolInv /\ SenderTypeOK /\ SenderInv
    BY Parts
<1>1. UNCHANGED <<claimKey, claims, session, outbox, envelopes, mailbox, sessions, proc, accepted>>
    BY DEF senderVars
<1>2. PoolInv' /\ ClaimsStay
    BY <1>0, <1>1, PoolStep DEF SenderTypeOK
<1>3. OutboxOK' /\ AcceptedOK' /\ SessionOK' /\ OutboxStays /\ SessionStays
    BY <1>0, <1>1, <1>2, PaperKept
<1>4. CommandsOK'
    BY <1>0, <1>1, <1>2, <1>3, CommandsKept DEF SenderInv
<1>5. SenderTypeOK'
    BY <1>0, <1>1 DEF SenderTypeOK
<1> QED
    BY <1>2, <1>3, <1>4, <1>5, Parts DEF SenderInv

LEMMA Initially ==
    ASSUME Init
    PROVE  IInv
<1>1. 1 \in Bundle /\ 0 \in 0..MaxTime /\ 0 \in 0..MaxStrangers /\ 0 \in 0..MaxFaults
    BY PoolAssumption DEF Bundle
<1>2. PoolTypeOK
    BY <1>1 DEF Init, PoolInit, PoolTypeOK
<1>3. 0 \in Slot
    BY PoolAssumption DEF Slot
<1>4. PoolShape
    BY <1>3 DEF Init, PoolInit, PoolShape, MembersDistinct
<1>5. RelayShape /\ KeysKept
    BY DEF Init, PoolInit, RelayShape, KeysKept
<1>6. PublishersOK
    BY DEF Init, PoolInit, PublishersOK, PublisherOK
<1>7. SenderTypeOK
    BY DEF Init, SenderTypeOK
<1>8. CommandsOK /\ OutboxOK /\ AcceptedOK /\ SessionOK
    BY DEF Init, CommandsOK, CommandOK, OutboxOK, AcceptedOK, SessionOK
<1> QED
    BY <1>2, <1>4, <1>5, <1>6, <1>7, <1>8, Parts DEF PoolInv, SenderInv

LEMMA StepKeeps ==
    ASSUME IInv, [Next]_vars
    PROVE  IInv'
<1>1. CASE PoolNext /\ UNCHANGED senderVars
    BY <1>1, PoolAloneStep
<1>2. CASE \E p \in Proc, s \in Sends : SendOwned(p, s)
    BY <1>2, SendOwnedStep
<1>3. CASE \E p \in Proc : SendStep(p) \/ SendEnds(p)
    BY <1>3, StoreClaimIdStep, ClaimStep, JudgeStep, ReplaceDeadClaimStep, CommitStep, DeliverStep,
       MarkDeliveredStep, SendEndsStep DEF SendStep
<1>4. CASE \E e \in mailbox : Receive(e)
    BY <1>4, ReceiveStep
<1>5. CASE PeerBegins
    BY <1>5, PeerStep
<1>6. CASE UNCHANGED vars
    <2>0. PoolInv /\ SenderTypeOK /\ SenderInv
        BY Parts
    <2>1. UNCHANGED poolVars
          /\ UNCHANGED <<claimKey, claims, session, outbox, envelopes, mailbox, sessions, proc, accepted>>
        BY <1>6 DEF vars, senderVars
    <2>2. PoolInv' /\ ClaimsStay
        BY <2>0, <2>1, PoolKept
    <2>3. OutboxOK' /\ AcceptedOK' /\ SessionOK' /\ OutboxStays /\ SessionStays
        BY <2>0, <2>1, <2>2, PaperKept
    <2>4. CommandsOK'
        BY <2>0, <2>1, <2>2, <2>3, CommandsKept DEF SenderInv
    <2>5. SenderTypeOK'
        BY <2>0, <2>1 DEF SenderTypeOK
    <2> QED
        BY <2>2, <2>3, <2>4, <2>5, Parts DEF SenderInv
<1> QED
    BY <1>1, <1>2, <1>3, <1>4, <1>5, <1>6 DEF Next

-----------------------------------------------------------------------------
(* The theorems.                                                           *)

\* The invariant the others follow from holds in every reachable state.
THEOREM OutboundInvariant == Spec => []IInv
    BY Initially, StepKeeps, PTL DEF Spec

\* The state of the sender, of the pool and of the commands keeps its type
\* (profile.ts, SignalClient.ts and outbound.ts).
THEOREM OutboundTyped == Spec => []TypeOK
<1>1. IInv => TypeOK
    BY DEF IInv
<1> QED
    BY <1>1, OutboundInvariant, PTL

\* However many publish commands overlap, end early or repeat each other, no two
\* slots of the pool hold the same prekey: rotateOneTimePreKey allocates past the
\* current one, and none above it is held or in a slot.
THEOREM PoolMembersDiffer == Spec => []MembersDistinct
<1>1. IInv => MembersDistinct
    BY DEF IInv, PoolShape
<1> QED
    BY <1>1, OutboundInvariant, PTL

\* However many send commands overlap, end early or are repeated, the relay has
\* accepted one envelope per message: each is the one in the outbox, which is
\* written while the message has none (sendOwned, deliver).
THEOREM MessageEncryptedOnce == Spec => []EncryptedOnce
<1>1. IInv => EncryptedOnce
    <2> SUFFICES ASSUME IInv, NEW e \in accepted, NEW f \in accepted, e.message = f.message
                 PROVE  e = f
        BY DEF EncryptedOnce
    <2>1. Settled(e, outbox) /\ Settled(f, outbox)
        BY DEF IInv, AcceptedOK
    <2> QED
        BY <2>1 DEF Settled
<1> QED
    BY <1>1, OutboundInvariant, PTL

\* The contact can read every envelope its mailbox holds, however long it waits
\* and whatever the pool does: a private half leaves the profile with the first
\* message of its claimant, and this sender claimed the one it encrypts with.
THEOREM MailIsReadable == Spec => []MailboxReadable
<1>1. IInv => MailboxReadable
    <2> SUFFICES ASSUME IInv, NEW e \in mailbox PROVE Readable(e)
        BY DEF MailboxReadable
    <2>0. PoolInv /\ SenderTypeOK /\ SenderInv
        BY Parts
    <2>1. Ours(e.key, claim)
        BY <2>0, AcceptedKeys DEF SenderTypeOK
    <2>2. CASE e.key = Peer
        BY <2>2 DEF Readable
    <2>3. CASE e.key \in Bundle /\ claim[e.key] \in ClaimId
        <3>1. claim[e.key] # Absent /\ claim[e.key] # Stranger
            BY <2>3, PoolAssumption DEF ClaimId
        <3>2. born[e.key] # Absent
            BY <2>0, <2>3, <3>1 DEF PoolInv, RelayShape
        <3> QED
            BY <2>0, <2>3, <3>1, <3>2 DEF Readable, PoolInv, KeysKept
    <2> QED
        BY <2>1, <2>2, <2>3 DEF Ours
<1> QED
    BY <1>1, OutboundInvariant, PTL

-----------------------------------------------------------------------------
(* One send command at a time: what a first contact costs.                 *)

OneCommand == \E p : Proc = {p}

\* A claim id has one prekey, the ids are drawn in order, the stored one is the
\* last, and it is dropped with a session.
IdsInOrder ==
    /\ \A b, d \in Bundle : (claim[b] \in ClaimId /\ claim[b] = claim[d]) => b = d
    /\ \A b \in Bundle : claim[b] \in ClaimId => claim[b] <= claims
    /\ claimKey \in {Absent, claims}
    /\ (claimKey = Absent /\ session = Absent) => claims = 0

\* What was claimed under an earlier id has expired.
EarlierExpired == \A b \in Bundle : (claim[b] \in ClaimId /\ claim[b] < claims) => Expired(b)

\* The command works with the last id.
OnCourse(w) ==
    /\ w.pc = "claim" => w.claim = claims
    /\ w.pc = "judge" => claim[w.bundle] = claims
    /\ w.pc = "reclaim" =>
           \A b \in Bundle : (claim[b] \in ClaimId /\ claim[b] = claims) => Expired(b)

OneInv == IdsInOrder /\ EarlierExpired /\ \A p \in Proc : OnCourse(proc[p])

\* What of a step bears on it.
ClockAndBirths ==
    /\ now' \in Nat /\ now' >= now
    /\ \A b \in Bundle : claim[b] \in ClaimId => born'[b] = born[b]
SameClaims ==
    \A b \in Bundle : (claim[b] \in ClaimId \/ claim'[b] \in ClaimId) => claim'[b] = claim[b]

LEMMA ExpiredStays ==
    ASSUME IInv, ClockAndBirths, NEW b \in Bundle, claim[b] \in ClaimId, Expired(b)
    PROVE  Expired(b)'
<1>1. born[b] \in Nat
    <2>1. claim[b] # Absent
        BY PoolAssumption DEF ClaimId
    <2> QED
        BY <2>1 DEF IInv, RelayShape, TypeOK, PoolTypeOK
<1>2. born'[b] = born[b] /\ now' >= now /\ now' \in Nat /\ now \in Nat
    BY DEF ClockAndBirths, IInv, TypeOK, PoolTypeOK
<1> QED
    BY <1>1, <1>2, PoolAssumption DEF Expired

\* A step that draws no id and claims nothing for this sender.
LEMMA Passes ==
    ASSUME IInv, OneInv, ClockAndBirths, SameClaims, UNCHANGED claims,
           UNCHANGED claimKey \/ (claimKey' = Absent /\ session' # Absent),
           SessionStays,
           \A p \in Proc : proc'[p] = proc[p] \/ proc'[p].pc \notin {"claim", "judge", "reclaim"}
    PROVE  OneInv'
<1>0. IdsInOrder /\ EarlierExpired /\ \A p \in Proc : OnCourse(proc[p])
    BY DEF OneInv
<1>1. IdsInOrder'
    <2>1. \A b, d \in Bundle : (claim'[b] \in ClaimId /\ claim'[b] = claim'[d]) => b = d
        BY <1>0 DEF IdsInOrder, SameClaims
    <2>2. \A b \in Bundle : claim'[b] \in ClaimId => claim'[b] <= claims'
        BY <1>0 DEF IdsInOrder, SameClaims
    <2>3. claimKey' \in {Absent, claims'} /\ ((claimKey' = Absent /\ session' = Absent) => claims' = 0)
        BY <1>0 DEF IdsInOrder, SessionStays
    <2> QED
        BY <2>1, <2>2, <2>3 DEF IdsInOrder
<1>2. EarlierExpired'
    <2> SUFFICES ASSUME NEW b \in Bundle, claim'[b] \in ClaimId, claim'[b] < claims'
                 PROVE  Expired(b)'
        BY DEF EarlierExpired
    <2>1. claim[b] \in ClaimId /\ claim[b] < claims
        BY DEF SameClaims
    <2>2. Expired(b)
        BY <1>0, <2>1 DEF EarlierExpired
    <2> QED
        BY <2>1, <2>2, ExpiredStays
<1>3. \A p \in Proc : OnCourse(proc[p])'
    <2> TAKE p \in Proc
    <2>1. CASE proc'[p].pc \notin {"claim", "judge", "reclaim"}
        BY <2>1 DEF OnCourse
    <2>2. CASE proc'[p] = proc[p]
        <3>0. OnCourse(proc[p]) /\ CommandOK(proc[p], claim, outbox, session)
            BY <1>0 DEF IInv, CommandsOK
        <3>1. proc'[p].pc = "claim" => proc'[p].claim = claims'
            BY <2>2, <3>0 DEF OnCourse
        <3>2. proc'[p].pc = "judge" => claim'[proc'[p].bundle] = claims'
            <4> SUFFICES ASSUME proc[p].pc = "judge" PROVE claim'[proc[p].bundle] = claims'
                BY <2>2
            <4>1. proc[p].bundle \in Bundle /\ claim[proc[p].bundle] \in ClaimId
                BY <3>0 DEF CommandOK, Idle, Asked, Claiming, Answered, Committing, Delivering
            <4> QED
                BY <3>0, <4>1 DEF OnCourse, SameClaims
        <3>3. proc'[p].pc = "reclaim" =>
                  \A b \in Bundle : (claim'[b] \in ClaimId /\ claim'[b] = claims') => Expired(b)'
            <4> SUFFICES ASSUME proc[p].pc = "reclaim", NEW b \in Bundle,
                                claim'[b] \in ClaimId, claim'[b] = claims'
                         PROVE  Expired(b)'
                BY <2>2
            <4>1. claim[b] \in ClaimId /\ claim[b] = claims
                BY DEF SameClaims
            <4> QED
                BY <3>0, <4>1, ExpiredStays DEF OnCourse
        <3> QED
            BY <3>1, <3>2, <3>3 DEF OnCourse
    <2> QED
        BY <2>1, <2>2
<1> QED
    BY <1>1, <1>2, <1>3 DEF OneInv

\* What the pool does on its own changes none of it.
LEMMA PoolPasses ==
    ASSUME IInv, PoolNext
    PROVE  ClockAndBirths /\ SameClaims
<1>0. PoolInv /\ PoolTypeOK /\ PoolShape /\ RelayShape
    BY Parts DEF PoolInv
<1>1. now \in Nat /\ now >= now
    BY <1>0 DEF PoolTypeOK
<1>2. ASSUME UNCHANGED <<now, born>> PROVE ClockAndBirths
    BY <1>1, <1>2 DEF ClockAndBirths
<1>3. ASSUME UNCHANGED claim PROVE SameClaims
    BY <1>3 DEF SameClaims
<1>4. \A b \in Bundle : claim[b] \in ClaimId => born[b] # Absent /\ b <= pointer
    BY <1>0, PoolAssumption DEF RelayShape, PoolShape, ClaimId
<1>5. ASSUME NEW q \in Publisher, RestorePublicationPool(q) PROVE ClockAndBirths /\ SameClaims
    <2>1. CASE \A s \in Slot : slot[s] \in Bundle
        BY <1>0, <1>2, <1>3, <1>5, <2>1, RestoreFinds
    <2>2. CASE \A s \in Slot : slot[s] = Absent
        <3>1. \A b \in Bundle : born[b] = Absent
            BY <1>0, <2>2 DEF PoolShape
        <3>2. UNCHANGED <<now, claim>>
            BY <1>5 DEF RestorePublicationPool
        <3> QED
            BY <1>1, <1>3, <1>4, <3>1, <3>2 DEF ClockAndBirths
    <2> QED
        BY <1>0, <2>1, <2>2 DEF PoolShape
<1>6. ASSUME NEW q \in Publisher, ReplacePublicationSlot(q) PROVE ClockAndBirths /\ SameClaims
    <2>1. born' = [born EXCEPT ![pointer + 1] = now] /\ UNCHANGED <<now, claim>>
        BY <1>0, <1>6, FreshIsNext DEF ReplacePublicationSlot
    <2>2. \A b \in Bundle : claim[b] \in ClaimId => b # pointer + 1
        BY <1>0, <1>4 DEF PoolTypeOK, Bundle
    <2>3. DOMAIN born = Bundle
        BY <1>0 DEF PoolTypeOK
    <2> QED
        BY <1>1, <1>3, <2>1, <2>2, <2>3 DEF ClockAndBirths
<1>7. ASSUME StrangerClaims PROVE ClockAndBirths /\ SameClaims
    <2>1. PICK b \in FirstAvailable : claim' = [claim EXCEPT ![b] = Stranger]
        BY <1>7 DEF StrangerClaims
    <2>2. claim[b] = Absent
        BY AvailableIsFree
    <2>3. UNCHANGED <<now, born>>
        BY <1>7 DEF StrangerClaims
    <2>4. SameClaims
        BY <1>0, <2>1, <2>2, PoolAssumption DEF SameClaims, PoolTypeOK, ClaimId
    <2> QED
        BY <1>2, <2>3, <2>4
<1>8. ASSUME Tick PROVE ClockAndBirths /\ SameClaims
    BY <1>0, <1>1, <1>3, <1>8 DEF Tick, ClockAndBirths
<1>9. ASSUME NEW q \in Publisher,
             SubmitMember(q) \/ OfferReplacement(q) \/ PublishDone(q) \/ PublishEnds(q)
      PROVE  ClockAndBirths /\ SameClaims
    BY <1>2, <1>3, <1>9 DEF SubmitMember, OfferReplacement, PublishDone, PublishEnds
<1>10. ASSUME NEW b \in Bundle, StrangerMessage(b) PROVE ClockAndBirths /\ SameClaims
    BY <1>2, <1>3, <1>10 DEF StrangerMessage
<1> QED
    BY <1>5, <1>6, <1>7, <1>8, <1>9, <1>10 DEF PoolNext, PublishStep

\* A command that turns away from the claim.
LEMMA TurnsAway ==
    ASSUME IInv, OneInv, UNCHANGED <<now, born, claim, claims>>,
           UNCHANGED claimKey \/ (claimKey' = Absent /\ session' # Absent),
           SessionStays,
           NEW p \in Proc, NEW w, Turn(p, w), w.pc \notin {"claim", "judge", "reclaim"}
    PROVE  OneInv'
<1>1. now \in Nat /\ DOMAIN proc = Proc
    BY DEF IInv, TypeOK, PoolTypeOK
<1>2. ClockAndBirths /\ SameClaims
    BY <1>1 DEF ClockAndBirths, SameClaims
<1>3. \A q \in Proc : proc'[q] = proc[q] \/ proc'[q].pc \notin {"claim", "judge", "reclaim"}
    BY <1>1 DEF Turn
<1> QED
    BY <1>2, <1>3, Passes

\* The claim a request makes at the relay.
LEMMA ClaimingKeeps ==
    ASSUME IInv, IdsInOrder, EarlierExpired, NEW c \in ClaimId, c = claims,
           NEW b \in Offers(c), ClaimedBy(c, b),
           UNCHANGED <<now, born, claimKey, claims, session>>
    PROVE  IdsInOrder' /\ EarlierExpired' /\ b \in Bundle /\ claim'[b] = claims'
<1>0. PoolTypeOK /\ RelayShape
    BY DEF IInv, TypeOK
<1>1. b \in Bundle /\ (claim[b] = c \/ (claim[b] = Absent /\ \A d \in Bundle : claim[d] # c))
    <2>1. CASE {d \in Bundle : claim[d] = c} # {}
        BY <2>1 DEF Offers
    <2>2. CASE {d \in Bundle : claim[d] = c} = {}
        <3>1. b \in FirstAvailable
            BY <2>2 DEF Offers
        <3> QED
            BY <1>0, <2>2, <3>1, AvailableIsFree DEF PoolTypeOK
    <2> QED
        BY <2>1, <2>2
<1>2. claim'[b] = c /\ \A d \in Bundle : d # b => claim'[d] = claim[d]
    BY <1>0, <1>1 DEF PoolTypeOK, ClaimedBy
<1>3. \A d \in Bundle : d # b => claim[d] # c
    BY <1>1 DEF IdsInOrder
<1>4. \A d, g \in Bundle : (claim'[d] \in ClaimId /\ claim'[d] = claim'[g]) => d = g
    BY <1>1, <1>2, <1>3 DEF IdsInOrder
<1>5. c \in Int /\ c <= c /\ ~(c < c)
    BY PoolAssumption DEF ClaimId
<1>6. \A d \in Bundle : claim'[d] \in ClaimId => claim'[d] <= claims'
    BY <1>1, <1>2, <1>5 DEF IdsInOrder
<1>7. IdsInOrder'
    BY <1>4, <1>6 DEF IdsInOrder
<1>8. EarlierExpired'
    <2> SUFFICES ASSUME NEW d \in Bundle, claim'[d] \in ClaimId, claim'[d] < claims'
                 PROVE  Expired(d)'
        BY DEF EarlierExpired
    <2>1. d # b
        BY <1>2, <1>5
    <2>2. Expired(d)
        BY <1>2, <2>1 DEF EarlierExpired
    <2> QED
        BY <2>2 DEF Expired
<1> QED
    BY <1>1, <1>2, <1>7, <1>8

\* The only command turns.
LEMMA OnlyCommandTurns ==
    ASSUME IInv, OneCommand, NEW p \in Proc, NEW w, Turn(p, w), OnCourse(w)'
    PROVE  \A q \in Proc : OnCourse(proc[q])'
<1>1. proc' = [proc EXCEPT ![p] = w] /\ DOMAIN proc = Proc
    BY DEF IInv, TypeOK, Turn
<1>2. proc'[p] = w
    BY <1>1
<1>3. \A q \in Proc : q = p
    BY DEF OneCommand
<1>4. OnCourse(proc[p])'
    BY <1>2 DEF OnCourse
<1> QED
    BY <1>3, <1>4

LEMMA OneStep ==
    ASSUME IInv, OneInv, OneCommand, [Next]_vars
    PROVE  OneInv'
<1>0. IdsInOrder /\ EarlierExpired /\ \A p \in Proc : OnCourse(proc[p])
    BY DEF OneInv
<1>1. now \in Nat /\ claims \in Int /\ claims >= 0
    BY PoolAssumption DEF IInv, TypeOK, PoolTypeOK, ClaimId
<1>2. ASSUME UNCHANGED <<now, born, claim, claims, claimKey>>, UNCHANGED proc, SessionStays
      PROVE  OneInv'
    <2>1. ClockAndBirths /\ SameClaims
        BY <1>1, <1>2 DEF ClockAndBirths, SameClaims
    <2> QED
        BY <1>2, <2>1, Passes
<1>3. CASE PoolNext /\ UNCHANGED senderVars
    <2>1. UNCHANGED <<claimKey, claims, session, proc>>
        BY <1>3 DEF senderVars
    <2>2. ClockAndBirths /\ SameClaims
        BY <1>3, PoolPasses
    <2> QED
        BY <2>1, <2>2, Passes, StayWhenUnchanged
<1>4. ASSUME NEW p \in Proc, NEW s \in Sends, SendOwned(p, s) PROVE OneInv'
    <2>1. UNCHANGED <<now, born, claim, claims, claimKey, session>>
        BY <1>4 DEF SendOwned, poolVars
    <2>2. SessionStays
        BY <2>1, StayWhenUnchanged
    <2>3. \E w : Turn(p, w) /\ w.pc \notin {"claim", "judge", "reclaim"}
        <3>1. CASE outbox[s.message] = Absent
            <4>1. PICK w : w = [pc |-> "claimId", send |-> s]
                OBVIOUS
            <4> QED
                BY <1>4, <3>1, <4>1 DEF SendOwned
        <3>2. CASE outbox[s.message] # Absent
            <4>1. PICK w : w = [pc |-> "deliver", record |-> outbox[s.message]]
                OBVIOUS
            <4> QED
                BY <1>4, <3>2, <4>1 DEF SendOwned
        <3> QED
            BY <3>1, <3>2
    <2> QED
        BY <2>1, <2>2, <2>3, TurnsAway
<1>5. ASSUME NEW p \in Proc, StoreClaimId(p) PROVE OneInv'
    <2>1. UNCHANGED <<now, born, claim, session>>
        BY <1>5 DEF StoreClaimId, poolVars
    <2>2. CASE session # Absent
        <3>1. PICK w : w = [pc |-> "commit", send |-> proc[p].send, bundle |-> Absent]
            OBVIOUS
        <3>2. Turn(p, w) /\ UNCHANGED <<claimKey, claims>>
            BY <1>5, <2>2, <3>1 DEF StoreClaimId
        <3> QED
            BY <2>1, <3>1, <3>2, TurnsAway, StayWhenUnchanged
    <2>3. CASE session = Absent
        <3>1. PICK id : id = IF StoredClaimId = Absent THEN claims + 1 ELSE StoredClaimId
            OBVIOUS
        <3>2. PICK w : w = [pc |-> "claim", send |-> proc[p].send, claim |-> id, replaced |-> FALSE]
            OBVIOUS
        <3>3. /\ id \in ClaimId /\ claimKey' = id /\ Turn(p, w)
              /\ claims' = IF StoredClaimId = Absent THEN id ELSE claims
            BY <1>5, <2>3, <3>1, <3>2 DEF StoreClaimId
        <3>4. id = claims' /\ (claims' = claims \/ claims = 0)
            BY <1>0, <2>3, <3>1, <3>3 DEF StoredClaimId, IdsInOrder
        <3>5. OnCourse(w)'
            BY <3>2, <3>4 DEF OnCourse
        <3>6. \A q \in Proc : OnCourse(proc[q])'
            BY <3>3, <3>5, OnlyCommandTurns
        <3>7. \A b \in Bundle : claim[b] \in ClaimId => claims' = claims
            BY <1>0, <1>1, <3>4, PoolAssumption DEF IdsInOrder, ClaimId
        <3>8. \A b \in Bundle : claim'[b] \in ClaimId => claim'[b] <= claims'
            BY <1>0, <2>1, <3>7 DEF IdsInOrder
        <3>9. claimKey' # Absent
            BY <3>3, PoolAssumption DEF ClaimId
        <3>10. IdsInOrder'
            BY <1>0, <2>1, <3>3, <3>4, <3>8, <3>9 DEF IdsInOrder
        <3>11. EarlierExpired'
            BY <1>0, <2>1, <3>7 DEF EarlierExpired, Expired
        <3> QED
            BY <3>6, <3>10, <3>11 DEF OneInv
    <2> QED
        BY <2>2, <2>3
<1>6. ASSUME NEW p \in Proc, proc[p].pc = "claim"
      PROVE  proc[p].claim \in ClaimId /\ proc[p].claim = claims
    <2>1. CommandOK(proc[p], claim, outbox, session)
        BY DEF IInv, CommandsOK
    <2>2. proc[p].claim \in ClaimId
        BY <1>6, <2>1 DEF CommandOK, Idle, Asked, Claiming, Answered, Committing, Delivering
    <2> QED
        BY <1>0, <1>6, <2>2 DEF OnCourse
<1>7. ASSUME NEW p \in Proc, ClaimFirstContact(p) PROVE OneInv'
    <2>1. UNCHANGED <<now, born, claims, claimKey, session>> /\ proc[p].pc = "claim"
        BY <1>7 DEF ClaimFirstContact
    <2>2. CASE Offers(proc[p].claim) = {}
        <3>1. Turn(p, Idle) /\ UNCHANGED claim
            BY <1>7, <2>2 DEF ClaimFirstContact
        <3> QED
            BY <2>1, <3>1, TurnsAway, StayWhenUnchanged DEF Idle
    <2>3. CASE Offers(proc[p].claim) # {}
        <3>1. PICK b \in Offers(proc[p].claim) :
                  /\ ClaimedBy(proc[p].claim, b)
                  /\ Turn(p, [pc |-> "judge", send |-> proc[p].send, replaced |-> proc[p].replaced,
                              bundle |-> b])
            BY <1>7, <2>3 DEF ClaimFirstContact
        <3>2. IdsInOrder' /\ EarlierExpired' /\ b \in Bundle /\ claim'[b] = claims'
            BY <1>0, <1>6, <2>1, <3>1, ClaimingKeeps
        <3>3. PICK w : w = [pc |-> "judge", send |-> proc[p].send, replaced |-> proc[p].replaced,
                            bundle |-> b]
            OBVIOUS
        <3>4. OnCourse(w)'
            BY <3>2, <3>3 DEF OnCourse
        <3>5. \A q \in Proc : OnCourse(proc[q])'
            BY <3>1, <3>3, <3>4, OnlyCommandTurns
        <3> QED
            BY <3>2, <3>5 DEF OneInv
    <2> QED
        BY <2>2, <2>3
<1>8. ASSUME NEW p \in Proc, JudgeClaim(p) PROVE OneInv'
    <2>0. PICK w : w = proc[p]
        OBVIOUS
    <2>1. UNCHANGED <<now, born, claim, claims, claimKey, session>> /\ w.pc = "judge"
        BY <1>8, <2>0 DEF JudgeClaim, poolVars
    <2>2. CASE ~Expired(w.bundle) \/ w.replaced
        <3>1. PICK v : v = IF Expired(w.bundle) THEN Idle
                           ELSE [pc |-> "commit", send |-> w.send, bundle |-> w.bundle]
            OBVIOUS
        <3>2. Turn(p, v)
            BY <1>8, <2>0, <2>2, <3>1 DEF JudgeClaim, DeadClaim
        <3>3. v.pc \notin {"claim", "judge", "reclaim"}
            BY <3>1 DEF Idle
        <3> QED
            BY <2>1, <3>2, <3>3, TurnsAway, StayWhenUnchanged
    <2>3. CASE Expired(w.bundle) /\ ~w.replaced
        <3>1. PICK v : v = [pc |-> "reclaim", send |-> w.send]
            OBVIOUS
        <3>2. Turn(p, v)
            BY <1>8, <2>0, <2>3, <3>1 DEF JudgeClaim, DeadClaim
        <3>3. CommandOK(w, claim, outbox, session) /\ OnCourse(w)
            BY <1>0, <2>0 DEF IInv, CommandsOK
        <3>4. w.bundle \in Bundle /\ claim[w.bundle] = claims
            BY <2>1, <3>3 DEF CommandOK, OnCourse, Idle, Asked, Claiming, Answered, Committing, Delivering
        <3>5. \A b \in Bundle : (claim[b] \in ClaimId /\ claim[b] = claims) => b = w.bundle
            BY <1>0, <3>4 DEF IdsInOrder
        <3>6. \A b \in Bundle : (claim[b] \in ClaimId /\ claim[b] = claims) => Expired(b)'
            BY <2>1, <2>3, <3>5 DEF Expired
        <3>7. OnCourse(v)'
            BY <2>1, <3>1, <3>6 DEF OnCourse
        <3>8. \A q \in Proc : OnCourse(proc[q])'
            BY <3>2, <3>7, OnlyCommandTurns
        <3>9. IdsInOrder' /\ EarlierExpired'
            BY <1>0, <2>1 DEF IdsInOrder, EarlierExpired, Expired
        <3> QED
            BY <3>8, <3>9 DEF OneInv
    <2> QED
        BY <2>2, <2>3
<1>9. ASSUME NEW p \in Proc, ReplaceDeadClaim(p) PROVE OneInv'
    <2>1. UNCHANGED <<now, born, claim, session>> /\ proc[p].pc = "reclaim"
          /\ claims + 1 \in ClaimId /\ claims' = claims + 1 /\ claimKey' = claims + 1
        BY <1>9 DEF ReplaceDeadClaim, poolVars
    <2>2. PICK v : v = [pc |-> "claim", send |-> proc[p].send, claim |-> claims + 1, replaced |-> TRUE]
        OBVIOUS
    <2>3. Turn(p, v)
        BY <1>9, <2>2 DEF ReplaceDeadClaim
    <2>4. OnCourse(v)'
        BY <2>1, <2>2 DEF OnCourse
    <2>5. \A q \in Proc : OnCourse(proc[q])'
        BY <2>3, <2>4, OnlyCommandTurns
    <2>6. claimKey' # Absent
        BY <2>1, PoolAssumption DEF ClaimId
    <2>7. \A b \in Bundle : claim[b] \in ClaimId => claim[b] \in Int /\ claim[b] <= claims
        BY <1>0, PoolAssumption DEF IdsInOrder, ClaimId
    <2>8. IdsInOrder'
        BY <1>0, <1>1, <2>1, <2>6, <2>7 DEF IdsInOrder
    <2>9. EarlierExpired'
        <3> SUFFICES ASSUME NEW b \in Bundle, claim'[b] \in ClaimId PROVE Expired(b)'
            BY DEF EarlierExpired
        <3>1. claim[b] = claims \/ claim[b] < claims
            BY <1>1, <2>1, <2>7
        <3>2. Expired(b)
            BY <1>0, <2>1, <3>1 DEF OnCourse, EarlierExpired
        <3> QED
            BY <2>1, <3>2 DEF Expired
    <2> QED
        BY <2>5, <2>8, <2>9 DEF OneInv
<1>10. ASSUME NEW p \in Proc, Commit(p) PROVE OneInv'
    <2>0. PICK w : w = proc[p]
        OBVIOUS
    <2>1. UNCHANGED <<now, born, claim, claims>> /\ w.pc = "commit"
        BY <1>10, <2>0 DEF Commit, poolVars
    <2>2. w \in Committing /\ (w.bundle = Absent => session # Absent)
        BY <2>0, <2>1 DEF IInv, CommandsOK, CommandOK, Idle, Asked, Claiming, Answered, Delivering
    <2>3. PICK k : k = IF w.bundle = Absent THEN session ELSE w.bundle
        OBVIOUS
    <2>4. k # Absent
        BY <2>2, <2>3
    <2>5. PICK u : u = [pc |-> "deliver", record |-> outbox[w.send.message]]
        OBVIOUS
    <2>6. PICK v : v = [pc |-> "deliver",
                        record |-> [envelope |-> Encrypted(w.send, k), status |-> "pending"]]
        OBVIOUS
    <2>7. \/ UNCHANGED <<claimKey, session>> /\ (Turn(p, u) \/ Turn(p, Idle))
          \/ claimKey' = Absent /\ session' = k /\ Turn(p, v)
        BY <1>10, <2>0, <2>3, <2>5, <2>6 DEF Commit
    <2>8. SessionStays
        BY <2>4, <2>7 DEF SessionStays
    <2>9. u.pc = "deliver" /\ v.pc = "deliver" /\ Idle.pc = "idle"
        BY <2>5, <2>6 DEF Idle
    <2> QED
        BY <2>1, <2>4, <2>7, <2>8, <2>9, TurnsAway
<1>11. ASSUME NEW p \in Proc, Deliver(p) PROVE OneInv'
    <2>1. UNCHANGED <<now, born, claim, claims, claimKey, session>> /\ proc[p].pc = "deliver"
        BY <1>11 DEF Deliver, poolVars
    <2>2. PICK v : v = [proc[p] EXCEPT !.pc = "delivered"]
        OBVIOUS
    <2>3. proc[p] \in Delivering
        BY <2>1, Parts, DeliveringFacts
    <2>4. v.pc = "delivered" /\ Idle.pc = "idle"
        BY <2>2, <2>3 DEF Delivering, Idle
    <2>5. Turn(p, v) \/ Turn(p, Idle)
        BY <1>11, <2>2 DEF Deliver
    <2> QED
        BY <2>1, <2>4, <2>5, TurnsAway, StayWhenUnchanged
<1>12. ASSUME NEW p \in Proc, MarkDelivered(p) PROVE OneInv'
    <2>1. UNCHANGED <<now, born, claim, claims, claimKey, session>> /\ Turn(p, Idle)
        BY <1>12 DEF MarkDelivered, poolVars
    <2> QED
        BY <2>1, TurnsAway, StayWhenUnchanged DEF Idle
<1>13. ASSUME NEW p \in Proc, SendEnds(p) PROVE OneInv'
    <2>1. UNCHANGED <<now, born, claims, claimKey, session>> /\ Turn(p, Idle)
        BY <1>13 DEF SendEnds
    <2>2. CASE UNCHANGED claim
        BY <2>1, <2>2, TurnsAway, StayWhenUnchanged DEF Idle
    <2>3. CASE proc[p].pc = "claim" /\ \E b \in Offers(proc[p].claim) : ClaimedBy(proc[p].claim, b)
        <3>1. PICK b \in Offers(proc[p].claim) : ClaimedBy(proc[p].claim, b)
            BY <2>3
        <3>2. IdsInOrder' /\ EarlierExpired'
            BY <1>0, <1>6, <2>1, <2>3, <3>1, ClaimingKeeps
        <3>3. OnCourse(Idle)'
            BY DEF OnCourse, Idle
        <3>4. \A q \in Proc : OnCourse(proc[q])'
            BY <2>1, <3>3, OnlyCommandTurns
        <3> QED
            BY <3>2, <3>4 DEF OneInv
    <2> QED
        BY <1>13, <2>2, <2>3 DEF SendEnds
<1>14. CASE \E e \in mailbox : Receive(e)
    BY <1>2, <1>14, StayWhenUnchanged DEF Receive
<1>15. CASE PeerBegins
    <2>1. SessionStays
        BY <1>15, OutboundAssumption DEF PeerBegins, SessionStays
    <2> QED
        BY <1>2, <1>15, <2>1 DEF PeerBegins, poolVars
<1>16. CASE UNCHANGED vars
    BY <1>2, <1>16, StayWhenUnchanged DEF vars, poolVars, senderVars
<1> QED
    BY <1>3, <1>4, <1>5, <1>7, <1>8, <1>9, <1>10, <1>11, <1>12, <1>13, <1>14, <1>15, <1>16
       DEF Next, SendStep

\* With one send command at a time a first contact holds one valid prekey of the
\* contact at most, whatever is lost and however often the send is repeated: a
\* claim id is drawn when there is none, or when the prekey of the last one has
\* expired (sendOwned, claimFirstContact).
THEOREM OneLivePrekeyPerContact ==
    ASSUME OneCommand
    PROVE  Spec => []KeysHeldBounded
<1>1. Init => OneInv
    <2> SUFFICES ASSUME Init PROVE OneInv
        OBVIOUS
    <2>1. /\ \A b \in Bundle : claim[b] = Absent
          /\ claims = 0 /\ claimKey = Absent
          /\ \A p \in Proc : proc[p] = Idle
        BY DEF Init, PoolInit
    <2>2. \A b \in Bundle : claim[b] \notin ClaimId
        BY <2>1, PoolAssumption DEF ClaimId
    <2>3. IdsInOrder /\ EarlierExpired
        BY <2>1, <2>2 DEF IdsInOrder, EarlierExpired
    <2>4. OnCourse(Idle)
        BY DEF OnCourse, Idle
    <2> QED
        BY <2>1, <2>3, <2>4 DEF OneInv
<1>2. IInv /\ OneInv /\ [Next]_vars => OneInv'
    BY OneStep
<1>3. IInv /\ OneInv => KeysHeldBounded
    <2> SUFFICES ASSUME IInv, OneInv PROVE KeysHeldBounded
        OBVIOUS
    <2> DEFINE Dead == {b \in Held : Expired(b)}
    <2>1. IsFiniteSet(Bundle)
        BY FS_Interval, PoolAssumption DEF Bundle
    <2>2. Held \subseteq Bundle /\ Dead \subseteq Bundle
        BY DEF Held
    <2>3. IsFiniteSet(Dead) /\ Cardinality(Dead) \in Nat
        BY <2>1, <2>2, FS_Subset, FS_CardinalityType
    <2>4. Cardinality(Proc) = 1
        BY FS_Singleton DEF OneCommand
    <2>5. \A b, d \in Held : b \in Dead \/ d \in Dead \/ b = d
        <3> SUFFICES ASSUME NEW b \in Held, NEW d \in Held, ~Expired(b), ~Expired(d) PROVE b = d
            OBVIOUS
        <3>1. b \in Bundle /\ d \in Bundle /\ claim[b] \in ClaimId /\ claim[d] \in ClaimId
            BY DEF Held
        <3>2. claim[b] \in Int /\ claim[d] \in Int /\ claims \in Int
            BY <3>1, PoolAssumption DEF ClaimId, IInv, TypeOK
        <3>3. claim[b] = claims /\ claim[d] = claims
            BY <3>1, <3>2 DEF OneInv, IdsInOrder, EarlierExpired
        <3> QED
            BY <3>1, <3>3 DEF OneInv, IdsInOrder
    <2>6. \E x : Held \subseteq Dead \cup {x}
        BY <2>5
    <2>7. PICK x : Held \subseteq Dead \cup {x}
        BY <2>6
    <2> HIDE DEF Dead
    <2>8. IsFiniteSet(Dead \cup {x}) /\ Cardinality(Dead \cup {x}) <= 1 + Cardinality(Dead)
        BY <2>3, FS_AddElement
    <2>9. Cardinality(Held) <= Cardinality(Dead \cup {x})
        BY <2>7, <2>8, FS_Subset
    <2>10. Cardinality(Held) \in Nat /\ Cardinality(Dead \cup {x}) \in Nat
        BY <2>1, <2>2, <2>8, FS_Subset, FS_CardinalityType
    <2>11. Cardinality(Held) <= 1 + Cardinality(Proc) * Cardinality(Dead)
        BY <2>3, <2>4, <2>8, <2>9, <2>10
    <2> QED
        BY <2>11 DEF KeysHeldBounded, Dead
<1> QED
    BY <1>1, <1>2, <1>3, OutboundInvariant, PTL DEF Spec
=============================================================================
