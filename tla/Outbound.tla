------------------------------ MODULE Outbound ------------------------------
(***************************************************************************)
(* A sender's messages to one trusted contact, from the send command to    *)
(* the contact's mailbox: runtime/outbound.ts over the sender's profile,   *)
(* against the contact's published pool (Pool).  A first contact claims    *)
(* one of the contact's one-time prekeys under a claim id that is durable  *)
(* before the request, so that a lost answer is asked for again; session,  *)
(* ciphertext and outbox entry are committed together; the envelope is     *)
(* then delivered, byte for byte the same however often that takes.        *)
(*                                                                         *)
(* A process is one run of the send command and may end at any point.  The *)
(* operator repeats a send under its message id.  Sends that fail their    *)
(* local checks (an unknown contact, a profile that never published) have  *)
(* no effect and are not steps.                                            *)
(***************************************************************************)
EXTENDS Pool

CONSTANTS
    Proc,          \* send commands on the sender's profile at the same time
    Message,
    Content,
    Sends,         \* the sends the operator may ask for
    EnvelopeLife,  \* how long an envelope is valid
    Peer           \* stands for a session the contact began

ASSUME OutboundAssumption ==
    /\ Sends \subseteq [message: Message, content: Content]
    /\ EnvelopeLife \in Nat \ {0}
    /\ Peer \notin Bundle /\ Peer # Absent

VARIABLES
    \* the sender's profile
    claimKey,   \* cli:claim:<contact>
    claims,     \* how many claim ids were drawn
    session,    \* session:<contact>, named by the prekey it was built on
    outbox,     \* cli:outbox:<message>
    envelopes,  \* how many envelopes were signed
    \* the contact
    mailbox,    \* the envelopes the relay holds for it
    sessions,   \* the sessions it has built for this sender
    \* the commands
    proc,       \* what each send command is doing
    \* what has happened
    accepted    \* the envelopes the relay has accepted

senderVars == <<claimKey, claims, session, outbox, envelopes, mailbox, sessions, proc, accepted>>
vars == <<poolVars, senderVars>>

Envelope == [id: Nat, message: Message, content: Content, key: Bundle \cup {Peer}, expires: Nat]
Record == [envelope: Envelope, status: {"pending", "delivered"}]

ASSUME RecordAssumption == Absent \notin Record

Asked == [pc: {"claimId", "reclaim"}, send: Sends]
Claiming == [pc: {"claim"}, send: Sends, claim: ClaimId, replaced: BOOLEAN]
Answered == [pc: {"judge"}, send: Sends, replaced: BOOLEAN, bundle: Bundle]
Committing == [pc: {"commit"}, send: Sends, bundle: Bundle \cup {Absent}]
Delivering == [pc: {"deliver", "delivered"}, record: Record]

TypeOK ==
    /\ PoolTypeOK
    /\ claimKey \in ClaimId \cup {Absent}
    /\ claims \in ClaimId \cup {0}
    /\ session \in Bundle \cup {Peer, Absent}
    /\ outbox \in [Message -> Record \cup {Absent}]
    /\ envelopes \in Nat
    /\ mailbox \subseteq accepted
    /\ sessions \subseteq Bundle
    /\ accepted \subseteq Envelope
    /\ proc \in [Proc -> {Idle} \cup Asked \cup Claiming \cup Answered \cup Committing \cup Delivering]

Init ==
    /\ PoolInit
    /\ claimKey = Absent
    /\ claims = 0
    /\ session = Absent
    /\ outbox = [m \in Message |-> Absent]
    /\ envelopes = 0
    /\ mailbox = {}
    /\ sessions = {}
    /\ proc = [p \in Proc |-> Idle]
    /\ accepted = {}

Turn(p, state) == proc' = [proc EXCEPT ![p] = state]

-----------------------------------------------------------------------------
(* Sending.                                                                *)

\* A message that is in the outbox with the same content goes on to delivery.
SendOwned(p, s) ==
    /\ proc[p] = Idle
    /\ IF outbox[s.message] = Absent
       THEN Turn(p, [pc |-> "claimId", send |-> s])
       ELSE /\ outbox[s.message].envelope.content = s.content
            /\ outbox[s.message].status = "pending"
            /\ Turn(p, [pc |-> "deliver", record |-> outbox[s.message]])
    /\ UNCHANGED <<poolVars, claimKey, claims, session, outbox, envelopes, mailbox, sessions,
                   accepted>>

\* Mutant: every send draws a claim id of its own.
StoredClaimIdFresh == Absent

\* The claim id of an earlier send that did not get through.
StoredClaimId == claimKey

StoreClaimId(p) ==
    LET s == proc[p].send
        id == IF StoredClaimId = Absent THEN claims + 1 ELSE StoredClaimId
    IN  /\ proc[p].pc = "claimId"
        /\ IF session # Absent
           THEN /\ Turn(p, [pc |-> "commit", send |-> s, bundle |-> Absent])
                /\ UNCHANGED <<claimKey, claims>>
           ELSE /\ id \in ClaimId
                /\ claimKey' = id
                /\ claims' = IF StoredClaimId = Absent THEN id ELSE claims
                /\ Turn(p, [pc |-> "claim", send |-> s, claim |-> id, replaced |-> FALSE])
        /\ UNCHANGED <<poolVars, session, outbox, envelopes, mailbox, sessions, accepted>>

\* The relay answers a known claim with its bundle and any other with the first
\* available one.
Offers(c) ==
    LET mine == {b \in Bundle : claim[b] = c} IN IF mine # {} THEN mine ELSE FirstAvailable

ClaimedBy(c, b) == claim' = [claim EXCEPT ![b] = c]

\* Nothing to claim ends the send; the claim id stays for the next one.
ClaimFirstContact(p) ==
    LET w == proc[p]
        answer(b) == [pc |-> "judge", send |-> w.send, replaced |-> w.replaced, bundle |-> b]
    IN  /\ w.pc = "claim"
        /\ IF Offers(w.claim) = {}
           THEN Turn(p, Idle) /\ UNCHANGED claim
           ELSE \E b \in Offers(w.claim) : ClaimedBy(w.claim, b) /\ Turn(p, answer(b))
        /\ UNCHANGED <<now, slot, pre, pointer, born, stored, publisher, strangers, faults, claimKey,
                       claims, session, outbox, envelopes, mailbox, sessions, accepted>>

\* Mutant: an expired bundle ends the send and the claim id stays.
DeadClaimFails(w) == Idle

\* A dead claim is replaced once per send.
DeadClaim(w) == IF w.replaced THEN Idle ELSE [pc |-> "reclaim", send |-> w.send]

\* A bundle outside its window when the answer comes is a dead claim.
JudgeClaim(p) ==
    LET w == proc[p]
    IN  /\ w.pc = "judge"
        /\ Turn(p, IF Expired(w.bundle) THEN DeadClaim(w)
                   ELSE [pc |-> "commit", send |-> w.send, bundle |-> w.bundle])
        /\ UNCHANGED <<poolVars, claimKey, claims, session, outbox, envelopes, mailbox, sessions,
                       accepted>>

\* The replacement is durable before it is used.
ReplaceDeadClaim(p) ==
    /\ proc[p].pc = "reclaim"
    /\ claims + 1 \in ClaimId
    /\ claims' = claims + 1
    /\ claimKey' = claims + 1
    /\ Turn(p, [pc |-> "claim", send |-> proc[p].send, claim |-> claims + 1, replaced |-> TRUE])
    /\ UNCHANGED <<poolVars, session, outbox, envelopes, mailbox, sessions, accepted>>

\* Mutant: the outbox is not read again in the transaction.
CommittedBefore(m) == FALSE

\* Another process has committed this message in the meantime.
Committed(m) == outbox[m] # Absent

\* A session that someone established meanwhile is never replaced.
EstablishRefuses(bundle) == bundle # Absent /\ session # Absent

\* Every encryption is another ciphertext, which its id stands for.
Encrypted(send, key) == [id |-> envelopes + 1, message |-> send.message, content |-> send.content,
                         key |-> key, expires |-> now + EnvelopeLife]

\* The new session, ciphertext and outbox entry, and the end of the claim.
Commit(p) ==
    LET w == proc[p]
        m == w.send.message
        key == IF w.bundle = Absent THEN session ELSE w.bundle
        record == [envelope |-> Encrypted(w.send, key), status |-> "pending"]
    IN  /\ w.pc = "commit"
        /\ IF Committed(m)
           THEN /\ Turn(p, IF outbox[m].envelope.content = w.send.content /\ outbox[m].status = "pending"
                           THEN [pc |-> "deliver", record |-> outbox[m]] ELSE Idle)
                /\ UNCHANGED <<claimKey, session, outbox, envelopes>>
           ELSE IF EstablishRefuses(w.bundle)
           THEN Turn(p, Idle) /\ UNCHANGED <<claimKey, session, outbox, envelopes>>
           ELSE /\ session' = key
                /\ outbox' = [outbox EXCEPT ![m] = record]
                /\ envelopes' = envelopes + 1
                /\ claimKey' = Absent
                /\ Turn(p, [pc |-> "deliver", record |-> record])
        /\ UNCHANGED <<poolVars, claims, mailbox, sessions, accepted>>

\* The relay takes an envelope that is valid, also again.
Deposited(e) == mailbox' = mailbox \cup {e} /\ accepted' = accepted \cup {e}

Deliver(p) ==
    LET e == proc[p].record.envelope
    IN  /\ proc[p].pc = "deliver"
        /\ IF now < e.expires
           THEN Deposited(e) /\ Turn(p, [proc[p] EXCEPT !.pc = "delivered"])
           ELSE Turn(p, Idle) /\ UNCHANGED <<mailbox, accepted>>
        /\ UNCHANGED <<poolVars, claimKey, claims, session, outbox, envelopes, sessions>>

MarkDelivered(p) ==
    /\ proc[p].pc = "delivered"
    /\ outbox' = [outbox EXCEPT ![proc[p].record.envelope.message] =
                     [proc[p].record EXCEPT !.status = "delivered"]]
    /\ Turn(p, Idle)
    /\ UNCHANGED <<poolVars, claimKey, claims, session, envelopes, mailbox, sessions, accepted>>

\* The command ends before its next step, or its request is served and the
\* answer lost.
SendEnds(p) ==
    LET w == proc[p]
    IN  /\ w # Idle
        /\ faults < MaxFaults
        /\ faults' = faults + 1
        /\ \/ UNCHANGED <<claim, mailbox, accepted>>
           \/ /\ w.pc = "claim"
              /\ \E b \in Offers(w.claim) : ClaimedBy(w.claim, b)
              /\ UNCHANGED <<mailbox, accepted>>
           \/ /\ w.pc = "deliver"
              /\ now < w.record.envelope.expires
              /\ Deposited(w.record.envelope)
              /\ UNCHANGED claim
        /\ Turn(p, Idle)
        /\ UNCHANGED <<now, slot, pre, pointer, born, stored, publisher, strangers, claimKey, claims,
                       session, outbox, envelopes, sessions>>

-----------------------------------------------------------------------------
(* The contact.                                                            *)

\* The contact can read an envelope: it has the session or the prekey.
Readable(e) == e.key \in sessions \cup pre \cup {Peer}

\* Reading the first envelope of a session uses up its prekey; the ack that
\* removes the envelope from the mailbox may come later.
Receive(e) ==
    /\ e \in mailbox
    /\ Readable(e)
    /\ sessions' = sessions \cup ({e.key} \ {Peer})
    /\ pre' = pre \ {e.key}
    /\ mailbox' \in {mailbox, mailbox \ {e}}
    /\ UNCHANGED <<now, slot, pointer, born, stored, claim, publisher, strangers, faults, claimKey,
                   claims, session, outbox, envelopes, proc, accepted>>

\* The sender's own poll reads a message with which the contact began a session.
PeerBegins ==
    /\ session # Peer
    /\ session' = Peer
    /\ UNCHANGED <<poolVars, claimKey, claims, outbox, envelopes, mailbox, sessions, proc,
                   accepted>>

SendStep(p) ==
    \/ StoreClaimId(p) \/ ClaimFirstContact(p) \/ JudgeClaim(p) \/ ReplaceDeadClaim(p)
    \/ Commit(p) \/ Deliver(p) \/ MarkDelivered(p)

Next ==
    \/ PoolNext /\ UNCHANGED senderVars
    \/ \E p \in Proc, s \in Sends : SendOwned(p, s)
    \/ \E p \in Proc : SendStep(p) \/ SendEnds(p)
    \/ \E e \in mailbox : Receive(e)
    \/ PeerBegins

Spec == Init /\ [][Next]_vars

\* Commands that run make progress; both operators repeat theirs.
FairSpec ==
    /\ Spec
    /\ \A p \in Proc : WF_vars(SendStep(p)) /\ WF_vars(\E s \in Sends : SendOwned(p, s))
    /\ \A q \in Publisher : WF_vars(PublishStep(q) /\ UNCHANGED senderVars)

-----------------------------------------------------------------------------
(* Properties.                                                             *)

\* A message is encrypted and signed once: whatever is repeated, overlaps or
\* ends early, the relay only ever accepts one envelope for a message id
\* (sendOwned: "the byte-identical retry of an ambiguous send").
EncryptedOnce == \A e, f \in accepted : e.message = f.message => e = f

\* The contact can read everything in its mailbox, however late: the prekey an
\* envelope was built on is still there or has become its session, although the
\* pool has moved on (mintPublicationSlot: "keeps a first contact against an
\* earlier member decryptable days later").
MailboxReadable == \A e \in mailbox : Readable(e)

\* Two slots never hold bundles around the same prekey (mintPublicationSlot: "two
\* members sharing a prekey would collapse the pool back towards a pool of one").
MembersDistinct == \A s, t \in Slot : (slot[s] = slot[t] /\ slot[s] # Absent) => s = t

\* Until one that it holds has expired, a first contact takes a single prekey of
\* the contact, however often answers are lost and sends repeated or overlap; for
\* an expired one every overlapping send takes at most one more
\* (claimFirstContact: "A dead claim is therefore released exactly once and one
\* fresh claim is taken in its place").
Held == {b \in Bundle : claim[b] \in ClaimId}
KeysHeldBounded ==
    Cardinality(Held) <= 1 + Cardinality(Proc) * Cardinality({b \in Held : Expired(b)})

\* A claim id does not stay: a contact whose pool is refilled is reached in the
\* end, also when the claimed bundle has expired (claimFirstContact: "every later
\* first-contact attempt to that recipient replayed the same dead bundle").
ClaimSettles == claimKey # Absent ~> claimKey = Absent
=============================================================================
