------------------------------ MODULE Mailbox ------------------------------
(***************************************************************************)
(* One mailbox of the relay: the records, the ordering side index, the     *)
(* position counter and the per-device read marks that                     *)
(* storage/repository/mailbox_repo.go keeps in Badger, and the send, poll  *)
(* and ack handlers of api/handler/mailbox_handler.go that run over them   *)
(* concurrently.  Every mailbox has its own key prefixes and its own       *)
(* ordering lock, so one mailbox is the whole of the interaction.          *)
(*                                                                         *)
(* A step of a handler is one Badger transaction, one lock operation or    *)
(* one reading of the clock, whichever the code does next.  An optimistic  *)
(* transaction that conflicts is replayed by MailboxRepository.update, so  *)
(* it takes effect in the step that commits.  Requests that fail           *)
(* validation, authorization or the signature check answer an error and    *)
(* change nothing; they are not steps.                                     *)
(***************************************************************************)
EXTENDS Integers, FiniteSets, Sequences, FiniteSetsExt

CONSTANTS
    Proc,           \* request handlers running at the same time
    Device,         \* the recipient's devices
    Sender,         \* sender identities
    EnvId,          \* envelope ids; numbers, so that key order is <
    Body,           \* what else the stored bytes of an envelope hold
    Envelope,       \* the envelopes senders submit
    Cursor,         \* the cursors polls carry; Absent for none
    ReadThrough,    \* the read positions polls and acks report, or Absent
    Legacy,         \* envelopes stored before the relay assigned positions
    Quota,          \* senderUnackedQuota
    BatchLimit,     \* maxMailboxBatch, the largest batch a poll returns
    ByteBudget,     \* pollEnvelopeByteBudget
    BackfillBatch,  \* mailboxBackfillBatch
    RetentionCap,   \* retentionCap, in seconds
    MarkTTL,        \* mailboxReadMarkTTL, in seconds
    MaxPosition,    \* bound: positions the model allocates
    MaxTime,        \* bound: clock ticks of the model
    Absent          \* no key, no value, no holder

Position == 1..MaxPosition

EnvelopeType == [id: EnvId, sender: Sender, body: Body, expires: Nat, bytes: Nat]

ASSUME NumbersAssumption ==
    /\ Quota \in Nat \ {0}
    /\ BatchLimit \in Nat \ {0}
    /\ ByteBudget \in Nat \ {0}
    /\ BackfillBatch \in Nat \ {0}
    /\ RetentionCap \in Nat \ {0}
    /\ MarkTTL \in Nat \ {0}
    /\ MaxPosition \in Nat
    /\ MaxTime \in Nat

ASSUME EnvelopeAssumption ==
    /\ EnvId \subseteq Nat
    /\ IsFiniteSet(EnvId)
    /\ Cardinality(EnvId) <= MaxPosition
    /\ Envelope \subseteq EnvelopeType
    /\ Legacy \subseteq Envelope
    /\ \A e, f \in Legacy : e.id = f.id => e = f

ASSUME TokenAssumption ==
    /\ Cursor \subseteq Nat \cup {Absent}
    /\ ReadThrough \subseteq Nat \cup {Absent}

ASSUME AbsentAssumption ==
    /\ Absent \notin Nat
    /\ Absent \notin Proc
    /\ Absent \notin Device
    /\ Absent \notin Envelope
    /\ Absent \notin [env: Envelope, deadline: Nat]
    /\ Absent \notin [id: EnvId, deadline: Nat]

VARIABLES
    now,      \* the clock, in half seconds
    records,  \* mailbox:<mailbox>:<envelope_id>
    order,    \* mailboxseq:<mailbox>:<position>
    next,     \* mailboxseqnext:<mailbox>; 0 when the key does not exist
    mark,     \* mailboxmark:<mailbox>:<device>
    lock,     \* who holds the mailbox's ordering lock
    pc,       \* what each handler does next
    job,      \* the request each handler works on
    plan,     \* backfill: the records it listed, in key order
    written,  \* backfill: how many of them have an index entry
    tokens    \* the highest continuation token a response has carried

store == <<records, order, next, mark>>
vars == <<now, records, order, next, mark, lock, pc, job, plan, written, tokens>>

Steps == {"idle", "quota", "deadline", "lock", "ensure", "backfill",
          "commit", "advance", "cursor", "select", "delete"}

Record == [env: Envelope, deadline: Nat]
IndexEntry == [id: EnvId, deadline: Nat]
Job == [kind: {"none", "send", "poll", "ack"}, env: Envelope \cup {Absent},
        deadline: Nat, device: Device \cup {Absent}, cursor: Nat \cup {Absent},
        readThrough: Nat \cup {Absent}, ids: SUBSET EnvId]

NoJob == [kind |-> "none", env |-> Absent, deadline |-> 0, device |-> Absent,
          cursor |-> Absent, readThrough |-> Absent, ids |-> {}]

TypeOK ==
    /\ now \in Nat
    /\ records \in [EnvId -> Record \cup {Absent}]
    /\ order \in [Position -> IndexEntry \cup {Absent}]
    /\ next \in 0..MaxPosition + 1
    /\ mark \in [Device -> [pos: Nat, deadline: Nat]]
    /\ lock \in Proc \cup {Absent}
    /\ pc \in [Proc -> Steps]
    /\ job \in [Proc -> Job]
    /\ plan \in [Proc -> Seq(IndexEntry)]
    /\ written \in [Proc -> Nat]
    /\ tokens \in Nat

-----------------------------------------------------------------------------
(* Reading the store.                                                      *)

\* Badger deadlines are whole Unix seconds.
Sec(t) == t \div 2

\* A key Badger still returns: it has not passed its physical deadline.
Stored(id) == records[id] # Absent /\ records[id].deadline > Sec(now)
Listed(i) == order[i] # Absent /\ order[i].deadline > Sec(now)

\* A stored envelope that has not passed its declared expiry.
Unexpired(id) == Stored(id) /\ records[id].env.expires > now

\* The live envelopes one sender holds in this mailbox.
SenderOccupancy(s) ==
    Cardinality({id \in EnvId : Unexpired(id) /\ records[id].env.sender = s})

HighestIssuedPosition == IF next = 0 THEN 0 ELSE next - 1

ReadMark(d) == IF mark[d].deadline > Sec(now) THEN mark[d].pos ELSE 0

\* Never later than the declared expiry or the cap, never before now.
RetentionDeadlineSeconds(e) ==
    Max({Min({Sec(e.expires), Sec(now) + RetentionCap}), Sec(now)})

\* The positions a selection resuming strictly after cursor can hand out.
Deliverable(cursor) ==
    {i \in Position : i > cursor /\ Listed(i) /\ Unexpired(order[i].id)}

\* What one response carries of them: a prefix within both bounds, of which
\* the byte budget exempts the first envelope.
Batch(cursor, limit) ==
    LET candidates == Deliverable(cursor)
        UpTo(i) == {j \in candidates : j <= i}
        Bytes(S) == MapThenSumSet(LAMBDA j : records[order[j].id].env.bytes, S)
    IN  {i \in candidates :
            /\ Cardinality(UpTo(i)) <= limit
            /\ Cardinality(UpTo(i)) = 1 \/ Bytes(UpTo(i)) <= ByteBudget}

\* The key-order listing of a mailbox's records.
IsKeyOrder(s, ids) ==
    /\ {s[i].id : i \in DOMAIN s} = ids
    /\ \A i, j \in DOMAIN s : i < j => s[i].id < s[j].id

Listing ==
    LET ids == {id \in EnvId : Stored(id)}
        entries == {[id |-> id, deadline |-> records[id].deadline] : id \in ids}
    IN  {s \in [1..Cardinality(ids) -> entries] : IsKeyOrder(s, ids)}

-----------------------------------------------------------------------------
(* The mailbox before any request: either no record at all, or records     *)
(* written by a relay that had no ordering index.                          *)
Init ==
    /\ now = 2
    /\ records = [id \in EnvId |->
          IF \E e \in Legacy : e.id = id
          THEN LET e == CHOOSE e \in Legacy : e.id = id
               IN  [env |-> e, deadline |-> RetentionDeadlineSeconds(e)]
          ELSE Absent]
    /\ order = [i \in Position |-> Absent]
    /\ next = 0
    /\ mark = [d \in Device |-> [pos |-> 0, deadline |-> 0]]
    /\ lock = Absent
    /\ pc = [p \in Proc |-> "idle"]
    /\ job = [p \in Proc |-> NoJob]
    /\ plan = [p \in Proc |-> <<>>]
    /\ written = [p \in Proc |-> 0]
    /\ tokens = 0

Goto(p, step) == pc' = [pc EXCEPT ![p] = step]

\* The handler answers and its locals are gone.
Finish(p) ==
    /\ Goto(p, "idle")
    /\ job' = [job EXCEPT ![p] = NoJob]

-----------------------------------------------------------------------------
(* POST /v1/messages/send                                                  *)

\* Bound: the model admits a send only while a position is left for it.
RoomFor(p) ==
    LET issued == IF next = 0 THEN Cardinality(Legacy) ELSE HighestIssuedPosition
    IN  issued + Cardinality({q \in Proc : job[q].kind = "send"}) < MaxPosition

\* The request passes every check up to the quota.
SendEnvelope(p, e) ==
    /\ pc[p] = "idle"
    /\ e.expires > now
    /\ RoomFor(p)
    /\ job' = [job EXCEPT ![p] = [NoJob EXCEPT !.kind = "send", !.env = e]]
    /\ Goto(p, "quota")
    /\ UNCHANGED <<now, store, lock, plan, written, tokens>>

\* An envelope id that is already stored is not charged against the quota.
EnforceSenderQuota(p) ==
    /\ pc[p] = "quota"
    /\ IF \/ Stored(job[p].env.id)
          \/ SenderOccupancy(job[p].env.sender) < Quota
       THEN Goto(p, "deadline") /\ UNCHANGED job
       ELSE Finish(p)
    /\ UNCHANGED <<now, store, lock, plan, written, tokens>>

\* SaveEnvelope fixes the physical deadline before it waits for the lock.
SaveEnvelopeDeadline(p) ==
    /\ pc[p] = "deadline"
    /\ job' = [job EXCEPT ![p].deadline = RetentionDeadlineSeconds(job[p].env)]
    /\ Goto(p, "lock")
    /\ UNCHANGED <<now, store, lock, plan, written, tokens>>

\* Mutant: the counter's last position is handed out again.
SaveEnvelopeReusesPosition(p) ==
    /\ pc[p] = "commit"
    /\ LET e == job[p].env
           position == IF next <= 1 THEN 1 ELSE next - 1
       IN  IF Stored(e.id)
           THEN UNCHANGED <<records, order, next>>
           ELSE /\ next' = position + 1
                /\ records' = [records EXCEPT ![e.id] =
                                 [env |-> e, deadline |-> job[p].deadline]]
                /\ order' = [order EXCEPT ![position] =
                                 [id |-> e.id, deadline |-> job[p].deadline]]
    /\ lock' = Absent
    /\ Finish(p)
    /\ UNCHANGED <<now, mark, plan, written, tokens>>

\* Mutant: the stored record is not looked up first.
SaveEnvelopeOverwrites(p) ==
    /\ pc[p] = "commit"
    /\ next <= MaxPosition
    /\ next' = next + 1
    /\ records' = [records EXCEPT ![job[p].env.id] =
                      [env |-> job[p].env, deadline |-> job[p].deadline]]
    /\ order' = [order EXCEPT ![next] =
                      [id |-> job[p].env.id, deadline |-> job[p].deadline]]
    /\ lock' = Absent
    /\ Finish(p)
    /\ UNCHANGED <<now, mark, plan, written, tokens>>

\* The replay of a stored envelope and a conflicting body leave the record,
\* its deadline and its position alone; anything else gets the next position.
SaveEnvelope(p) ==
    /\ pc[p] = "commit"
    /\ LET e == job[p].env
           position == IF next = 0 THEN 1 ELSE next
       IN  IF Stored(e.id)
           THEN UNCHANGED <<records, order, next>>
           ELSE /\ position <= MaxPosition
                /\ next' = position + 1
                /\ records' = [records EXCEPT ![e.id] =
                                 [env |-> e, deadline |-> job[p].deadline]]
                /\ order' = [order EXCEPT ![position] =
                                 [id |-> e.id, deadline |-> job[p].deadline]]
    /\ lock' = Absent
    /\ Finish(p)
    /\ UNCHANGED <<now, mark, plan, written, tokens>>

-----------------------------------------------------------------------------
(* ensureMailboxOrderingLocked, on the store path and on the poll path.    *)

LockMailboxOrdering(p) ==
    /\ pc[p] = "lock"
    /\ lock = Absent
    /\ lock' = p
    /\ Goto(p, "ensure")
    /\ UNCHANGED <<now, store, job, plan, written, tokens>>

\* A store goes on under the lock, a poll releases it before selecting.
OrderingEnsured(p) ==
    /\ plan' = [plan EXCEPT ![p] = <<>>]
    /\ written' = [written EXCEPT ![p] = 0]
    /\ IF job[p].kind = "send"
       THEN Goto(p, "commit") /\ UNCHANGED lock
       ELSE Goto(p, "select") /\ lock' = Absent

EnsureMailboxOrdering(p) ==
    /\ pc[p] = "ensure"
    /\ \/ /\ next # 0
          /\ OrderingEnsured(p)
       \/ /\ next = 0
          /\ \E s \in Listing : plan' = [plan EXCEPT ![p] = s]
          /\ written' = [written EXCEPT ![p] = 0]
          /\ Goto(p, "backfill")
          /\ UNCHANGED lock
    /\ UNCHANGED <<now, store, job, tokens>>

\* One batch of index entries, at the positions the listing order gives.
BackfillBatchWrite(p) ==
    /\ pc[p] = "backfill"
    /\ written[p] < Len(plan[p])
    /\ LET upTo == Min({written[p] + BackfillBatch, Len(plan[p])})
       IN  /\ order' = [i \in Position |->
                 IF written[p] < i /\ i <= upTo THEN plan[p][i] ELSE order[i]]
           /\ written' = [written EXCEPT ![p] = upTo]
    /\ UNCHANGED <<now, records, next, mark, lock, pc, job, plan, tokens>>

\* The counter is written last.
BackfillCounter(p) ==
    /\ pc[p] = "backfill"
    /\ written[p] = Len(plan[p])
    /\ next' = IF next = 0 THEN Len(plan[p]) + 1 ELSE next
    /\ OrderingEnsured(p)
    /\ UNCHANGED <<now, records, order, mark, job, tokens>>

-----------------------------------------------------------------------------
(* POST /v1/mailboxes/poll                                                 *)

\* Mutant: the position after the last issued one is accepted too.
ReadThroughUpToNext(rt) == rt # Absent => rt <= HighestIssuedPosition + 1

\* A reported read position is accepted up to the highest one ever issued.
ReadThroughWithinIssued(rt) == rt # Absent => rt <= HighestIssuedPosition

PollMailbox(p, d, c, rt) ==
    /\ pc[p] = "idle"
    /\ ReadThroughWithinIssued(rt)
    /\ job' = [job EXCEPT ![p] = [NoJob EXCEPT !.kind = "poll", !.device = d,
                                    !.cursor = c, !.readThrough = rt]]
    /\ Goto(p, IF rt = Absent THEN "cursor" ELSE "advance")
    /\ UNCHANGED <<now, store, lock, plan, written, tokens>>

\* Mutant: the mark keeps the deadline it was first written with.
AdvanceReadMarkKeepsDeadline(p) ==
    /\ pc[p] = "advance"
    /\ lock = Absent
    /\ LET d == job[p].device
           position == job[p].readThrough
           alive == mark[d].deadline > Sec(now)
       IN  mark' = IF alive /\ position <= mark[d].pos
                   THEN mark
                   ELSE [mark EXCEPT ![d] =
                           [pos |-> position,
                            deadline |-> IF alive THEN @.deadline
                                         ELSE Sec(now) + MarkTTL]]
    /\ IF job[p].kind = "poll"
       THEN Goto(p, "cursor") /\ job' = [job EXCEPT ![p].readThrough = Absent]
       ELSE Finish(p)
    /\ UNCHANGED <<now, records, order, next, lock, plan, written, tokens>>

\* Mutant: the last report to reach the store wins.
AdvanceReadMarkUnconditionally(p) ==
    /\ pc[p] = "advance"
    /\ lock = Absent
    /\ mark' = [mark EXCEPT ![job[p].device] =
                   [pos |-> job[p].readThrough, deadline |-> Sec(now) + MarkTTL]]
    /\ IF job[p].kind = "poll"
       THEN Goto(p, "cursor") /\ job' = [job EXCEPT ![p].readThrough = Absent]
       ELSE Finish(p)
    /\ UNCHANGED <<now, records, order, next, lock, plan, written, tokens>>

\* A mark only moves forward; a mark that has expired counts as none.
AdvanceReadMark(p) ==
    /\ pc[p] = "advance"
    /\ lock = Absent
    /\ LET d == job[p].device
           position == job[p].readThrough
       IN  mark' = IF mark[d].deadline > Sec(now) /\ position <= mark[d].pos
                   THEN mark
                   ELSE [mark EXCEPT ![d] = [pos |-> position,
                                             deadline |-> Sec(now) + MarkTTL]]
    /\ IF job[p].kind = "poll"
       THEN Goto(p, "cursor") /\ job' = [job EXCEPT ![p].readThrough = Absent]
       ELSE Finish(p)
    /\ UNCHANGED <<now, records, order, next, lock, plan, written, tokens>>

\* A poll without a cursor resumes at the device's stored read position.
ResolveCursor(p) ==
    /\ pc[p] = "cursor"
    /\ job' = [job EXCEPT ![p].cursor = IF @ = Absent THEN ReadMark(job[p].device) ELSE @]
    /\ Goto(p, "lock")
    /\ UNCHANGED <<now, store, lock, plan, written, tokens>>

\* The response: a batch no larger than the client asked for, and a token when
\* something deliverable is left.
GetEnvelopeBatchFrom(p) ==
    /\ pc[p] = "select"
    /\ \E limit \in 1..BatchLimit :
       LET batch == Batch(job[p].cursor, limit)
       IN  IF batch = Deliverable(job[p].cursor)
           THEN UNCHANGED tokens
           ELSE \E last \in batch :
                   /\ \A i \in batch : i <= last
                   /\ tokens' = IF last > tokens THEN last ELSE tokens
    /\ Finish(p)
    /\ UNCHANGED <<now, store, lock, plan, written>>

-----------------------------------------------------------------------------
(* POST /v1/mailboxes/ack                                                  *)

AckMailbox(p, d, ids, rt) ==
    /\ pc[p] = "idle"
    /\ ReadThroughWithinIssued(rt)
    /\ job' = [job EXCEPT ![p] = [NoJob EXCEPT !.kind = "ack", !.device = d,
                                    !.ids = ids, !.readThrough = rt]]
    /\ Goto(p, "delete")
    /\ UNCHANGED <<now, store, lock, plan, written, tokens>>

\* One transaction per id, by primary key and without the ordering lock: the
\* index entry is left to dangle.
DeleteEnvelope(p) ==
    /\ pc[p] = "delete"
    /\ \E id \in job[p].ids :
          /\ records' = [records EXCEPT ![id] = Absent]
          /\ job' = [job EXCEPT ![p].ids = @ \ {id}]
    /\ UNCHANGED <<now, order, next, mark, lock, pc, plan, written, tokens>>

\* Mutant: an ack without a read position advances the mark as well.
EnvelopesAckedAlwaysAdvance(p) ==
    /\ pc[p] = "delete"
    /\ job[p].ids = {}
    /\ Goto(p, "advance")
    /\ UNCHANGED <<now, store, lock, job, plan, written, tokens>>

EnvelopesAcked(p) ==
    /\ pc[p] = "delete"
    /\ job[p].ids = {}
    /\ IF job[p].readThrough = Absent
       THEN Finish(p)
       ELSE Goto(p, "advance") /\ UNCHANGED job
    /\ UNCHANGED <<now, store, lock, plan, written, tokens>>

-----------------------------------------------------------------------------
(* The environment.                                                        *)

Tick ==
    /\ now < MaxTime
    /\ now' = now + 1
    /\ UNCHANGED <<store, lock, pc, job, plan, written, tokens>>

\* Mutant: the error path returns without unlocking.
StorageErrorKeepsLock(p) ==
    /\ pc[p] # "idle"
    /\ plan' = [plan EXCEPT ![p] = <<>>]
    /\ written' = [written EXCEPT ![p] = 0]
    /\ Finish(p)
    /\ UNCHANGED <<now, store, lock, tokens>>

\* A transaction fails for good: the handler answers 500 and its deferred
\* unlock runs.
StorageError(p) ==
    /\ pc[p] # "idle"
    /\ lock' = IF lock = p THEN Absent ELSE lock
    /\ plan' = [plan EXCEPT ![p] = <<>>]
    /\ written' = [written EXCEPT ![p] = 0]
    /\ Finish(p)
    /\ UNCHANGED <<now, store, tokens>>

\* The relay stops between two transactions and starts again on its store.
Restart ==
    /\ \E p \in Proc : pc[p] # "idle"
    /\ lock' = Absent
    /\ pc' = [p \in Proc |-> "idle"]
    /\ job' = [p \in Proc |-> NoJob]
    /\ plan' = [p \in Proc |-> <<>>]
    /\ written' = [p \in Proc |-> 0]
    /\ UNCHANGED <<now, store, tokens>>

HandlerStep(p) ==
    \/ EnforceSenderQuota(p)
    \/ SaveEnvelopeDeadline(p)
    \/ LockMailboxOrdering(p)
    \/ EnsureMailboxOrdering(p)
    \/ BackfillBatchWrite(p)
    \/ BackfillCounter(p)
    \/ SaveEnvelope(p)
    \/ AdvanceReadMark(p)
    \/ ResolveCursor(p)
    \/ GetEnvelopeBatchFrom(p)
    \/ DeleteEnvelope(p)
    \/ EnvelopesAcked(p)

Next ==
    \/ \E p \in Proc : HandlerStep(p)
    \/ \E p \in Proc, e \in Envelope : SendEnvelope(p, e)
    \/ \E p \in Proc, d \in Device, c \in Cursor, rt \in ReadThrough :
          PollMailbox(p, d, c, rt)
    \/ \E p \in Proc, d \in Device, ids \in SUBSET EnvId, rt \in ReadThrough :
          AckMailbox(p, d, ids, rt)
    \/ \E p \in Proc : StorageError(p)
    \/ Restart
    \/ Tick

Spec == Init /\ [][Next]_vars

\* A running handler takes its next step, and sync.Mutex hands the ordering
\* lock to every waiter in the end.
FairSpec ==
    /\ Spec
    /\ \A p \in Proc : WF_vars(HandlerStep(p)) /\ SF_vars(LockMailboxOrdering(p))
                                             /\ SF_vars(AdvanceReadMark(p))

-----------------------------------------------------------------------------
(* Properties.                                                             *)

\* No stored envelope is invisible: once the mailbox has a counter, every
\* record has an index entry at an issued position that lives as long as the
\* record does, whatever backfill, replay, restart or acknowledgement came
\* before (mailbox_repo.go: "Records that exist only under the primary key
\* must be selectable").
EveryRecordSelectable ==
    next # 0 =>
        \A id \in EnvId : Stored(id) =>
            \E i \in Position :
                /\ i < next
                /\ order[i] = [id |-> id, deadline |-> records[id].deadline]

\* No device's read mark is ever beyond what the mailbox issued, although the
\* bound is checked several steps before the mark is written (R-4).
MarksWithinIssued == \A d \in Device : mark[d].pos <= HighestIssuedPosition

\* What a device has marked as judged never changes under the mark: no send,
\* replay or backfill puts an envelope at a position at or below a mark, where
\* no cursorless poll of that device would ever offer it.
JudgedPositionsStable ==
    [][\A i \in Position, d \in Device :
          order'[i] # order[i] => i > mark[d].pos]_vars

\* A read mark never expires while an index entry it covers still lives
\* (AdvanceReadMark: "a mark can never expire while an envelope it covers still
\* exists").
MarkOutlivesCovered ==
    \A d \in Device, i \in Position :
        (i <= mark[d].pos /\ order[i] # Absent) => order[i].deadline <= mark[d].deadline

\* A live read mark only moves forward, in whatever order the requests that
\* report positions reach the store.
ReadMarkForwardOnly ==
    [][\A d \in Device :
          mark'[d].pos >= mark[d].pos \/ mark[d].deadline <= Sec(now)]_vars

\* An accepted envelope is immutable until it is acknowledged or its deadline
\* passes: neither a replay nor a different body under the same id touches the
\* record, its deadline or, below the counter, its position.
AcceptedEnvelopeImmutable ==
    [][/\ \A id \in EnvId : Stored(id) => records'[id] \in {records[id], Absent}
       /\ \A i \in Position : i < next => order'[i] = order[i]]_vars

\* No response carries a continuation token above the highest issued position
\* (HighestIssuedPosition: "the upper bound on any continuation token or read
\* position the relay could have issued").
TokensWithinIssued == tokens <= HighestIssuedPosition

\* A sender never holds more live envelopes in the mailbox than its quota
\* (defaultSenderUnackedQuota).
SenderQuotaHolds == \A s \in Sender : SenderOccupancy(s) <= Quota

\* Every request is answered: no handler waits for the ordering lock, or on
\* the other handlers, for ever.
EveryRequestAnswered == \A p \in Proc : pc[p] # "idle" ~> pc[p] = "idle"

-----------------------------------------------------------------------------
(* What a mailbox promises, and where this one keeps it.                   *)

Log == [i \in Position |-> IF i < next THEN order[i].id ELSE Absent]
Held == [id \in EnvId |-> IF Stored(id) THEN records[id] ELSE Absent]
Read == [d \in Device |-> ReadMark(d)]

Queue == INSTANCE MailboxQueue WITH
    seconds <- Sec(now), issued <- HighestIssuedPosition, log <- Log,
    held <- Held, read <- Read

\* The mailbox implements the abstract queue: whatever handlers, backfills, replays
\* and restarts interleave, positions are given out once and in order, an accepted
\* envelope is held unchanged until it is acknowledged or its deadline passes, and a
\* read position moves forward and is forgotten only when it covers nothing held.
QueueSpec == Queue!Spec

=============================================================================
