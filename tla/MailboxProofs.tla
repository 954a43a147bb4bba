--------------------------- MODULE MailboxProofs ---------------------------
(***************************************************************************)
(* What holds of Mailbox for every set of handlers, devices and envelopes, *)
(* every bound and every legacy content: type correctness, that no stored  *)
(* envelope is invisible to the index, that read marks stay within what    *)
(* was issued, that nothing is written under a read mark, that marks only  *)
(* move forward, that a stored envelope stays as it was accepted, and,     *)
(* with the retention cap within the marks' lifetime, that a mark outlives *)
(* what it covers and that the mailbox implements MailboxQueue.            *)
(***************************************************************************)
EXTENDS Mailbox, FiniteSetTheorems, TLAPS

\* Who runs under the ordering lock holds it.
LockHeld == \A p \in Proc : pc[p] \in {"ensure", "backfill", "commit"} => lock = p

\* A handler's request has the fields its step reads.
JobShape ==
    \A p \in Proc :
        /\ pc[p] \in {"quota", "deadline", "commit"} => job[p].kind = "send"
        /\ pc[p] \in {"cursor", "select"} => job[p].kind = "poll"
        /\ pc[p] = "delete" => job[p].kind = "ack"
        /\ pc[p] = "advance" => job[p].kind \in {"poll", "ack"}
        /\ pc[p] \in {"lock", "ensure", "backfill"} => job[p].kind \in {"send", "poll"}
        /\ job[p].kind = "send" => job[p].env \in Envelope
        /\ job[p].kind \in {"poll", "ack"} => job[p].device \in Device
        /\ pc[p] = "advance" => job[p].readThrough \in Nat
        /\ (job[p].kind = "poll" /\ pc[p] \in {"lock", "ensure", "backfill", "select"}) =>
               job[p].cursor \in Nat

\* A read position that passed its check stays within what was issued.
ReadThroughIssued ==
    \A p \in Proc : (pc[p] \in {"advance", "delete"} /\ job[p].readThrough # Absent) =>
        job[p].readThrough <= HighestIssuedPosition

\* Whoever is about to store has seen the counter.
CounterBeforeCommit == \A p \in Proc : pc[p] = "commit" => next # 0

\* A running backfill: no counter yet, the listing covers every record, and
\* the written part of it is what the index holds.
BackfillState ==
    \A p \in Proc : pc[p] = "backfill" =>
        /\ next = 0
        /\ Len(plan[p]) <= MaxPosition
        /\ written[p] <= Len(plan[p])
        /\ \A i \in 1..written[p] : order[i] = plan[p][i]
        /\ \A id \in EnvId : Stored(id) =>
               \E i \in 1..Len(plan[p]) :
                   plan[p][i] = [id |-> id, deadline |-> records[id].deadline]

IInv ==
    /\ TypeOK
    /\ LockHeld
    /\ JobShape
    /\ ReadThroughIssued
    /\ CounterBeforeCommit
    /\ BackfillState
    /\ EveryRecordSelectable
    /\ MarksWithinIssued

-----------------------------------------------------------------------------
(* Operators.                                                              *)

LEMMA SecType == \A t \in Nat : Sec(t) \in Nat /\ Sec(t) <= Sec(t + 1)
  BY DEF Sec

LEMMA MinOfTwo ==
  ASSUME NEW a \in Nat, NEW b \in Nat
  PROVE  Min({a, b}) = IF a <= b THEN a ELSE b
  BY DEF Min

LEMMA MaxOfTwo ==
  ASSUME NEW a \in Nat, NEW b \in Nat
  PROVE  Max({a, b}) = IF a >= b THEN a ELSE b
  BY DEF Max

\* retentionDeadlineSeconds never exceeds the cap.
LEMMA RetentionDeadlineBounds ==
  ASSUME TypeOK, NEW e \in Envelope
  PROVE  /\ RetentionDeadlineSeconds(e) \in Nat
         /\ RetentionDeadlineSeconds(e) <= Sec(now) + RetentionCap
<1>1. e.expires \in Nat  BY EnvelopeAssumption DEF EnvelopeType
<1>2. Sec(e.expires) \in Nat /\ Sec(now) \in Nat  BY <1>1, SecType DEF TypeOK
<1>3. Sec(now) + RetentionCap \in Nat  BY <1>2, NumbersAssumption
<1> DEFINE m == Min({Sec(e.expires), Sec(now) + RetentionCap})
<1>4. m \in Nat /\ m <= Sec(now) + RetentionCap  BY <1>2, <1>3, MinOfTwo
<1>5. Max({m, Sec(now)}) = IF m >= Sec(now) THEN m ELSE Sec(now)  BY <1>2, <1>4, MaxOfTwo
<1>6. QED  BY <1>2, <1>3, <1>4, <1>5, NumbersAssumption DEF RetentionDeadlineSeconds

LEMMA FunctionIsSequence ==
  ASSUME NEW S, NEW n \in Nat, NEW s \in [1..n -> S]
  PROVE  s \in Seq(S) /\ Len(s) = n /\ DOMAIN s = 1..n
  OBVIOUS

\* A listing covers every stored record and fits the positions.
LEMMA ListingCovers ==
  ASSUME TypeOK, NEW s \in Listing
  PROVE  /\ s \in Seq(IndexEntry)
         /\ Len(s) <= MaxPosition
         /\ \A id \in EnvId : Stored(id) =>
               \E i \in 1..Len(s) : s[i] = [id |-> id, deadline |-> records[id].deadline]
<1> DEFINE ids == {id \in EnvId : Stored(id)}
           entries == {[id |-> id, deadline |-> records[id].deadline] : id \in ids}
<1>1. Cardinality(ids) \in Nat /\ Cardinality(ids) <= MaxPosition
  <2>1. ids \subseteq EnvId  OBVIOUS
  <2>2. IsFiniteSet(ids) /\ Cardinality(ids) <= Cardinality(EnvId)
    BY <2>1, EnvelopeAssumption, FS_Subset
  <2>3. QED  BY <2>2, FS_CardinalityType, EnvelopeAssumption, NumbersAssumption
<1>2. entries \subseteq IndexEntry
  BY DEF Stored, TypeOK, Record, IndexEntry
<1>3. s \in [1..Cardinality(ids) -> entries] /\ IsKeyOrder(s, ids)
  BY DEF Listing
<1>4. s \in Seq(IndexEntry) /\ Len(s) = Cardinality(ids) /\ DOMAIN s = 1..Len(s)
  <2>1. s \in [1..Cardinality(ids) -> IndexEntry]  BY <1>2, <1>3
  <2> HIDE DEF ids
  <2>2. QED  BY <2>1, <1>1, FunctionIsSequence
<1>5. ASSUME NEW id \in EnvId, Stored(id)
      PROVE  \E i \in 1..Len(s) : s[i] = [id |-> id, deadline |-> records[id].deadline]
  <2>1. PICK i \in DOMAIN s : s[i].id = id  BY <1>3, <1>5 DEF IsKeyOrder
  <2>2. s[i] \in entries  BY <1>3, <2>1
  <2>3. PICK x \in ids : s[i] = [id |-> x, deadline |-> records[x].deadline]  BY <2>2
  <2>4. x = id  BY <2>1, <2>3
  <2>5. QED  BY <2>1, <2>3, <2>4, <1>4
<1>6. QED  BY <1>1, <1>4, <1>5

-----------------------------------------------------------------------------
(* Every step preserves the inductive invariant.                           *)

LEMMA NoJobType == NoJob \in Job /\ NoJob.kind = "none"
  BY AbsentAssumption DEF NoJob, Job

LEMMA EmptyIsSequence == <<>> \in Seq(IndexEntry)
  OBVIOUS

LEMMA BatchPositions == \A c, limit : Batch(c, limit) \subseteq Position
  BY DEF Batch, Deliverable

\* What the updates of a request record give.
LEMMA SendJob ==
  ASSUME NEW j \in Job, NEW e \in Envelope
  PROVE  LET k == [j EXCEPT !.kind = "send", !.env = e]
         IN  k \in Job /\ k.kind = "send" /\ k.env = e
  BY DEF Job

LEMMA DeadlineUpdate ==
  ASSUME NEW f \in [Proc -> Job], NEW p \in Proc, NEW x \in Nat,
         NEW g, g = [f EXCEPT ![p].deadline = x]
  PROVE  /\ g \in [Proc -> Job]
         /\ \A q \in Proc : /\ g[q].kind = f[q].kind /\ g[q].env = f[q].env
                            /\ g[q].device = f[q].device /\ g[q].cursor = f[q].cursor
                            /\ g[q].readThrough = f[q].readThrough
  BY DEF Job

LEMMA CursorUpdate ==
  ASSUME NEW f \in [Proc -> Job], NEW p \in Proc, NEW x \in Nat \cup {Absent},
         NEW g, g = [f EXCEPT ![p].cursor = x]
  PROVE  /\ g \in [Proc -> Job]
         /\ g[p].cursor = x
         /\ \A q \in Proc : /\ g[q].kind = f[q].kind /\ g[q].env = f[q].env
                            /\ g[q].device = f[q].device
                            /\ g[q].readThrough = f[q].readThrough
                            /\ q # p => g[q] = f[q]
  BY DEF Job

LEMMA ReadThroughUpdate ==
  ASSUME NEW f \in [Proc -> Job], NEW p \in Proc, NEW x \in Nat \cup {Absent},
         NEW g, g = [f EXCEPT ![p].readThrough = x]
  PROVE  /\ g \in [Proc -> Job]
         /\ \A q \in Proc : /\ g[q].kind = f[q].kind /\ g[q].env = f[q].env
                            /\ g[q].device = f[q].device /\ g[q].cursor = f[q].cursor
                            /\ q # p => g[q] = f[q]
  BY DEF Job

LEMMA IdsUpdate ==
  ASSUME NEW f \in [Proc -> Job], NEW p \in Proc, NEW x \in SUBSET EnvId,
         NEW g, g = [f EXCEPT ![p].ids = x]
  PROVE  /\ g \in [Proc -> Job]
         /\ \A q \in Proc : /\ g[q].kind = f[q].kind /\ g[q].env = f[q].env
                            /\ g[q].device = f[q].device /\ g[q].cursor = f[q].cursor
                            /\ g[q].readThrough = f[q].readThrough
  BY DEF Job

LEMMA SendEnvelopeStep ==
  ASSUME IInv, NEW p \in Proc, NEW e \in Envelope, SendEnvelope(p, e)
  PROVE  IInv'
<1>a. job \in [Proc -> Job] /\ pc \in [Proc -> Steps]  BY DEF IInv, TypeOK
<1>b. PICK k \in Job : job' = [job EXCEPT ![p] = k] /\ k.kind = "send" /\ k.env = e
  <2> DEFINE j == [NoJob EXCEPT !.kind = "send", !.env = e]
  <2>1. j \in Job /\ j.kind = "send" /\ j.env = e  BY NoJobType, SendJob
  <2>2. job' = [job EXCEPT ![p] = j]  BY DEF SendEnvelope
  <2> HIDE DEF j
  <2>3. QED  BY <2>1, <2>2
<1>1. TypeOK'
  BY <1>b DEF IInv, SendEnvelope, Goto, store, TypeOK, Steps
<1>2. LockHeld'
  BY DEF IInv, SendEnvelope, Goto, store, TypeOK, LockHeld
<1>3. JobShape'
  BY <1>b DEF IInv, SendEnvelope, Goto, store, TypeOK, JobShape
<1>4. ReadThroughIssued'
  BY <1>b DEF IInv, SendEnvelope, Goto, store, TypeOK, ReadThroughIssued, HighestIssuedPosition
<1>5. CounterBeforeCommit'
  BY DEF IInv, SendEnvelope, Goto, store, TypeOK, CounterBeforeCommit
<1>6. BackfillState'
  BY DEF IInv, SendEnvelope, Goto, store, TypeOK, BackfillState, Stored
<1>7. EveryRecordSelectable'
  BY DEF IInv, SendEnvelope, Goto, store, TypeOK, EveryRecordSelectable, Stored
<1>8. MarksWithinIssued'
  BY DEF IInv, SendEnvelope, Goto, store, TypeOK, MarksWithinIssued, HighestIssuedPosition
<1>9. QED  BY <1>1, <1>2, <1>3, <1>4, <1>5, <1>6, <1>7, <1>8 DEF IInv

LEMMA EnforceSenderQuotaStep ==
  ASSUME IInv, NEW p \in Proc, EnforceSenderQuota(p)
  PROVE  IInv'
<1>1. TypeOK'
  BY NoJobType DEF IInv, EnforceSenderQuota, Goto, Finish, store, TypeOK, Steps
<1>2. LockHeld'
  BY NoJobType DEF IInv, EnforceSenderQuota, Goto, Finish, store, TypeOK, LockHeld
<1>3. JobShape'
  BY NoJobType DEF IInv, EnforceSenderQuota, Goto, Finish, store, TypeOK, JobShape
<1>4. ReadThroughIssued'
  BY NoJobType DEF IInv, EnforceSenderQuota, Goto, Finish, store, TypeOK, ReadThroughIssued, HighestIssuedPosition
<1>5. CounterBeforeCommit'
  BY NoJobType DEF IInv, EnforceSenderQuota, Goto, Finish, store, TypeOK, CounterBeforeCommit
<1>6. BackfillState'
  BY NoJobType DEF IInv, EnforceSenderQuota, Goto, Finish, store, TypeOK, BackfillState, Stored
<1>7. EveryRecordSelectable'
  BY NoJobType DEF IInv, EnforceSenderQuota, Goto, Finish, store, TypeOK, EveryRecordSelectable, Stored
<1>8. MarksWithinIssued'
  BY NoJobType DEF IInv, EnforceSenderQuota, Goto, Finish, store, TypeOK, MarksWithinIssued, HighestIssuedPosition
<1>9. QED  BY <1>1, <1>2, <1>3, <1>4, <1>5, <1>6, <1>7, <1>8 DEF IInv

LEMMA SaveEnvelopeDeadlineStep ==
  ASSUME IInv, NEW p \in Proc, SaveEnvelopeDeadline(p)
  PROVE  IInv'
<1>a. job \in [Proc -> Job] /\ job[p].env \in Envelope  BY DEF IInv, TypeOK, JobShape, SaveEnvelopeDeadline
<1>b. RetentionDeadlineSeconds(job[p].env) \in Nat  BY <1>a, RetentionDeadlineBounds DEF IInv
<1>c. /\ job' \in [Proc -> Job]
      /\ \A q \in Proc : /\ job'[q].kind = job[q].kind /\ job'[q].env = job[q].env
                         /\ job'[q].device = job[q].device /\ job'[q].cursor = job[q].cursor
                         /\ job'[q].readThrough = job[q].readThrough
  <2> DEFINE x == RetentionDeadlineSeconds(job[p].env)
  <2>1. job' = [job EXCEPT ![p].deadline = x]  BY DEF SaveEnvelopeDeadline
  <2>2. x \in Nat  BY <1>b
  <2> HIDE DEF x
  <2>3. QED  BY <1>a, <2>1, <2>2, DeadlineUpdate
<1>1. TypeOK'
  BY <1>c DEF IInv, SaveEnvelopeDeadline, Goto, store, TypeOK, Steps
<1>2. LockHeld'
  BY DEF IInv, SaveEnvelopeDeadline, Goto, store, TypeOK, LockHeld
<1>3. JobShape'
  BY <1>c DEF IInv, SaveEnvelopeDeadline, Goto, store, TypeOK, JobShape
<1>4. ReadThroughIssued'
  BY <1>c DEF IInv, SaveEnvelopeDeadline, Goto, store, TypeOK, ReadThroughIssued, HighestIssuedPosition
<1>5. CounterBeforeCommit'
  BY DEF IInv, SaveEnvelopeDeadline, Goto, store, TypeOK, CounterBeforeCommit
<1>6. BackfillState'
  BY DEF IInv, SaveEnvelopeDeadline, Goto, store, TypeOK, BackfillState, Stored
<1>7. EveryRecordSelectable'
  BY DEF IInv, SaveEnvelopeDeadline, Goto, store, TypeOK, EveryRecordSelectable, Stored
<1>8. MarksWithinIssued'
  BY DEF IInv, SaveEnvelopeDeadline, Goto, store, TypeOK, MarksWithinIssued, HighestIssuedPosition
<1>9. QED  BY <1>1, <1>2, <1>3, <1>4, <1>5, <1>6, <1>7, <1>8 DEF IInv

LEMMA SaveEnvelopeStep ==
  ASSUME IInv, NEW p \in Proc, SaveEnvelope(p)
  PROVE  IInv'
<1>a. /\ job[p].env \in Envelope /\ job[p].env.id \in EnvId
      /\ job[p].deadline \in Nat /\ job \in [Proc -> Job]
  BY EnvelopeAssumption DEF IInv, TypeOK, JobShape, SaveEnvelope, Job, EnvelopeType
<1>b. next # 0  BY DEF IInv, CounterBeforeCommit, SaveEnvelope
<1> DEFINE id0 == job[p].env.id
           entry == [id |-> id0, deadline |-> job[p].deadline]
<1>c. \/ UNCHANGED <<records, order, next>>
      \/ /\ ~Stored(id0)
         /\ next \in Position
         /\ next' = next + 1
         /\ records' = [records EXCEPT ![id0] = [env |-> job[p].env, deadline |-> job[p].deadline]]
         /\ order' = [order EXCEPT ![next] = entry]
  BY <1>b DEF SaveEnvelope, IInv, TypeOK, Position
<1>1. TypeOK'
  <2>1. job' \in [Proc -> Job] /\ pc' \in [Proc -> Steps]
    BY <1>a, NoJobType DEF SaveEnvelope, Finish, Goto, Steps, IInv, TypeOK
  <2>2. [env |-> job[p].env, deadline |-> job[p].deadline] \in Record /\ entry \in IndexEntry
    BY <1>a DEF Record, IndexEntry
  <2>3. /\ records' \in [EnvId -> Record \cup {Absent}]
        /\ order' \in [Position -> IndexEntry \cup {Absent}]
        /\ next' \in 0..MaxPosition + 1
    <3>1. CASE UNCHANGED <<records, order, next>>  BY <3>1 DEF IInv, TypeOK
    <3>2. CASE ~UNCHANGED <<records, order, next>>
      <4> DEFINE record == [env |-> job[p].env, deadline |-> job[p].deadline]
      <4>1. record \in Record /\ entry \in IndexEntry  BY <2>2
      <4>2. /\ records' = [records EXCEPT ![id0] = record] /\ order' = [order EXCEPT ![next] = entry]
            /\ next' = next + 1 /\ next \in Position
        BY <3>2, <1>c
      <4> HIDE DEF entry, record
      <4>3. records' \in [EnvId -> Record \cup {Absent}]  BY <4>1, <4>2 DEF IInv, TypeOK
      <4>4. order' \in [Position -> IndexEntry \cup {Absent}]  BY <4>1, <4>2 DEF IInv, TypeOK
      <4>5. next' \in 0..MaxPosition + 1  BY <4>2, NumbersAssumption DEF Position
      <4>6. QED  BY <4>3, <4>4, <4>5
    <3>3. QED  BY <3>1, <3>2
  <2>4. QED  BY <2>1, <2>3 DEF SaveEnvelope, IInv, TypeOK
<1>2. LockHeld'
  BY DEF IInv, SaveEnvelope, Goto, Finish, TypeOK, LockHeld
<1>3. JobShape'
  BY NoJobType DEF IInv, SaveEnvelope, Goto, Finish, TypeOK, JobShape
<1>4. ReadThroughIssued'
  <2>1. \A q \in Proc : q # p => job'[q] = job[q] /\ pc'[q] = pc[q]
    BY DEF SaveEnvelope, Finish, Goto, IInv, TypeOK
  <2>2. pc'[p] = "idle"  BY DEF SaveEnvelope, Finish, Goto, IInv, TypeOK
  <2>3. HighestIssuedPosition' >= HighestIssuedPosition
    BY <1>b, <1>c DEF HighestIssuedPosition, IInv, TypeOK, Position
  <2>4. ASSUME NEW q \in Proc, pc'[q] \in {"advance", "delete"}, job'[q].readThrough # Absent
        PROVE  job'[q].readThrough <= HighestIssuedPosition'
    <3>1. q # p  BY <2>2, <2>4
    <3>2. job[q].readThrough \in Nat /\ job[q].readThrough <= HighestIssuedPosition
      BY <2>1, <2>4, <3>1, <1>a DEF IInv, ReadThroughIssued, Job
    <3>3. HighestIssuedPosition \in Nat /\ HighestIssuedPosition' \in Nat
      BY <1>b, <1>c DEF HighestIssuedPosition, IInv, TypeOK, Position
    <3>4. QED  BY <2>1, <2>3, <3>1, <3>2, <3>3
  <2>5. QED  BY <2>4 DEF ReadThroughIssued
<1>5. CounterBeforeCommit'
  BY DEF IInv, SaveEnvelope, Goto, Finish, TypeOK, CounterBeforeCommit
<1>6. BackfillState'
  <2>1. \A q \in Proc : pc'[q] # "backfill"
    BY AbsentAssumption DEF SaveEnvelope, Finish, Goto, IInv, LockHeld, TypeOK
  <2>2. QED  BY <2>1 DEF BackfillState
<1>7. EveryRecordSelectable'
  <2>1. CASE UNCHANGED <<records, order, next>>
    BY <2>1 DEF SaveEnvelope, IInv, EveryRecordSelectable, Stored
  <2>2. CASE ~UNCHANGED <<records, order, next>>
    <3>1. ASSUME NEW id \in EnvId, Stored(id)'
          PROVE  \E i \in Position : /\ i < next'
                     /\ order'[i] = [id |-> id, deadline |-> records'[id].deadline]
      <4>1. CASE id = id0
        <5>1. order'[next] = entry /\ records'[id0].deadline = job[p].deadline
          BY <1>a, <1>c, <2>2 DEF IInv, TypeOK
        <5>2. QED  BY <4>1, <5>1, <1>c, <2>2 DEF Position
      <4>2. CASE id # id0
        <5>1. records'[id] = records[id] /\ Stored(id)
          BY <3>1, <4>2, <1>c, <2>2 DEF SaveEnvelope, Stored, IInv, TypeOK
        <5>2. PICK i \in Position : /\ i < next
                   /\ order[i] = [id |-> id, deadline |-> records[id].deadline]
          BY <5>1, <1>b DEF IInv, EveryRecordSelectable
        <5>3. order'[i] = order[i]  BY <5>2, <1>c, <2>2 DEF IInv, TypeOK
        <5>4. i < next'  BY <5>2, <1>c, <2>2 DEF IInv, TypeOK, Position
        <5>5. QED  BY <5>1, <5>2, <5>3, <5>4
      <4>3. QED  BY <4>1, <4>2
    <3>2. QED  BY <3>1 DEF EveryRecordSelectable
  <2>3. QED  BY <2>1, <2>2
<1>8. MarksWithinIssued'
  <2>1. HighestIssuedPosition' >= HighestIssuedPosition /\ mark' = mark
    BY <1>b, <1>c DEF SaveEnvelope, HighestIssuedPosition, IInv, TypeOK, Position
  <2>2. HighestIssuedPosition \in Nat /\ HighestIssuedPosition' \in Nat
    BY <1>b, <1>c DEF HighestIssuedPosition, IInv, TypeOK, Position
  <2>3. QED  BY <2>1, <2>2 DEF IInv, TypeOK, MarksWithinIssued
<1>9. QED  BY <1>1, <1>2, <1>3, <1>4, <1>5, <1>6, <1>7, <1>8 DEF IInv

LEMMA LockMailboxOrderingStep ==
  ASSUME IInv, NEW p \in Proc, LockMailboxOrdering(p)
  PROVE  IInv'
<1>1. TypeOK'
  BY DEF IInv, LockMailboxOrdering, Goto, store, TypeOK, Steps
<1>2. LockHeld'
  BY AbsentAssumption DEF IInv, LockMailboxOrdering, Goto, store, TypeOK, LockHeld
<1>3. JobShape'
  BY DEF IInv, LockMailboxOrdering, Goto, store, TypeOK, JobShape
<1>4. ReadThroughIssued'
  BY DEF IInv, LockMailboxOrdering, Goto, store, TypeOK, ReadThroughIssued, HighestIssuedPosition
<1>5. CounterBeforeCommit'
  BY DEF IInv, LockMailboxOrdering, Goto, store, TypeOK, CounterBeforeCommit
<1>6. BackfillState'
  BY DEF IInv, LockMailboxOrdering, Goto, store, TypeOK, BackfillState, Stored
<1>7. EveryRecordSelectable'
  BY DEF IInv, LockMailboxOrdering, Goto, store, TypeOK, EveryRecordSelectable, Stored
<1>8. MarksWithinIssued'
  BY DEF IInv, LockMailboxOrdering, Goto, store, TypeOK, MarksWithinIssued, HighestIssuedPosition
<1>9. QED  BY <1>1, <1>2, <1>3, <1>4, <1>5, <1>6, <1>7, <1>8 DEF IInv

LEMMA EnsureMailboxOrderingStep ==
  ASSUME IInv, NEW p \in Proc, EnsureMailboxOrdering(p)
  PROVE  IInv'
<1>a. \/ next # 0 /\ OrderingEnsured(p)
      \/ /\ next = 0
         /\ \E s \in Listing : plan' = [plan EXCEPT ![p] = s]
         /\ written' = [written EXCEPT ![p] = 0]
         /\ pc' = [pc EXCEPT ![p] = "backfill"]
         /\ UNCHANGED lock
  BY DEF EnsureMailboxOrdering, Goto
<1>b. \A s \in Listing : /\ s \in Seq(IndexEntry)
                         /\ Len(s) <= MaxPosition
                         /\ \A id \in EnvId : Stored(id) =>
                               \E i \in 1..Len(s) :
                                  s[i] = [id |-> id, deadline |-> records[id].deadline]
  BY ListingCovers DEF IInv
<1>1. TypeOK'
  <2>1. plan' \in [Proc -> Seq(IndexEntry)] /\ written' \in [Proc -> Nat]
    <3>1. PICK s \in Seq(IndexEntry) : plan' = [plan EXCEPT ![p] = s]
      BY <1>a, <1>b, EmptyIsSequence DEF OrderingEnsured
    <3>2. written' = [written EXCEPT ![p] = 0]  BY <1>a DEF OrderingEnsured
    <3>3. QED  BY <3>1, <3>2 DEF IInv, TypeOK
  <2>2. pc' \in [Proc -> Steps] /\ lock' \in Proc \cup {Absent}
    BY <1>a DEF IInv, TypeOK, OrderingEnsured, Goto, Steps
  <2>3. QED  BY <2>1, <2>2 DEF EnsureMailboxOrdering, store, IInv, TypeOK
<1>2. LockHeld'
  BY DEF IInv, EnsureMailboxOrdering, Goto, OrderingEnsured, store, TypeOK, LockHeld
<1>3. JobShape'
  BY DEF IInv, EnsureMailboxOrdering, Goto, OrderingEnsured, store, TypeOK, JobShape
<1>4. ReadThroughIssued'
  BY DEF IInv, EnsureMailboxOrdering, Goto, OrderingEnsured, store, TypeOK, ReadThroughIssued, HighestIssuedPosition
<1>5. CounterBeforeCommit'
  BY DEF IInv, EnsureMailboxOrdering, Goto, OrderingEnsured, store, TypeOK, CounterBeforeCommit
<1>6. BackfillState'
  <2>1. UNCHANGED <<now, records, order, next>>  BY DEF EnsureMailboxOrdering, store
  <2>2. \A id \in EnvId : Stored(id)' <=> Stored(id)  BY <2>1 DEF Stored
  <2>3. ASSUME NEW q \in Proc, pc'[q] = "backfill"
        PROVE  q = p /\ next = 0
    BY <2>3, <1>a, AbsentAssumption
       DEF EnsureMailboxOrdering, OrderingEnsured, Goto, IInv, TypeOK, LockHeld
  <2>4. ASSUME pc'[p] = "backfill"
        PROVE  /\ plan'[p] \in Listing /\ written'[p] = 0 /\ Len(plan'[p]) \in Nat
    BY <2>4, <1>a, <1>b DEF OrderingEnsured, Goto, IInv, TypeOK
  <2>5. QED  BY <1>b, <2>1, <2>2, <2>3, <2>4 DEF BackfillState
<1>7. EveryRecordSelectable'
  BY DEF IInv, EnsureMailboxOrdering, Goto, OrderingEnsured, store, TypeOK, EveryRecordSelectable, Stored
<1>8. MarksWithinIssued'
  BY DEF IInv, EnsureMailboxOrdering, Goto, OrderingEnsured, store, TypeOK, MarksWithinIssued, HighestIssuedPosition
<1>9. QED  BY <1>1, <1>2, <1>3, <1>4, <1>5, <1>6, <1>7, <1>8 DEF IInv

LEMMA BackfillBatchWriteStep ==
  ASSUME IInv, NEW p \in Proc, BackfillBatchWrite(p)
  PROVE  IInv'
<1>a. /\ next = 0 /\ Len(plan[p]) <= MaxPosition /\ lock = p
      /\ \A i \in 1..written[p] : order[i] = plan[p][i]
      /\ \A id \in EnvId : Stored(id) =>
            \E i \in 1..Len(plan[p]) : plan[p][i] = [id |-> id, deadline |-> records[id].deadline]
  BY DEF IInv, BackfillState, LockHeld, BackfillBatchWrite
<1>b. plan[p] \in Seq(IndexEntry) /\ Len(plan[p]) \in Nat /\ written[p] \in Nat
  BY DEF IInv, TypeOK
<1> DEFINE upTo == Min({written[p] + BackfillBatch, Len(plan[p])})
<1>c. upTo \in Nat /\ upTo <= Len(plan[p]) /\ written[p] <= upTo
  <2>1. written[p] + BackfillBatch \in Nat  BY <1>b, NumbersAssumption
  <2>2. upTo = IF written[p] + BackfillBatch <= Len(plan[p])
               THEN written[p] + BackfillBatch ELSE Len(plan[p])
    BY <1>b, <2>1, MinOfTwo
  <2>3. written[p] < Len(plan[p])  BY DEF BackfillBatchWrite
  <2> HIDE DEF upTo
  <2>4. QED  BY <1>b, <2>2, <2>3, NumbersAssumption
<1>d. /\ order' = [i \in Position |-> IF written[p] < i /\ i <= upTo THEN plan[p][i] ELSE order[i]]
      /\ written' = [written EXCEPT ![p] = upTo]
      /\ UNCHANGED <<now, records, next, mark, lock, pc, job, plan, tokens>>
  BY DEF BackfillBatchWrite
<1> HIDE DEF upTo
<1>1. TypeOK'
  <2>1. \A i \in Position : (written[p] < i /\ i <= upTo) => plan[p][i] \in IndexEntry
    BY <1>b, <1>c DEF Position
  <2>2. order' \in [Position -> IndexEntry \cup {Absent}]  BY <1>d, <2>1 DEF IInv, TypeOK
  <2>3. QED  BY <1>c, <1>d, <2>2 DEF IInv, TypeOK
<1>2. LockHeld'
  BY <1>d DEF IInv, TypeOK, LockHeld
<1>3. JobShape'
  BY <1>d DEF IInv, TypeOK, JobShape
<1>4. ReadThroughIssued'
  BY <1>d DEF IInv, TypeOK, ReadThroughIssued, HighestIssuedPosition
<1>5. CounterBeforeCommit'
  BY <1>d DEF IInv, TypeOK, CounterBeforeCommit
<1>6. BackfillState'
  <2>1. \A q \in Proc : pc'[q] = "backfill" => q = p
    BY <1>d DEF IInv, LockHeld, BackfillBatchWrite
  <2>2. \A i \in 1..upTo : order'[i] = plan[p][i]
    <3>1. ASSUME NEW i \in 1..upTo PROVE order'[i] = plan[p][i]
      <4>1. i \in Position  BY <1>a, <1>b, <1>c, NumbersAssumption DEF Position
      <4>2. CASE i <= written[p]  BY <4>1, <4>2, <1>a, <1>b, <1>d
      <4>3. CASE i > written[p]  BY <4>1, <4>3, <1>b, <1>c, <1>d
      <4>4. QED  BY <4>2, <4>3, <1>b, <1>c
    <3>2. QED  BY <3>1
  <2>3. \A id \in EnvId : Stored(id)' <=> Stored(id)  BY <1>d DEF Stored
  <2>4. written'[p] = upTo /\ plan'[p] = plan[p]  BY <1>d DEF IInv, TypeOK
  <2>5. \A id \in EnvId : Stored(id)' =>
            \E i \in 1..Len(plan'[p]) : plan'[p][i] = [id |-> id, deadline |-> records'[id].deadline]
    BY <1>a, <1>d, <2>3, <2>4
  <2>6. next' = 0 /\ Len(plan'[p]) <= MaxPosition /\ written'[p] <= Len(plan'[p])
    BY <1>a, <1>c, <1>d, <2>4
  <2>7. \A i \in 1..written'[p] : order'[i] = plan'[p][i]  BY <2>2, <2>4
  <2>8. QED  BY <2>1, <2>5, <2>6, <2>7 DEF BackfillState
<1>7. EveryRecordSelectable'
  BY <1>a, <1>d DEF EveryRecordSelectable
<1>8. MarksWithinIssued'
  BY <1>d DEF IInv, TypeOK, MarksWithinIssued, HighestIssuedPosition
<1>9. QED  BY <1>1, <1>2, <1>3, <1>4, <1>5, <1>6, <1>7, <1>8 DEF IInv

LEMMA BackfillCounterStep ==
  ASSUME IInv, NEW p \in Proc, BackfillCounter(p)
  PROVE  IInv'
<1>a. /\ next = 0 /\ Len(plan[p]) <= MaxPosition /\ lock = p
      /\ \A i \in 1..written[p] : order[i] = plan[p][i]
      /\ \A id \in EnvId : Stored(id) =>
            \E i \in 1..Len(plan[p]) : plan[p][i] = [id |-> id, deadline |-> records[id].deadline]
  BY DEF IInv, BackfillState, LockHeld, BackfillCounter
<1>b. plan[p] \in Seq(IndexEntry) /\ Len(plan[p]) \in Nat /\ written[p] \in Nat
  BY DEF IInv, TypeOK
<1>c. next' = Len(plan[p]) + 1 /\ written[p] = Len(plan[p])  BY <1>a DEF BackfillCounter
<1>d. UNCHANGED <<now, records, order, mark, job, tokens>>  BY DEF BackfillCounter
<1>e. HighestIssuedPosition = 0 /\ HighestIssuedPosition' = Len(plan[p])
  BY <1>a, <1>b, <1>c DEF HighestIssuedPosition
<1>1. TypeOK'
  <2>1. plan' \in [Proc -> Seq(IndexEntry)] /\ written' \in [Proc -> Nat]
    BY EmptyIsSequence DEF BackfillCounter, IInv, TypeOK, OrderingEnsured
  <2>2. pc' \in [Proc -> Steps] /\ lock' \in Proc \cup {Absent}
    BY DEF BackfillCounter, IInv, TypeOK, OrderingEnsured, Goto, Steps
  <2>3. next' \in 0..MaxPosition + 1  BY <1>a, <1>b, <1>c, NumbersAssumption
  <2>4. QED  BY <1>d, <2>1, <2>2, <2>3 DEF IInv, TypeOK
<1>2. LockHeld'
  BY DEF IInv, BackfillCounter, Goto, OrderingEnsured, TypeOK, LockHeld
<1>3. JobShape'
  BY DEF IInv, BackfillCounter, Goto, OrderingEnsured, TypeOK, JobShape
<1>4. ReadThroughIssued'
  <2>1. \A q \in Proc : pc'[q] \in {"advance", "delete"} => pc[q] = pc'[q]
    BY DEF BackfillCounter, OrderingEnsured, Goto, IInv, TypeOK
  <2>2. ASSUME NEW q \in Proc, pc'[q] \in {"advance", "delete"}, job[q].readThrough # Absent
        PROVE  job[q].readThrough <= HighestIssuedPosition'
    <3>1. job[q].readThrough \in Nat  BY <2>2 DEF IInv, TypeOK, Job
    <3>2. job[q].readThrough <= 0  BY <1>e, <2>1, <2>2 DEF IInv, ReadThroughIssued
    <3>3. QED  BY <3>1, <3>2, <1>b, <1>e
  <2>3. QED  BY <1>d, <2>2 DEF ReadThroughIssued
<1>5. CounterBeforeCommit'
  BY <1>b, <1>c DEF CounterBeforeCommit
<1>6. BackfillState'
  <2>1. \A q \in Proc : pc'[q] # "backfill"
    BY <1>a, AbsentAssumption DEF BackfillCounter, OrderingEnsured, Goto, IInv, LockHeld, TypeOK
  <2>2. QED  BY <2>1 DEF BackfillState
<1>7. EveryRecordSelectable'
  <2>1. ASSUME NEW id \in EnvId, Stored(id)'
        PROVE  \E i \in Position : /\ i < next'
                   /\ order'[i] = [id |-> id, deadline |-> records'[id].deadline]
    <3>1. Stored(id)  BY <2>1, <1>d DEF Stored
    <3>2. PICK i \in 1..Len(plan[p]) : plan[p][i] = [id |-> id, deadline |-> records[id].deadline]
      BY <3>1, <1>a
    <3>3. i \in Position /\ i < next'  BY <1>a, <1>b, <1>c, NumbersAssumption DEF Position
    <3>4. order[i] = plan[p][i]  BY <1>a, <1>c
    <3>5. QED  BY <1>d, <3>2, <3>3, <3>4
  <2>2. QED  BY <2>1 DEF EveryRecordSelectable
<1>8. MarksWithinIssued'
  BY <1>b, <1>d, <1>e DEF IInv, TypeOK, MarksWithinIssued
<1>9. QED  BY <1>1, <1>2, <1>3, <1>4, <1>5, <1>6, <1>7, <1>8 DEF IInv

LEMMA PollMailboxStep ==
  ASSUME IInv, NEW p \in Proc, NEW d \in Device,
         NEW c \in Cursor, NEW rt \in ReadThrough, PollMailbox(p, d, c, rt)
  PROVE  IInv'
<1>a. c \in Nat \cup {Absent} /\ rt \in Nat \cup {Absent}
  BY TokenAssumption
<1>b. PICK k \in Job : /\ job' = [job EXCEPT ![p] = k]
                       /\ k.kind = "poll" /\ k.device = d /\ k.readThrough = rt
  <2> DEFINE j == [NoJob EXCEPT !.kind = "poll", !.device = d, !.cursor = c, !.readThrough = rt]
  <2>0. j = [NoJob EXCEPT !.kind = "poll", !.device = d, !.cursor = c, !.readThrough = rt]  OBVIOUS
  <2>2. job' = [job EXCEPT ![p] = j]  BY DEF PollMailbox
  <2> HIDE DEF j
  <2>1. j \in Job /\ j.kind = "poll" /\ j.device = d /\ j.readThrough = rt  BY <2>0, <1>a, NoJobType DEF Job
  <2>3. QED  BY <2>1, <2>2
<1>c. rt # Absent => rt <= HighestIssuedPosition  BY DEF PollMailbox, ReadThroughWithinIssued
<1>1. TypeOK'
  BY <1>b DEF IInv, PollMailbox, Goto, store, TypeOK, Steps
<1>2. LockHeld'
  BY DEF IInv, PollMailbox, Goto, store, TypeOK, LockHeld
<1>3. JobShape'
  BY <1>a, <1>b DEF IInv, PollMailbox, Goto, store, TypeOK, JobShape
<1>4. ReadThroughIssued'
  BY <1>b, <1>c DEF IInv, PollMailbox, Goto, store, TypeOK, ReadThroughIssued, HighestIssuedPosition
<1>5. CounterBeforeCommit'
  BY DEF IInv, PollMailbox, Goto, store, TypeOK, CounterBeforeCommit
<1>6. BackfillState'
  BY DEF IInv, PollMailbox, Goto, store, TypeOK, BackfillState, Stored
<1>7. EveryRecordSelectable'
  BY DEF IInv, PollMailbox, Goto, store, TypeOK, EveryRecordSelectable, Stored
<1>8. MarksWithinIssued'
  BY DEF IInv, PollMailbox, Goto, store, TypeOK, MarksWithinIssued, HighestIssuedPosition
<1>9. QED  BY <1>1, <1>2, <1>3, <1>4, <1>5, <1>6, <1>7, <1>8 DEF IInv

LEMMA AdvanceReadMarkStep ==
  ASSUME IInv, NEW p \in Proc, AdvanceReadMark(p)
  PROVE  IInv'
<1>a. job[p].device \in Device /\ job[p].readThrough \in Nat
  BY DEF IInv, JobShape, AdvanceReadMark
<1>b. job \in [Proc -> Job] /\ pc \in [Proc -> Steps]  BY DEF IInv, TypeOK
<1>c. \/ /\ job[p].kind = "poll" /\ pc' = [pc EXCEPT ![p] = "cursor"]
         /\ job' = [job EXCEPT ![p].readThrough = Absent]
      \/ pc' = [pc EXCEPT ![p] = "idle"] /\ job' = [job EXCEPT ![p] = NoJob]
  BY DEF AdvanceReadMark, Finish, Goto
<1>d. job' \in [Proc -> Job]  BY <1>b, <1>c, NoJobType, ReadThroughUpdate
<1>e. UNCHANGED <<now, records, order, next, lock, plan, written, tokens>>
  BY DEF AdvanceReadMark
<1>f. \A q \in Proc : q # p => job'[q] = job[q] /\ pc'[q] = pc[q]  BY <1>b, <1>c
<1>g. pc'[p] \in {"cursor", "idle"}  BY <1>b, <1>c
<1>1. TypeOK'
  <2>1. Sec(now) + MarkTTL \in Nat
    <3>1. now \in Nat  BY DEF IInv, TypeOK
    <3>2. Sec(now) \in Nat  BY <3>1, SecType
    <3>3. QED  BY <3>2, NumbersAssumption
  <2>2. mark' \in [Device -> [pos: Nat, deadline: Nat]]
    BY <1>a, <2>1 DEF AdvanceReadMark, IInv, TypeOK
  <2>3. QED  BY <1>c, <1>d, <1>e, <2>2 DEF IInv, TypeOK, Steps
<1>2. LockHeld'
  BY <1>e, <1>f, <1>g DEF IInv, LockHeld
<1>3. JobShape'
  <2>1. /\ job'[p].kind = "send" => job'[p].env \in Envelope
        /\ job'[p].kind \in {"poll", "ack"} => job'[p].device \in Device
        /\ pc'[p] = "cursor" => job'[p].kind = "poll"
    <3>1. CASE job' = [job EXCEPT ![p].readThrough = Absent] /\ job[p].kind = "poll"
      <4>1. job'[p].kind = "poll" /\ job'[p].device = job[p].device
        BY <1>b, <3>1, ReadThroughUpdate
      <4>2. QED  BY <1>a, <4>1
    <3>2. CASE pc' = [pc EXCEPT ![p] = "idle"] /\ job' = [job EXCEPT ![p] = NoJob]
      BY <1>b, <3>2, NoJobType
    <3>3. QED  BY <1>c, <3>1, <3>2
  <2>2. QED  BY <1>f, <1>g, <2>1 DEF IInv, JobShape
<1>4. ReadThroughIssued'
  BY <1>e, <1>f, <1>g DEF IInv, ReadThroughIssued, HighestIssuedPosition
<1>5. CounterBeforeCommit'
  BY <1>e, <1>f, <1>g DEF IInv, CounterBeforeCommit
<1>6. BackfillState'
  <2>1. \A q \in Proc : pc'[q] = "backfill" => q # p /\ pc[q] = "backfill"  BY <1>f, <1>g
  <2>2. QED  BY <1>e, <2>1 DEF IInv, BackfillState, Stored
<1>7. EveryRecordSelectable'
  BY <1>e DEF IInv, EveryRecordSelectable, Stored
<1>8. MarksWithinIssued'
  <2>1. job[p].readThrough <= HighestIssuedPosition
    BY <1>a, AbsentAssumption DEF IInv, ReadThroughIssued, AdvanceReadMark
  <2>2. HighestIssuedPosition' = HighestIssuedPosition  BY <1>e DEF HighestIssuedPosition
  <2>3. \A d \in Device : mark'[d].pos = mark[d].pos \/ mark'[d].pos = job[p].readThrough
    BY <1>a DEF AdvanceReadMark, IInv, TypeOK
  <2>4. QED  BY <2>1, <2>2, <2>3 DEF IInv, MarksWithinIssued
<1>9. QED  BY <1>1, <1>2, <1>3, <1>4, <1>5, <1>6, <1>7, <1>8 DEF IInv

LEMMA ResolveCursorStep ==
  ASSUME IInv, NEW p \in Proc, ResolveCursor(p)
  PROVE  IInv'
<1>a. job \in [Proc -> Job] /\ job[p].device \in Device  BY DEF IInv, TypeOK, JobShape, ResolveCursor
<1> DEFINE c == IF job[p].cursor = Absent THEN ReadMark(job[p].device) ELSE job[p].cursor
<1>b. c \in Nat
  <2>1. ReadMark(job[p].device) \in Nat  BY <1>a DEF ReadMark, IInv, TypeOK
  <2>2. job[p].cursor \in Nat \cup {Absent}  BY <1>a DEF Job
  <2>3. QED  BY <2>1, <2>2
<1>c. job' = [job EXCEPT ![p].cursor = c]  BY DEF ResolveCursor
<1> HIDE DEF c
<1>d. /\ job' \in [Proc -> Job] /\ job'[p].cursor = c
      /\ \A q \in Proc : /\ job'[q].kind = job[q].kind /\ job'[q].env = job[q].env
                         /\ job'[q].device = job[q].device
                         /\ job'[q].readThrough = job[q].readThrough
                         /\ q # p => job'[q] = job[q]
  BY <1>a, <1>b, <1>c, CursorUpdate
<1>1. TypeOK'
  BY <1>d DEF IInv, ResolveCursor, Goto, store, TypeOK, Steps
<1>2. LockHeld'
  BY DEF IInv, ResolveCursor, Goto, store, TypeOK, LockHeld
<1>3. JobShape'
  BY <1>b, <1>d DEF IInv, ResolveCursor, Goto, store, TypeOK, JobShape
<1>4. ReadThroughIssued'
  BY <1>d DEF IInv, ResolveCursor, Goto, store, TypeOK, ReadThroughIssued, HighestIssuedPosition
<1>5. CounterBeforeCommit'
  BY DEF IInv, ResolveCursor, Goto, store, TypeOK, CounterBeforeCommit
<1>6. BackfillState'
  BY DEF IInv, ResolveCursor, Goto, store, TypeOK, BackfillState, Stored
<1>7. EveryRecordSelectable'
  BY DEF IInv, ResolveCursor, Goto, store, TypeOK, EveryRecordSelectable, Stored
<1>8. MarksWithinIssued'
  BY DEF IInv, ResolveCursor, Goto, store, TypeOK, MarksWithinIssued, HighestIssuedPosition
<1>9. QED  BY <1>1, <1>2, <1>3, <1>4, <1>5, <1>6, <1>7, <1>8 DEF IInv

LEMMA GetEnvelopeBatchFromStep ==
  ASSUME IInv, NEW p \in Proc, GetEnvelopeBatchFrom(p)
  PROVE  IInv'
<1>a. UNCHANGED <<now, records, order, next, mark, lock, plan, written>>
  BY DEF GetEnvelopeBatchFrom, store
<1>b. pc' = [pc EXCEPT ![p] = "idle"] /\ job' = [job EXCEPT ![p] = NoJob]
  BY DEF GetEnvelopeBatchFrom, Finish, Goto
<1>1. TypeOK'
  <2>1. tokens' \in Nat
    <3>1. CASE tokens' = tokens  BY <3>1 DEF IInv, TypeOK
    <3>2. CASE tokens' # tokens
      <4>1. PICK limit \in 1..BatchLimit :
              \E last \in Batch(job[p].cursor, limit) :
                 tokens' = IF last > tokens THEN last ELSE tokens
        BY <3>2 DEF GetEnvelopeBatchFrom
      <4>2. PICK last \in Batch(job[p].cursor, limit) :
              tokens' = IF last > tokens THEN last ELSE tokens
        BY <4>1
      <4>3. last \in Nat  BY BatchPositions, NumbersAssumption DEF Position
      <4>4. QED  BY <4>2, <4>3 DEF IInv, TypeOK
    <3>3. QED  BY <3>1, <3>2
  <2>2. QED  BY <1>a, <1>b, <2>1, NoJobType DEF IInv, TypeOK, Steps
<1>2. LockHeld'
  BY <1>a, <1>b DEF IInv, TypeOK, LockHeld
<1>3. JobShape'
  BY <1>b, NoJobType DEF IInv, TypeOK, JobShape
<1>4. ReadThroughIssued'
  BY <1>a, <1>b DEF IInv, TypeOK, ReadThroughIssued, HighestIssuedPosition
<1>5. CounterBeforeCommit'
  BY <1>a, <1>b DEF IInv, TypeOK, CounterBeforeCommit
<1>6. BackfillState'
  BY <1>a, <1>b DEF IInv, TypeOK, BackfillState, Stored
<1>7. EveryRecordSelectable'
  BY <1>a DEF IInv, EveryRecordSelectable, Stored
<1>8. MarksWithinIssued'
  BY <1>a DEF IInv, MarksWithinIssued, HighestIssuedPosition
<1>9. QED  BY <1>1, <1>2, <1>3, <1>4, <1>5, <1>6, <1>7, <1>8 DEF IInv

LEMMA AckMailboxStep ==
  ASSUME IInv, NEW p \in Proc, NEW d \in Device,
         NEW ids \in SUBSET EnvId, NEW rt \in ReadThrough, AckMailbox(p, d, ids, rt)
  PROVE  IInv'
<1>a. rt \in Nat \cup {Absent}  BY TokenAssumption
<1>b. PICK k \in Job : /\ job' = [job EXCEPT ![p] = k]
                       /\ k.kind = "ack" /\ k.device = d /\ k.readThrough = rt
  <2> DEFINE j == [NoJob EXCEPT !.kind = "ack", !.device = d, !.ids = ids, !.readThrough = rt]
  <2>0. j = [NoJob EXCEPT !.kind = "ack", !.device = d, !.ids = ids, !.readThrough = rt]  OBVIOUS
  <2>2. job' = [job EXCEPT ![p] = j]  BY DEF AckMailbox
  <2> HIDE DEF j
  <2>1. j \in Job /\ j.kind = "ack" /\ j.device = d /\ j.readThrough = rt  BY <2>0, <1>a, NoJobType DEF Job
  <2>3. QED  BY <2>1, <2>2
<1>c. rt # Absent => rt <= HighestIssuedPosition  BY DEF AckMailbox, ReadThroughWithinIssued
<1>1. TypeOK'
  BY <1>b DEF IInv, AckMailbox, Goto, store, TypeOK, Steps
<1>2. LockHeld'
  BY DEF IInv, AckMailbox, Goto, store, TypeOK, LockHeld
<1>3. JobShape'
  BY <1>a, <1>b DEF IInv, AckMailbox, Goto, store, TypeOK, JobShape
<1>4. ReadThroughIssued'
  BY <1>b, <1>c DEF IInv, AckMailbox, Goto, store, TypeOK, ReadThroughIssued, HighestIssuedPosition
<1>5. CounterBeforeCommit'
  BY DEF IInv, AckMailbox, Goto, store, TypeOK, CounterBeforeCommit
<1>6. BackfillState'
  BY DEF IInv, AckMailbox, Goto, store, TypeOK, BackfillState, Stored
<1>7. EveryRecordSelectable'
  BY DEF IInv, AckMailbox, Goto, store, TypeOK, EveryRecordSelectable, Stored
<1>8. MarksWithinIssued'
  BY DEF IInv, AckMailbox, Goto, store, TypeOK, MarksWithinIssued, HighestIssuedPosition
<1>9. QED  BY <1>1, <1>2, <1>3, <1>4, <1>5, <1>6, <1>7, <1>8 DEF IInv

LEMMA DeleteEnvelopeStep ==
  ASSUME IInv, NEW p \in Proc, DeleteEnvelope(p)
  PROVE  IInv'
<1>a. job \in [Proc -> Job] /\ job[p].ids \in SUBSET EnvId  BY DEF IInv, TypeOK, Job
<1>b. PICK id \in job[p].ids : /\ records' = [records EXCEPT ![id] = Absent]
                               /\ job' = [job EXCEPT ![p].ids = @ \ {id}]
  BY DEF DeleteEnvelope
<1> DEFINE rest == job[p].ids \ {id}
<1>c. job' = [job EXCEPT ![p].ids = rest] /\ rest \in SUBSET EnvId  BY <1>a, <1>b
<1> HIDE DEF rest
<1>d. /\ job' \in [Proc -> Job]
      /\ \A q \in Proc : /\ job'[q].kind = job[q].kind /\ job'[q].env = job[q].env
                         /\ job'[q].device = job[q].device /\ job'[q].cursor = job[q].cursor
                         /\ job'[q].readThrough = job[q].readThrough
  BY <1>a, <1>c, IdsUpdate
<1>e. UNCHANGED <<now, order, next, mark, lock, pc, plan, written, tokens>>  BY DEF DeleteEnvelope
<1>f. \A x \in EnvId : Stored(x)' => Stored(x) /\ records'[x] = records[x]
  BY <1>b, <1>e DEF IInv, TypeOK, Stored
<1>1. TypeOK'
  <2>1. records' \in [EnvId -> Record \cup {Absent}]  BY <1>a, <1>b DEF IInv, TypeOK
  <2>2. QED  BY <1>d, <1>e, <2>1 DEF IInv, TypeOK
<1>2. LockHeld'
  BY <1>e DEF IInv, LockHeld
<1>3. JobShape'
  BY <1>d, <1>e DEF IInv, JobShape
<1>4. ReadThroughIssued'
  BY <1>d, <1>e DEF IInv, ReadThroughIssued, HighestIssuedPosition
<1>5. CounterBeforeCommit'
  BY <1>e DEF IInv, CounterBeforeCommit
<1>6. BackfillState'
  BY <1>e, <1>f DEF IInv, BackfillState
<1>7. EveryRecordSelectable'
  BY <1>e, <1>f DEF IInv, EveryRecordSelectable
<1>8. MarksWithinIssued'
  BY <1>e DEF IInv, MarksWithinIssued, HighestIssuedPosition
<1>9. QED  BY <1>1, <1>2, <1>3, <1>4, <1>5, <1>6, <1>7, <1>8 DEF IInv

LEMMA EnvelopesAckedStep ==
  ASSUME IInv, NEW p \in Proc, EnvelopesAcked(p)
  PROVE  IInv'
<1>1. TypeOK'
  BY NoJobType DEF IInv, EnvelopesAcked, Goto, Finish, store, TypeOK, Steps
<1>2. LockHeld'
  BY DEF IInv, EnvelopesAcked, Goto, Finish, store, TypeOK, LockHeld
<1>3. JobShape'
  <2>1. job \in [Proc -> Job] /\ pc \in [Proc -> Steps] /\ job[p].kind = "ack"
    BY DEF IInv, TypeOK, JobShape, EnvelopesAcked
  <2>2. job[p].readThrough \in Nat \cup {Absent}  BY <2>1 DEF Job
  <2>3. QED  BY <2>1, <2>2, NoJobType DEF EnvelopesAcked, Finish, Goto, IInv, JobShape
<1>4. ReadThroughIssued'
  BY DEF IInv, EnvelopesAcked, Goto, Finish, store, TypeOK, ReadThroughIssued, HighestIssuedPosition
<1>5. CounterBeforeCommit'
  BY DEF IInv, EnvelopesAcked, Goto, Finish, store, TypeOK, CounterBeforeCommit
<1>6. BackfillState'
  BY DEF IInv, EnvelopesAcked, Goto, Finish, store, TypeOK, BackfillState, Stored
<1>7. EveryRecordSelectable'
  BY DEF IInv, EnvelopesAcked, Goto, Finish, store, TypeOK, EveryRecordSelectable, Stored
<1>8. MarksWithinIssued'
  BY DEF IInv, EnvelopesAcked, Goto, Finish, store, TypeOK, MarksWithinIssued, HighestIssuedPosition
<1>9. QED  BY <1>1, <1>2, <1>3, <1>4, <1>5, <1>6, <1>7, <1>8 DEF IInv

LEMMA StorageErrorStep ==
  ASSUME IInv, NEW p \in Proc, StorageError(p)
  PROVE  IInv'
<1>1. TypeOK'
  BY NoJobType, EmptyIsSequence DEF IInv, StorageError, Goto, Finish, store, TypeOK, Steps
<1>2. LockHeld'
  BY DEF IInv, StorageError, Goto, Finish, store, TypeOK, LockHeld
<1>3. JobShape'
  BY NoJobType DEF IInv, StorageError, Goto, Finish, store, TypeOK, JobShape
<1>4. ReadThroughIssued'
  BY DEF IInv, StorageError, Goto, Finish, store, TypeOK, ReadThroughIssued, HighestIssuedPosition
<1>5. CounterBeforeCommit'
  BY DEF IInv, StorageError, Goto, Finish, store, TypeOK, CounterBeforeCommit
<1>6. BackfillState'
  BY DEF IInv, StorageError, Goto, Finish, store, TypeOK, BackfillState, Stored
<1>7. EveryRecordSelectable'
  BY DEF IInv, StorageError, Goto, Finish, store, TypeOK, EveryRecordSelectable, Stored
<1>8. MarksWithinIssued'
  BY DEF IInv, StorageError, Goto, Finish, store, TypeOK, MarksWithinIssued, HighestIssuedPosition
<1>9. QED  BY <1>1, <1>2, <1>3, <1>4, <1>5, <1>6, <1>7, <1>8 DEF IInv


\* Time passes: what is stored can only disappear from view.
LEMMA TickStep ==
  ASSUME IInv, Tick
  PROVE  IInv'
<1>1. /\ now \in Nat /\ now' = now + 1
      /\ UNCHANGED <<records, order, next, mark, lock, pc, job, plan, written, tokens>>
  BY DEF Tick, store, IInv, TypeOK
<1>2. Sec(now) \in Nat /\ Sec(now') \in Nat /\ Sec(now) <= Sec(now')
  BY <1>1, SecType
<1>3. \A id \in EnvId : Stored(id)' => Stored(id)
  <2>1. ASSUME NEW id \in EnvId, Stored(id)'
        PROVE  Stored(id)
    <3>1. records[id] # Absent /\ records[id].deadline > Sec(now')  BY <1>1, <2>1 DEF Stored
    <3>2. records[id].deadline \in Nat  BY <3>1 DEF IInv, TypeOK, Record
    <3>3. QED  BY <1>2, <3>1, <3>2 DEF Stored
  <2>2. QED  BY <2>1
<1>4. TypeOK'  BY <1>1 DEF IInv, TypeOK
<1>5. LockHeld' /\ JobShape' /\ CounterBeforeCommit'
  BY <1>1 DEF IInv, LockHeld, JobShape, CounterBeforeCommit
<1>6. ReadThroughIssued' /\ MarksWithinIssued'
  BY <1>1 DEF IInv, ReadThroughIssued, MarksWithinIssued, HighestIssuedPosition
<1>7. BackfillState'  BY <1>1, <1>3 DEF IInv, BackfillState
<1>8. EveryRecordSelectable'  BY <1>1, <1>3 DEF IInv, EveryRecordSelectable
<1>9. QED  BY <1>4, <1>5, <1>6, <1>7, <1>8 DEF IInv

LEMMA RestartStep ==
  ASSUME IInv, Restart
  PROVE  IInv'
<1>1. UNCHANGED <<now, records, order, next, mark, tokens>>  BY DEF Restart, store
<1>2. \A p \in Proc : pc'[p] = "idle" /\ job'[p] = NoJob  BY DEF Restart
<1>3. TypeOK'  BY NoJobType, EmptyIsSequence DEF Restart, store, IInv, TypeOK, Steps
<1>4. LockHeld' /\ CounterBeforeCommit' /\ ReadThroughIssued' /\ BackfillState'
  BY <1>2 DEF LockHeld, CounterBeforeCommit, ReadThroughIssued, BackfillState
<1>5. JobShape'  BY <1>2, NoJobType DEF JobShape
<1>6. MarksWithinIssued'  BY <1>1 DEF IInv, MarksWithinIssued, HighestIssuedPosition
<1>7. EveryRecordSelectable'  BY <1>1 DEF IInv, EveryRecordSelectable, Stored
<1>8. QED  BY <1>3, <1>4, <1>5, <1>6, <1>7 DEF IInv

LEMMA InitIInv == Init => IInv
<1> SUFFICES ASSUME Init PROVE IInv
  OBVIOUS
<1>1. records \in [EnvId -> Record \cup {Absent}]
  <2>1. ASSUME NEW id \in EnvId, \E e \in Legacy : e.id = id
        PROVE  records[id] \in Record
    <3> DEFINE e == CHOOSE e \in Legacy : e.id = id
    <3>1. e \in Envelope  BY <2>1, EnvelopeAssumption
    <3>2. RetentionDeadlineSeconds(e) \in Nat
      <4>1. e.expires \in Nat  BY <3>1, EnvelopeAssumption DEF EnvelopeType
      <4>2. now = 2  BY DEF Init
      <4>3. Sec(e.expires) \in Nat /\ Sec(now) \in Nat  BY <4>1, <4>2 DEF Sec
      <4>4. Sec(now) + RetentionCap \in Nat  BY <4>3, NumbersAssumption
      <4> HIDE DEF e
      <4>5. Min({Sec(e.expires), Sec(now) + RetentionCap}) \in Nat  BY <4>3, <4>4, MinOfTwo
      <4>6. QED  BY <4>3, <4>5, MaxOfTwo DEF RetentionDeadlineSeconds
    <3>3. records[id] = [env |-> e, deadline |-> RetentionDeadlineSeconds(e)]
      BY <2>1 DEF Init
    <3> HIDE DEF e
    <3>4. QED  BY <3>1, <3>2, <3>3 DEF Record
  <2>2. ASSUME NEW id \in EnvId, ~ \E e \in Legacy : e.id = id
        PROVE  records[id] = Absent
    BY <2>2 DEF Init
  <2>3. \E f : records = [id \in EnvId |-> f[id]]
    <3>1. records = [id \in EnvId |-> records[id]]  BY DEF Init
    <3>2. QED  BY <3>1
  <2>4. QED  BY <2>1, <2>2, <2>3
<1>2. TypeOK
  BY <1>1, NoJobType, EmptyIsSequence, NumbersAssumption DEF Init, TypeOK, Steps
<1>3. \A p \in Proc : pc[p] = "idle" /\ job[p] = NoJob  BY DEF Init
<1>4. LockHeld /\ CounterBeforeCommit /\ ReadThroughIssued /\ BackfillState
  BY <1>3 DEF LockHeld, CounterBeforeCommit, ReadThroughIssued, BackfillState
<1>5. JobShape  BY <1>3, NoJobType DEF JobShape
<1>6. MarksWithinIssued /\ EveryRecordSelectable
  BY DEF Init, MarksWithinIssued, EveryRecordSelectable, HighestIssuedPosition
<1>7. QED  BY <1>2, <1>4, <1>5, <1>6 DEF IInv

LEMMA NextIInv == IInv /\ [Next]_vars => IInv'
<1> SUFFICES ASSUME IInv, [Next]_vars PROVE IInv'
  OBVIOUS
<1>1. ASSUME NEW p \in Proc, HandlerStep(p) PROVE IInv'
  BY <1>1, EnforceSenderQuotaStep, SaveEnvelopeDeadlineStep, LockMailboxOrderingStep,
     EnsureMailboxOrderingStep, BackfillBatchWriteStep, BackfillCounterStep, SaveEnvelopeStep,
     AdvanceReadMarkStep, ResolveCursorStep, GetEnvelopeBatchFromStep, DeleteEnvelopeStep,
     EnvelopesAckedStep
     DEF HandlerStep
<1>2. ASSUME NEW p \in Proc, NEW e \in Envelope, SendEnvelope(p, e) PROVE IInv'
  BY <1>2, SendEnvelopeStep
<1>3. ASSUME NEW p \in Proc, NEW d \in Device, NEW c \in Cursor,
             NEW rt \in ReadThrough, PollMailbox(p, d, c, rt)
      PROVE  IInv'
  BY <1>3, PollMailboxStep
<1>4. ASSUME NEW p \in Proc, NEW d \in Device, NEW ids \in SUBSET EnvId,
             NEW rt \in ReadThrough, AckMailbox(p, d, ids, rt)
      PROVE  IInv'
  BY <1>4, AckMailboxStep
<1>5. ASSUME NEW p \in Proc, StorageError(p) PROVE IInv'
  BY <1>5, StorageErrorStep
<1>6. CASE UNCHANGED vars
  BY <1>6 DEF vars, IInv, TypeOK, LockHeld, JobShape, ReadThroughIssued, CounterBeforeCommit,
     BackfillState, EveryRecordSelectable, MarksWithinIssued, HighestIssuedPosition, Stored
<1>7. QED  BY <1>1, <1>2, <1>3, <1>4, <1>5, <1>6, TickStep, RestartStep DEF Next

-----------------------------------------------------------------------------
(* Who writes what.                                                        *)

\* A step that leaves the stored envelopes, their index and the marks alone, and keeps
\* or drops the deadline and the listing a handler holds.
KeepsDeadlines ==
    /\ UNCHANGED <<now, records, order>>
    /\ \A q \in Proc : /\ job'[q].deadline \in {job[q].deadline, 0}
                        /\ plan'[q] \in {plan[q], <<>>}

LEMMA NoJobDeadline == NoJob.deadline = 0
  BY DEF NoJob

LEMMA FinishDeadlines ==
  ASSUME IInv, NEW p \in Proc, Finish(p)
  PROVE  \A q \in Proc : job'[q].deadline \in {job[q].deadline, 0}
<1>1. job' = [job EXCEPT ![p] = NoJob] /\ job \in [Proc -> Job]  BY DEF Finish, IInv, TypeOK
<1>2. QED  BY <1>1, NoJobDeadline

\* The field updates of a request record leave its deadline.
LEMMA DeadlineKept ==
  ASSUME NEW f \in [Proc -> Job], NEW p \in Proc, NEW g, NEW x,
         \/ g = [f EXCEPT ![p].cursor = x]
         \/ g = [f EXCEPT ![p].readThrough = x]
         \/ g = [f EXCEPT ![p].ids = x]
  PROVE  \A q \in Proc : g[q].deadline = f[q].deadline
<1>1. CASE g = [f EXCEPT ![p].cursor = x]  BY <1>1 DEF Job
<1>2. CASE g = [f EXCEPT ![p].readThrough = x]  BY <1>2 DEF Job
<1>3. CASE g = [f EXCEPT ![p].ids = x]  BY <1>3 DEF Job
<1>4. QED  BY <1>1, <1>2, <1>3

\* A new request has no deadline yet.
LEMMA NewJobDeadline ==
  ASSUME NEW a, NEW b, NEW c, NEW d
  PROVE  /\ [NoJob EXCEPT !.kind = "send", !.env = a].deadline = 0
         /\ [NoJob EXCEPT !.kind = "poll", !.device = b, !.cursor = c, !.readThrough = d].deadline = 0
         /\ [NoJob EXCEPT !.kind = "ack", !.device = b, !.ids = c, !.readThrough = d].deadline = 0
  BY DEF NoJob

LEMMA StoreWriters ==
  ASSUME IInv, Next
  PROVE  \/ /\ KeepsDeadlines
            /\ mark' = mark \/ \E p \in Proc : AdvanceReadMark(p)
         \/ \E p \in Proc : SaveEnvelopeDeadline(p) /\ UNCHANGED <<records, order, mark>>
         \/ \E p \in Proc : EnsureMailboxOrdering(p) /\ UNCHANGED <<records, order, mark>>
         \/ \E p \in Proc : BackfillBatchWrite(p) /\ UNCHANGED <<records, mark>>
         \/ \E p \in Proc : SaveEnvelope(p) /\ UNCHANGED mark
         \/ \E p \in Proc : DeleteEnvelope(p) /\ UNCHANGED <<order, mark>>
         \/ Tick /\ UNCHANGED <<records, order, mark>>
<1>0. job \in [Proc -> Job] /\ plan \in [Proc -> Seq(IndexEntry)]  BY DEF IInv, TypeOK
<1>1. ASSUME NEW p \in Proc, EnforceSenderQuota(p) PROVE KeepsDeadlines /\ mark' = mark
  <2>1. UNCHANGED <<now, records, order, mark, plan>> /\ (UNCHANGED job \/ Finish(p))
    BY <1>1 DEF EnforceSenderQuota, store
  <2>2. QED  BY <2>1, FinishDeadlines DEF KeepsDeadlines
<1>2. ASSUME NEW p \in Proc, LockMailboxOrdering(p) PROVE KeepsDeadlines /\ mark' = mark
  BY <1>2 DEF LockMailboxOrdering, store, KeepsDeadlines
<1>3. ASSUME NEW p \in Proc, BackfillCounter(p) PROVE KeepsDeadlines /\ mark' = mark
  <2>1. UNCHANGED <<now, records, order, mark, job>> /\ plan' = [plan EXCEPT ![p] = <<>>]
    BY <1>3 DEF BackfillCounter, OrderingEnsured
  <2>2. QED  BY <1>0, <2>1 DEF KeepsDeadlines
<1>4. ASSUME NEW p \in Proc, ResolveCursor(p) PROVE KeepsDeadlines /\ mark' = mark
  <2>1. UNCHANGED <<now, records, order, mark, plan>>  BY <1>4 DEF ResolveCursor, store
  <2>2. PICK x : x = IF job[p].cursor = Absent THEN ReadMark(job[p].device) ELSE job[p].cursor  OBVIOUS
  <2>3. job' = [job EXCEPT ![p].cursor = x]  BY <1>4, <2>2 DEF ResolveCursor
  <2>4. QED  BY <1>0, <2>1, <2>3, DeadlineKept DEF KeepsDeadlines
<1>5. ASSUME NEW p \in Proc, GetEnvelopeBatchFrom(p) PROVE KeepsDeadlines /\ mark' = mark
  <2>1. UNCHANGED <<now, records, order, mark, plan>> /\ Finish(p)
    BY <1>5 DEF GetEnvelopeBatchFrom, store
  <2>2. QED  BY <2>1, FinishDeadlines DEF KeepsDeadlines
<1>6. ASSUME NEW p \in Proc, EnvelopesAcked(p) PROVE KeepsDeadlines /\ mark' = mark
  <2>1. UNCHANGED <<now, records, order, mark, plan>> /\ (UNCHANGED job \/ Finish(p))
    BY <1>6 DEF EnvelopesAcked, store
  <2>2. QED  BY <2>1, FinishDeadlines DEF KeepsDeadlines
<1>7. ASSUME NEW p \in Proc, AdvanceReadMark(p) PROVE KeepsDeadlines
  <2>1. /\ UNCHANGED <<now, records, order, plan>>
        /\ job' = [job EXCEPT ![p].readThrough = Absent] \/ Finish(p)
    BY <1>7 DEF AdvanceReadMark
  <2>2. CASE job' = [job EXCEPT ![p].readThrough = Absent]
    BY <1>0, <2>1, <2>2, DeadlineKept DEF KeepsDeadlines
  <2>3. CASE Finish(p)  BY <2>1, <2>3, FinishDeadlines DEF KeepsDeadlines
  <2>4. QED  BY <2>1, <2>2, <2>3
<1>8. ASSUME NEW p \in Proc, NEW e \in Envelope, SendEnvelope(p, e) PROVE KeepsDeadlines /\ mark' = mark
  <2>1. UNCHANGED <<now, records, order, mark, plan>>  BY <1>8 DEF SendEnvelope, store
  <2>2. PICK j : j = [NoJob EXCEPT !.kind = "send", !.env = e]  OBVIOUS
  <2>3. job' = [job EXCEPT ![p] = j]  BY <1>8, <2>2 DEF SendEnvelope
  <2>4. j.deadline = 0  BY <2>2, NewJobDeadline
  <2>5. QED  BY <1>0, <2>1, <2>3, <2>4 DEF KeepsDeadlines
<1>9. ASSUME NEW p \in Proc, NEW d \in Device, NEW c \in Cursor, NEW rt \in ReadThrough,
             PollMailbox(p, d, c, rt)
      PROVE  KeepsDeadlines /\ mark' = mark
  <2>1. UNCHANGED <<now, records, order, mark, plan>>  BY <1>9 DEF PollMailbox, store
  <2>2. PICK j : j = [NoJob EXCEPT !.kind = "poll", !.device = d, !.cursor = c, !.readThrough = rt]
    OBVIOUS
  <2>3. job' = [job EXCEPT ![p] = j]  BY <1>9, <2>2 DEF PollMailbox
  <2>4. j.deadline = 0  BY <2>2, NewJobDeadline
  <2>5. QED  BY <1>0, <2>1, <2>3, <2>4 DEF KeepsDeadlines
<1>10. ASSUME NEW p \in Proc, NEW d \in Device, NEW ids \in SUBSET EnvId, NEW rt \in ReadThrough,
              AckMailbox(p, d, ids, rt)
       PROVE  KeepsDeadlines /\ mark' = mark
  <2>1. UNCHANGED <<now, records, order, mark, plan>>  BY <1>10 DEF AckMailbox, store
  <2>2. PICK j : j = [NoJob EXCEPT !.kind = "ack", !.device = d, !.ids = ids, !.readThrough = rt]
    OBVIOUS
  <2>3. job' = [job EXCEPT ![p] = j]  BY <1>10, <2>2 DEF AckMailbox
  <2>4. j.deadline = 0  BY <2>2, NewJobDeadline
  <2>5. QED  BY <1>0, <2>1, <2>3, <2>4 DEF KeepsDeadlines
<1>11. ASSUME NEW p \in Proc, StorageError(p) PROVE KeepsDeadlines /\ mark' = mark
  <2>1. /\ UNCHANGED <<now, records, order, mark>> /\ plan' = [plan EXCEPT ![p] = <<>>] /\ Finish(p)
    BY <1>11 DEF StorageError, store
  <2>2. \A q \in Proc : plan'[q] \in {plan[q], <<>>}  BY <1>0, <2>1
  <2>3. QED  BY <2>1, <2>2, FinishDeadlines DEF KeepsDeadlines
<1>12. ASSUME Restart PROVE KeepsDeadlines /\ mark' = mark
  BY <1>12, NoJobDeadline DEF Restart, store, KeepsDeadlines
<1>13. ASSUME NEW p \in Proc, SaveEnvelopeDeadline(p) PROVE UNCHANGED <<records, order, mark>>
  BY <1>13 DEF SaveEnvelopeDeadline, store
<1>14. ASSUME NEW p \in Proc, EnsureMailboxOrdering(p) PROVE UNCHANGED <<records, order, mark>>
  BY <1>14 DEF EnsureMailboxOrdering, store
<1>15. ASSUME NEW p \in Proc, BackfillBatchWrite(p) PROVE UNCHANGED <<records, mark>>
  BY <1>15 DEF BackfillBatchWrite
<1>16. ASSUME NEW p \in Proc, SaveEnvelope(p) PROVE UNCHANGED mark  BY <1>16 DEF SaveEnvelope
<1>17. ASSUME NEW p \in Proc, DeleteEnvelope(p) PROVE UNCHANGED <<order, mark>>
  BY <1>17 DEF DeleteEnvelope
<1>18. ASSUME Tick PROVE UNCHANGED <<records, order, mark>>  BY <1>18 DEF Tick, store
<1>19. CASE \E p \in Proc : HandlerStep(p)
  <2>1. PICK p \in Proc : HandlerStep(p)  BY <1>19
  <2>2. QED
    BY <2>1, <1>1, <1>2, <1>3, <1>4, <1>5, <1>6, <1>7, <1>13, <1>14, <1>15, <1>16, <1>17
       DEF HandlerStep
<1>20. QED  BY <1>8, <1>9, <1>10, <1>11, <1>12, <1>18, <1>19 DEF Next

\* No entry is written at or below a read mark.
LEMMA WritesAboveMarks ==
  ASSUME IInv, Next, NEW i \in Position, NEW d \in Device, order'[i] # order[i]
  PROVE  i > mark[d].pos
<1>1. i \in Nat /\ i >= 1 /\ mark[d].pos \in Nat /\ next \in Nat
  BY NumbersAssumption DEF IInv, TypeOK, Position
<1>2. mark[d].pos <= HighestIssuedPosition  BY DEF IInv, MarksWithinIssued
<1>3. PICK p \in Proc : BackfillBatchWrite(p) \/ SaveEnvelope(p)  BY StoreWriters DEF KeepsDeadlines
<1>4. CASE BackfillBatchWrite(p)
  <2>1. next = 0  BY <1>4 DEF IInv, BackfillState, BackfillBatchWrite
  <2>2. QED  BY <1>1, <1>2, <2>1 DEF HighestIssuedPosition
<1>5. CASE SaveEnvelope(p)
  <2>1. next # 0  BY <1>5 DEF IInv, CounterBeforeCommit, SaveEnvelope
  <2>2. i = next  BY <1>5, <2>1 DEF SaveEnvelope, IInv, TypeOK
  <2>3. QED  BY <1>1, <1>2, <2>1, <2>2 DEF HighestIssuedPosition
<1>6. QED  BY <1>3, <1>4, <1>5

-----------------------------------------------------------------------------
(* Deadlines: whatever holds one was given it by retentionDeadlineSeconds, *)
(* so none is further away than the retention cap.                         *)

Horizon == Sec(now) + RetentionCap

Capped ==
    /\ \A id \in EnvId : records[id] # Absent => records[id].deadline <= Horizon
    /\ \A i \in Position : order[i] # Absent => order[i].deadline <= Horizon
    /\ \A p \in Proc : /\ job[p].deadline <= Horizon
                        /\ \A i \in 1..Len(plan[p]) : plan[p][i].deadline <= Horizon

LEMMA HorizonType == IInv => Horizon \in Nat
<1> SUFFICES ASSUME IInv PROVE Horizon \in Nat  OBVIOUS
<1>1. Sec(now) \in Nat  BY SecType DEF IInv, TypeOK
<1>2. QED  BY <1>1, NumbersAssumption DEF Horizon

LEMMA InitCapped == Init => Capped
<1> SUFFICES ASSUME Init PROVE Capped  OBVIOUS
<1>1. IInv  BY InitIInv
<1>2. Horizon \in Nat  BY <1>1, HorizonType
<1>3. ASSUME NEW id \in EnvId, records[id] # Absent PROVE records[id].deadline <= Horizon
  <2>1. \E e \in Legacy : e.id = id  BY <1>3 DEF Init
  <2>2. PICK e : e = CHOOSE l \in Legacy : l.id = id  OBVIOUS
  <2>3. e \in Envelope  BY <2>1, <2>2, EnvelopeAssumption
  <2>4. RetentionDeadlineSeconds(e) <= Horizon
    BY <1>1, <2>3, RetentionDeadlineBounds DEF IInv, Horizon
  <2>5. records[id] = [env |-> e, deadline |-> RetentionDeadlineSeconds(e)]
    BY <2>1, <2>2 DEF Init
  <2>6. QED  BY <2>4, <2>5
<1>4. \A i \in Position : order[i] = Absent  BY DEF Init
<1>5. \A p \in Proc : job[p] = NoJob /\ plan[p] = <<>>  BY DEF Init
<1>6. \A p \in Proc : job[p].deadline <= Horizon  BY <1>2, <1>5, NoJobDeadline
<1>7. QED  BY <1>3, <1>4, <1>5, <1>6 DEF Capped

\* A handler that keeps its deadline and listing, or drops them.
LEMMA HeldCapped ==
  ASSUME IInv, Capped, Horizon' \in Nat, Horizon <= Horizon',
         NEW q \in Proc, job'[q].deadline \in {job[q].deadline, 0}, plan'[q] \in {plan[q], <<>>}
  PROVE  job'[q].deadline <= Horizon' /\ \A i \in 1..Len(plan'[q]) : plan'[q][i].deadline <= Horizon'
<1>1. Horizon \in Nat  BY HorizonType
<1>2. job[q].deadline \in Nat  BY DEF IInv, TypeOK, Job
<1>3. job'[q].deadline <= Horizon'  BY <1>1, <1>2 DEF Capped
<1>4. ASSUME NEW i \in 1..Len(plan'[q]) PROVE plan'[q][i].deadline <= Horizon'
  <2>1. plan'[q] = plan[q]  OBVIOUS
  <2>2. plan[q][i].deadline <= Horizon  BY <2>1 DEF Capped
  <2>3. plan[q] \in Seq(IndexEntry)  BY DEF IInv, TypeOK
  <2>4. plan[q][i] \in IndexEntry  BY <2>1, <2>3
  <2>5. plan[q][i].deadline \in Nat  BY <2>4 DEF IndexEntry
  <2>6. QED  BY <1>1, <2>1, <2>2, <2>5
<1>5. QED  BY <1>3, <1>4

LEMMA StepCapped ==
  ASSUME IInv, Capped, [Next]_vars
  PROVE  Capped'
<1>1. Horizon \in Nat /\ job \in [Proc -> Job] /\ plan \in [Proc -> Seq(IndexEntry)]
  BY HorizonType DEF IInv, TypeOK
<1>2. CASE UNCHANGED vars  BY <1>2 DEF vars, Capped, Horizon
<1>3. CASE KeepsDeadlines
  <2>1. Horizon' = Horizon  BY <1>3 DEF KeepsDeadlines, Horizon
  <2>2. ASSUME NEW q \in Proc
        PROVE  job'[q].deadline <= Horizon' /\ \A i \in 1..Len(plan'[q]) : plan'[q][i].deadline <= Horizon'
    <3>1. job'[q].deadline \in {job[q].deadline, 0} /\ plan'[q] \in {plan[q], <<>>}
      BY <1>3 DEF KeepsDeadlines
    <3>2. Horizon' \in Nat /\ Horizon <= Horizon'  BY <1>1, <2>1
    <3>3. QED  BY <3>1, <3>2, HeldCapped
  <2>3. records' = records /\ order' = order  BY <1>3 DEF KeepsDeadlines
  <2>4. QED  BY <2>1, <2>2, <2>3 DEF Capped
<1>4. ASSUME NEW p \in Proc, SaveEnvelopeDeadline(p) PROVE Capped'
  <2>1. UNCHANGED <<now, records, order, plan>>  BY <1>4 DEF SaveEnvelopeDeadline, store
  <2>2. Horizon' = Horizon  BY <2>1 DEF Horizon
  <2>3. job[p].env \in Envelope  BY <1>4 DEF IInv, JobShape, SaveEnvelopeDeadline
  <2>4. PICK x : x = RetentionDeadlineSeconds(job[p].env)  OBVIOUS
  <2>5. x <= Horizon  BY <2>3, <2>4, RetentionDeadlineBounds DEF IInv, Horizon
  <2>6. job' = [job EXCEPT ![p].deadline = x]  BY <1>4, <2>4 DEF SaveEnvelopeDeadline
  <2>7. \A q \in Proc : job'[q].deadline = IF q = p THEN x ELSE job[q].deadline
    BY <1>1, <2>6 DEF Job
  <2>8. QED  BY <2>1, <2>2, <2>5, <2>7 DEF Capped
<1>5. ASSUME NEW p \in Proc, EnsureMailboxOrdering(p) PROVE Capped'
  <2>1. UNCHANGED <<now, records, order, job>>  BY <1>5 DEF EnsureMailboxOrdering, store
  <2>2. Horizon' = Horizon  BY <2>1 DEF Horizon
  <2>3. ASSUME NEW q \in Proc
        PROVE  job'[q].deadline <= Horizon' /\ \A i \in 1..Len(plan'[q]) : plan'[q][i].deadline <= Horizon'
    <3>1. CASE plan'[q] \in {plan[q], <<>>}  BY <1>1, <2>1, <2>2, <3>1, HeldCapped
    <3>2. CASE plan'[q] \notin {plan[q], <<>>}
      <4>1. PICK s \in Listing : plan' = [plan EXCEPT ![p] = s]
        BY <1>1, <1>5, <3>2 DEF EnsureMailboxOrdering, OrderingEnsured
      <4>2. plan'[q] = s  BY <1>1, <3>2, <4>1
      <4>3. s \in Seq(IndexEntry)  BY ListingCovers DEF IInv
      <4>4. ASSUME NEW i \in 1..Len(s) PROVE s[i].deadline <= Horizon
        <5> DEFINE ids == {id \in EnvId : Stored(id)}
                   entries == {[id |-> id, deadline |-> records[id].deadline] : id \in ids}
        <5>1. PICK n : s \in [1..n -> entries]  BY DEF Listing
        <5>2. i \in DOMAIN s  BY <4>3
        <5>3. s[i] \in entries  BY <5>1, <5>2
        <5>4. PICK id \in ids : s[i] = [id |-> id, deadline |-> records[id].deadline]  BY <5>3
        <5>5. records[id] # Absent /\ id \in EnvId  BY DEF Stored
        <5>6. QED  BY <5>4, <5>5 DEF Capped
      <4>5. job'[q].deadline <= Horizon'  BY <2>1, <2>2 DEF Capped
      <4>6. QED  BY <2>2, <4>2, <4>4, <4>5
    <3>3. QED  BY <3>1, <3>2
  <2>4. QED  BY <2>1, <2>2, <2>3 DEF Capped
<1>6. ASSUME NEW p \in Proc, BackfillBatchWrite(p) PROVE Capped'
  <2>1. UNCHANGED <<now, records, job, plan>>  BY <1>6 DEF BackfillBatchWrite
  <2>2. Horizon' = Horizon  BY <2>1 DEF Horizon
  <2>3. /\ Len(plan[p]) \in Nat /\ Len(plan[p]) <= MaxPosition /\ written[p] \in Nat
        /\ written[p] <= Len(plan[p])
    BY <1>1, <1>6 DEF IInv, TypeOK, BackfillState, BackfillBatchWrite
  <2>4. PICK upTo : upTo = Min({written[p] + BackfillBatch, Len(plan[p])})  OBVIOUS
  <2>5. upTo \in Nat /\ upTo <= Len(plan[p])  BY <2>3, <2>4, NumbersAssumption, MinOfTwo
  <2>6. order' = [i \in Position |-> IF written[p] < i /\ i <= upTo THEN plan[p][i] ELSE order[i]]
    BY <1>6, <2>4 DEF BackfillBatchWrite
  <2>7. ASSUME NEW i \in Position, order'[i] # Absent PROVE order'[i].deadline <= Horizon
    <3>1. CASE written[p] < i /\ i <= upTo
      <4>1. order'[i] = plan[p][i]  BY <2>6, <3>1
      <4>2. i \in 1..Len(plan[p])  BY <2>3, <2>5, <3>1, NumbersAssumption DEF Position
      <4>3. QED  BY <4>1, <4>2 DEF Capped
    <3>2. CASE ~(written[p] < i /\ i <= upTo)  BY <2>6, <2>7, <3>2 DEF Capped
    <3>3. QED  BY <3>1, <3>2
  <2>8. QED  BY <2>1, <2>2, <2>7 DEF Capped
<1>7. ASSUME NEW p \in Proc, SaveEnvelope(p) PROVE Capped'
  <2>1. UNCHANGED <<now, plan>> /\ Finish(p)  BY <1>7 DEF SaveEnvelope
  <2>2. Horizon' = Horizon  BY <2>1 DEF Horizon
  <2>3. \A q \in Proc : /\ job'[q].deadline <= Horizon'
                        /\ \A i \in 1..Len(plan'[q]) : plan'[q][i].deadline <= Horizon'
    BY <1>1, <2>1, <2>2, FinishDeadlines, HeldCapped
  <2>4. PICK r, n : /\ r = [env |-> job[p].env, deadline |-> job[p].deadline]
                    /\ n = [id |-> job[p].env.id, deadline |-> job[p].deadline]
    OBVIOUS
  <2>5. r.deadline <= Horizon /\ n.deadline <= Horizon  BY <2>4 DEF Capped
  <2>6. \/ records' = records /\ order' = order
        \/ \E id, i : records' = [records EXCEPT ![id] = r] /\ order' = [order EXCEPT ![i] = n]
    BY <1>7, <2>4 DEF SaveEnvelope
  <2>7. \A id \in EnvId : records'[id] # Absent => records'[id].deadline <= Horizon
    BY <2>5, <2>6 DEF Capped, IInv, TypeOK
  <2>8. \A i \in Position : order'[i] # Absent => order'[i].deadline <= Horizon
    BY <2>5, <2>6 DEF Capped, IInv, TypeOK
  <2>9. QED  BY <2>2, <2>3, <2>7, <2>8 DEF Capped
<1>8. ASSUME NEW p \in Proc, DeleteEnvelope(p) PROVE Capped'
  <2>1. UNCHANGED <<now, order, plan>>  BY <1>8 DEF DeleteEnvelope
  <2>2. Horizon' = Horizon  BY <2>1 DEF Horizon
  <2>3. PICK id \in job[p].ids : /\ records' = [records EXCEPT ![id] = Absent]
                                 /\ job' = [job EXCEPT ![p].ids = @ \ {id}]
    BY <1>8 DEF DeleteEnvelope
  <2>4. PICK x : x = job[p].ids \ {id}  OBVIOUS
  <2>5. job' = [job EXCEPT ![p].ids = x]  BY <1>1, <2>3, <2>4
  <2>6. \A q \in Proc : job'[q].deadline = job[q].deadline  BY <1>1, <2>5, DeadlineKept
  <2>7. \A y \in EnvId : records'[y] # Absent => records'[y] = records[y]
    BY <2>3 DEF IInv, TypeOK
  <2>8. QED  BY <2>1, <2>2, <2>6, <2>7 DEF Capped
<1>9. CASE Tick
  <2>1. UNCHANGED <<records, order, job, plan>> /\ now' = now + 1  BY <1>9 DEF Tick, store
  <2>a. now \in Nat  BY DEF IInv, TypeOK
  <2>2. Sec(now) \in Nat /\ Sec(now') \in Nat /\ Sec(now) <= Sec(now')
    BY <2>a, <2>1, SecType
  <2>3. Horizon' \in Nat /\ Horizon <= Horizon'  BY <2>2, NumbersAssumption DEF Horizon
  <2>4. \A q \in Proc : /\ job'[q].deadline <= Horizon'
                        /\ \A i \in 1..Len(plan'[q]) : plan'[q][i].deadline <= Horizon'
    BY <2>1, <2>3, HeldCapped
  <2>5. ASSUME NEW id \in EnvId, records[id] # Absent PROVE records[id].deadline <= Horizon'
    <3>1. records[id].deadline \in Nat  BY <2>5 DEF IInv, TypeOK, Record
    <3>2. records[id].deadline <= Horizon  BY <2>5 DEF Capped
    <3>3. QED  BY <1>1, <2>3, <3>1, <3>2
  <2>6. ASSUME NEW i \in Position, order[i] # Absent PROVE order[i].deadline <= Horizon'
    <3>1. order[i].deadline \in Nat  BY <2>6 DEF IInv, TypeOK, IndexEntry
    <3>2. order[i].deadline <= Horizon  BY <2>6 DEF Capped
    <3>3. QED  BY <1>1, <2>3, <3>1, <3>2
  <2>7. QED  BY <2>1, <2>4, <2>5, <2>6 DEF Capped
<1>10. QED  BY <1>2, <1>3, <1>4, <1>5, <1>6, <1>7, <1>8, <1>9, StoreWriters

-----------------------------------------------------------------------------
(* Marks and deadlines together.                                           *)

LEMMA MarksStep ==
  ASSUME RetentionCap <= MarkTTL, IInv, Capped, MarkOutlivesCovered, [Next]_vars
  PROVE  MarkOutlivesCovered'
<1>1. ASSUME NEW d \in Device, NEW i \in Position, i <= mark'[d].pos, order'[i] # Absent
      PROVE  order'[i].deadline <= mark'[d].deadline
  <2>1. i \in Nat /\ mark[d].pos \in Nat  BY NumbersAssumption DEF Position, IInv, TypeOK
  <2>2. CASE mark'[d] = mark[d]
    <3>1. order'[i] = order[i]
      <4>1. ASSUME order'[i] # order[i] PROVE FALSE
        <5>1. Next  BY <4>1 DEF vars
        <5>2. i > mark[d].pos  BY <4>1, <5>1, WritesAboveMarks
        <5>3. QED  BY <1>1, <2>1, <2>2, <5>2
      <4>2. QED  BY <4>1
    <3>2. QED  BY <1>1, <2>2, <3>1 DEF MarkOutlivesCovered
  <2>3. CASE mark'[d] # mark[d]
    <3>1. Next  BY <2>3 DEF vars
    <3>2. PICK p \in Proc : AdvanceReadMark(p)  BY <2>3, <3>1, StoreWriters
    <3>3. job[p].device \in Device  BY <3>2 DEF IInv, JobShape, AdvanceReadMark
    <3>4. mark'[d].deadline = Sec(now) + MarkTTL
      BY <2>3, <3>2, <3>3 DEF AdvanceReadMark, IInv, TypeOK
    <3>5. order' = order  BY <3>2 DEF AdvanceReadMark
    <3>6. order[i].deadline <= Horizon /\ order[i].deadline \in Nat
      BY <1>1, <3>5 DEF Capped, IInv, TypeOK, IndexEntry
    <3>7. Sec(now) \in Nat  BY SecType DEF IInv, TypeOK
    <3>8. QED  BY <3>4, <3>5, <3>6, <3>7, NumbersAssumption DEF Horizon
  <2>4. QED  BY <2>2, <2>3
<1>2. QED  BY <1>1 DEF MarkOutlivesCovered

\* A listing is in key order, for as long as a handler works through it.
PlanInKeyOrder ==
    \A p \in Proc : \A i, j \in 1..Len(plan[p]) : i < j => plan[p][i].id < plan[p][j].id

LEMMA PlanStep ==
  ASSUME IInv, PlanInKeyOrder, [Next]_vars
  PROVE  PlanInKeyOrder'
<1>1. plan \in [Proc -> Seq(IndexEntry)]  BY DEF IInv, TypeOK
<1>2. ASSUME NEW q \in Proc, plan'[q] \notin {plan[q], <<>>}
      PROVE  plan'[q] \in Listing
  <2>1. Next  BY <1>2 DEF vars
  <2>2. PICK p \in Proc : EnsureMailboxOrdering(p)
    BY <1>2, <2>1, StoreWriters
       DEF KeepsDeadlines, SaveEnvelopeDeadline, BackfillBatchWrite, SaveEnvelope, DeleteEnvelope, Tick
  <2>3. PICK s \in Listing : plan' = [plan EXCEPT ![p] = s]
    BY <1>1, <1>2, <2>2 DEF EnsureMailboxOrdering, OrderingEnsured
  <2>4. QED  BY <1>1, <1>2, <2>3
<1>3. ASSUME NEW s \in Listing, NEW i \in 1..Len(s), NEW j \in 1..Len(s), i < j
      PROVE  s[i].id < s[j].id
  <2>1. s \in Seq(IndexEntry)  BY ListingCovers DEF IInv
  <2>2. i \in DOMAIN s /\ j \in DOMAIN s  BY <2>1
  <2>3. PICK ids : IsKeyOrder(s, ids)  BY DEF Listing
  <2>4. QED  BY <1>3, <2>2, <2>3 DEF IsKeyOrder
<1>4. ASSUME NEW q \in Proc, NEW i \in 1..Len(plan'[q]), NEW j \in 1..Len(plan'[q]), i < j
      PROVE  plan'[q][i].id < plan'[q][j].id
  <2>1. CASE plan'[q] = plan[q]  BY <1>4, <2>1 DEF PlanInKeyOrder
  <2>2. CASE plan'[q] = <<>>  BY <1>4, <2>2
  <2>3. CASE plan'[q] \in Listing  BY <1>3, <1>4, <2>3
  <2>4. QED  BY <1>2, <2>1, <2>2, <2>3
<1>5. QED  BY <1>4 DEF PlanInKeyOrder

\* The inductive invariant with the deadlines of what the mailbox holds.
TimedInv == IInv /\ Capped /\ MarkOutlivesCovered /\ PlanInKeyOrder

LEMMA TimedInvInit == Init => TimedInv
<1>1. Init => MarkOutlivesCovered  BY NumbersAssumption DEF Init, MarkOutlivesCovered, Position
<1>2. Init => PlanInKeyOrder  BY DEF Init, PlanInKeyOrder
<1>3. QED  BY <1>1, <1>2, InitIInv, InitCapped DEF TimedInv

LEMMA TimedInvStep ==
  ASSUME RetentionCap <= MarkTTL
  PROVE  TimedInv /\ [Next]_vars => TimedInv'
  BY NextIInv, StepCapped, MarksStep, PlanStep DEF TimedInv

-----------------------------------------------------------------------------
(* The mailbox implements the abstract queue.                              *)

\* A step that leaves the clock and the store alone leaves what the queue sees.
LEMMA QueueUnchanged ==
  ASSUME UNCHANGED <<now, records, order, next, mark>>
  PROVE  UNCHANGED <<Sec(now), HighestIssuedPosition, Log, Held, Read>>
<1>1. UNCHANGED <<Sec(now), HighestIssuedPosition>>  BY DEF Sec, HighestIssuedPosition
<1>2. \A id : Stored(id)' <=> Stored(id)  BY DEF Stored
<1>3. \A d : ReadMark(d)' = ReadMark(d)  BY DEF ReadMark
<1>4. Log' = Log  BY DEF Log
<1>5. Held' = Held  BY <1>2 DEF Held
<1>6. Read' = Read  BY <1>3 DEF Read
<1>7. QED  BY <1>1, <1>4, <1>5, <1>6

\* Once the mailbox has a counter, what is held has a position.
LEMMA HeldIsPositioned ==
  ASSUME IInv, next # 0
  PROVE  Queue!AllPositioned
<1>1. next \in Nat /\ next >= 1  BY NumbersAssumption DEF IInv, TypeOK
<1>2. ASSUME NEW id \in EnvId, Held[id] # Absent
      PROVE  \E i \in 1..HighestIssuedPosition : Log[i] = id
  <2>1. Stored(id)  BY <1>2 DEF Held
  <2>2. PICK i \in Position : i < next /\ order[i] = [id |-> id, deadline |-> records[id].deadline]
    BY <2>1 DEF IInv, EveryRecordSelectable
  <2>3. i \in 1..HighestIssuedPosition
    BY <1>1, <2>2, NumbersAssumption DEF Position, HighestIssuedPosition
  <2>4. Log[i] = id  BY <2>2 DEF Log
  <2>5. QED  BY <2>3, <2>4
<1>3. QED  BY <1>2 DEF Queue!AllPositioned

LEMMA BatchWriteIsHidden ==
  ASSUME IInv, NEW p \in Proc, BackfillBatchWrite(p)
  PROVE  UNCHANGED <<Sec(now), HighestIssuedPosition, Log, Held, Read>>
<1>1. next = 0 /\ next' = 0
  BY DEF IInv, BackfillState, BackfillBatchWrite
<1>2. UNCHANGED <<now, records, next, mark>>  BY DEF BackfillBatchWrite
<1>3. UNCHANGED <<Sec(now), HighestIssuedPosition>>  BY <1>2 DEF Sec, HighestIssuedPosition
<1>4. \A id : Stored(id)' <=> Stored(id)  BY <1>2 DEF Stored
<1>5. \A d : ReadMark(d)' = ReadMark(d)  BY <1>2 DEF ReadMark
<1>6. \A i \in Position : ~(i < 0)  BY NumbersAssumption DEF Position
<1>7. Log' = Log  BY <1>1, <1>6 DEF Log
<1>8. Held' = Held  BY <1>2, <1>4 DEF Held
<1>9. Read' = Read  BY <1>5 DEF Read
<1>10. QED  BY <1>3, <1>7, <1>8, <1>9

\* The counter, written last, adopts the whole listing.
LEMMA CounterAdopts ==
  ASSUME IInv, PlanInKeyOrder, NEW p \in Proc, BackfillCounter(p)
  PROVE  Queue!Adopt
<1> DEFINE n == Len(plan[p])
<1>1. /\ next = 0 /\ n \in Nat /\ n <= MaxPosition /\ written[p] = n
      /\ \A i \in 1..n : order[i] = plan[p][i]
      /\ \A i \in 1..n : plan[p][i] \in IndexEntry
      /\ \A id \in EnvId : Stored(id) => \E i \in 1..n : plan[p][i].id = id
  <2>1. plan[p] \in Seq(IndexEntry) /\ pc[p] = "backfill" /\ written[p] = n
    BY DEF IInv, TypeOK, BackfillCounter
  <2>2. /\ next = 0 /\ n <= MaxPosition
        /\ \A i \in 1..written[p] : order[i] = plan[p][i]
        /\ \A id \in EnvId : Stored(id) => \E i \in 1..n :
              plan[p][i] = [id |-> id, deadline |-> records[id].deadline]
    BY <2>1 DEF IInv, BackfillState
  <2>3. n \in Nat /\ \A i \in 1..n : plan[p][i] \in IndexEntry  BY <2>1
  <2>4. ASSUME NEW id \in EnvId, Stored(id) PROVE \E i \in 1..n : plan[p][i].id = id
    <3>1. PICK i \in 1..n : plan[p][i] = [id |-> id, deadline |-> records[id].deadline]
      BY <2>2, <2>4
    <3>2. plan[p][i].id = id  BY <3>1
    <3>3. QED  BY <3>2
  <2>5. QED  BY <2>1, <2>2, <2>3, <2>4
<1>2. next' = n + 1 /\ UNCHANGED <<now, records, order, mark>>
  BY <1>1 DEF BackfillCounter
<1> HIDE DEF n
<1>3. HighestIssuedPosition = 0 /\ HighestIssuedPosition' = n
  BY <1>1, <1>2 DEF HighestIssuedPosition
<1>4. \A i \in Position : (i < n + 1) <=> (i <= n)  BY <1>1, NumbersAssumption DEF Position
<1>5. Log' = [i \in Position |-> IF i <= n THEN order[i].id ELSE Absent]
  BY <1>2, <1>4 DEF Log
<1>6. \A i \in 1..n : i \in Position /\ Log'[i] = plan[p][i].id
  BY <1>1, <1>5, NumbersAssumption DEF Position
<1>7. \A i \in Position : IF i <= n THEN Log'[i] \in EnvId ELSE Log'[i] = Absent
  <2>1. ASSUME NEW i \in Position, i <= n PROVE Log'[i] \in EnvId
    <3>1. i \in 1..n  BY <1>1, <2>1, NumbersAssumption DEF Position
    <3>2. QED  BY <1>1, <1>6, <3>1 DEF IndexEntry
  <2>2. QED  BY <1>5, <2>1
<1>8. \A i, j \in 1..n : i < j => Log'[i] < Log'[j]
  <2>1. \A i, j \in 1..n : i < j => plan[p][i].id < plan[p][j].id  BY DEF PlanInKeyOrder, n
  <2>2. QED  BY <1>6, <2>1
<1>9. \A id : Stored(id)' <=> Stored(id)  BY <1>2 DEF Stored
<1>10. Held' = Held  BY <1>2, <1>9 DEF Held
<1>11. \A d : ReadMark(d)' = ReadMark(d)  BY <1>2 DEF ReadMark
<1>12. Read' = Read /\ Sec(now') = Sec(now)  BY <1>2, <1>11 DEF Read
<1>13. \A id \in EnvId : Held'[id] # Absent => \E i \in 1..n : Log'[i] = id
  <2>1. ASSUME NEW id \in EnvId, Held'[id] # Absent PROVE \E i \in 1..n : Log'[i] = id
    <3>1. Stored(id)  BY <1>10, <2>1 DEF Held
    <3>2. QED  BY <1>1, <1>6, <3>1
  <2>2. QED  BY <2>1
<1>14. n \in 0..MaxPosition  BY <1>1, NumbersAssumption
<1>15. QED
  BY <1>3, <1>7, <1>8, <1>10, <1>12, <1>13, <1>14
     DEF Queue!Adopt, Queue!AllPositioned, Queue!Position, Position

\* A send that stores its envelope accepts it at the next position.
LEMMA SaveAccepts ==
  ASSUME IInv, Capped, NEW p \in Proc, SaveEnvelope(p), ~Stored(job[p].env.id)
  PROVE  \E e \in Envelope : Queue!Accept(e)
<1>1. PICK e \in Envelope : e = job[p].env  BY DEF IInv, JobShape, SaveEnvelope
<1>2. e.id \in EnvId  BY EnvelopeAssumption DEF EnvelopeType
<1>3. PICK t \in Nat : t = job[p].deadline  BY DEF IInv, TypeOK, Job
<1>4. next # 0  BY DEF IInv, CounterBeforeCommit, SaveEnvelope
<1>5. /\ next <= MaxPosition /\ next' = next + 1 /\ UNCHANGED <<now, mark>>
      /\ records' = [records EXCEPT ![e.id] = [env |-> e, deadline |-> t]]
      /\ order' = [order EXCEPT ![next] = [id |-> e.id, deadline |-> t]]
  BY <1>1, <1>3, <1>4 DEF SaveEnvelope
<1>6. next \in Position /\ next \in Nat
  BY <1>4, <1>5, NumbersAssumption DEF IInv, TypeOK, Position
<1>7. /\ HighestIssuedPosition + 1 = next /\ HighestIssuedPosition < MaxPosition
      /\ HighestIssuedPosition' = HighestIssuedPosition + 1
  BY <1>4, <1>5, <1>6, NumbersAssumption DEF HighestIssuedPosition
<1>8. Log' = [Log EXCEPT ![next] = e.id]
  <2>1. \A i \in Position : (i < next + 1) <=> (i < next \/ i = next)
    BY <1>6, NumbersAssumption DEF Position
  <2>2. order \in [Position -> IndexEntry \cup {Absent}]  BY DEF IInv, TypeOK
  <2>3. \A i \in Position : order'[i] = IF i = next THEN [id |-> e.id, deadline |-> t] ELSE order[i]
    BY <1>5, <2>2
  <2>4. Log' = [i \in Position |-> IF i < next + 1 THEN order'[i].id ELSE Absent]
    BY <1>5 DEF Log
  <2>5. ~(next < next)  BY <1>6
  <2>6. \A i \in Position : Log'[i] = IF i = next THEN e.id ELSE Log[i]
    BY <2>1, <2>3, <2>4, <2>5 DEF Log
  <2>7. QED  BY <2>4, <2>6 DEF Log
<1>9. Held[e.id] = Absent  BY <1>1, <1>2 DEF Held
<1>10. \/ Held' = Held
       \/ \E x \in Sec(now) + 1 .. Sec(now) + RetentionCap :
             Held' = [Held EXCEPT ![e.id] = [env |-> e, deadline |-> x]]
  <2>1. Sec(now) \in Nat /\ RetentionCap \in Nat /\ t <= Sec(now) + RetentionCap
    BY <1>3, SecType, NumbersAssumption DEF IInv, TypeOK, Capped, Horizon
  <2>2. PICK r \in Record : r = [env |-> e, deadline |-> t]  BY DEF Record
  <2>3. r # Absent /\ r.deadline = t  BY <2>2, AbsentAssumption DEF Record
  <2>4. \A id \in EnvId : records'[id] = IF id = e.id THEN r ELSE records[id]
    BY <1>5, <2>2 DEF IInv, TypeOK
  <2>5. \A id \in EnvId : Stored(id)' <=> IF id = e.id THEN t > Sec(now) ELSE Stored(id)
    BY <1>5, <2>3, <2>4 DEF Stored
  <2>6. Held' = [id \in EnvId |-> IF Stored(id)' THEN records'[id] ELSE Absent]  BY DEF Held
  <2>7. CASE t > Sec(now)
    <3>1. t \in Sec(now) + 1 .. Sec(now) + RetentionCap  BY <2>1, <2>7
    <3>2. \A id \in EnvId : Held'[id] = IF id = e.id THEN r ELSE Held[id]
      BY <2>4, <2>5, <2>6, <2>7 DEF Held
    <3>3. Held' = [Held EXCEPT ![e.id] = r]  BY <2>6, <3>2 DEF Held
    <3>4. QED  BY <2>2, <3>1, <3>3
  <2>8. CASE ~(t > Sec(now))
    <3>1. \A id \in EnvId : Held'[id] = Held[id]
      BY <1>9, <2>4, <2>5, <2>6, <2>8 DEF Held
    <3>2. QED  BY <2>6, <3>1 DEF Held
  <2>9. QED  BY <2>7, <2>8
<1>11. Read' = Read /\ Sec(now') = Sec(now)
  <2>1. \A d : ReadMark(d)' = ReadMark(d)  BY <1>5 DEF ReadMark
  <2>2. QED  BY <1>5, <2>1 DEF Read
<1>12. Queue!AllPositioned  BY <1>4, HeldIsPositioned
<1>13. Queue!Accept(e)
  BY <1>7, <1>8, <1>9, <1>10, <1>11, <1>12 DEF Queue!Accept
<1>14. QED  BY <1>13

LEMMA DeleteAcknowledges ==
  ASSUME IInv, NEW p \in Proc, DeleteEnvelope(p)
  PROVE  \E id \in EnvId : Queue!Acknowledge(id)
<1>1. job[p].ids \subseteq EnvId  BY DEF IInv, TypeOK, Job
<1>2. PICK id \in EnvId : records' = [records EXCEPT ![id] = Absent]
  BY <1>1 DEF DeleteEnvelope
<1>3. UNCHANGED <<now, order, next, mark>>  BY DEF DeleteEnvelope
<1>4. \A x \in EnvId : records'[x] = IF x = id THEN Absent ELSE records[x]
  BY <1>2 DEF IInv, TypeOK
<1>5. \A x \in EnvId : Stored(x)' <=> x # id /\ Stored(x)  BY <1>3, <1>4 DEF Stored
<1>6. Held' = [x \in EnvId |-> IF Stored(x)' THEN records'[x] ELSE Absent]  BY DEF Held
<1>7. \A x \in EnvId : Held'[x] = IF x = id THEN Absent ELSE Held[x]
  BY <1>4, <1>5, <1>6 DEF Held
<1>8. Held' = [Held EXCEPT ![id] = Absent]  BY <1>6, <1>7 DEF Held
<1>9. \A d : ReadMark(d)' = ReadMark(d)  BY <1>3 DEF ReadMark
<1>10. UNCHANGED <<Sec(now), HighestIssuedPosition, Log, Read>>
  BY <1>3, <1>9 DEF Sec, HighestIssuedPosition, Log, Read
<1>11. QED  BY <1>8, <1>10 DEF Queue!Acknowledge

\* A report that is written moves the read position of its device forward.
LEMMA AdvanceJudges ==
  ASSUME IInv, NEW p \in Proc, AdvanceReadMark(p), mark' # mark
  PROVE  \E d \in Device : Queue!Judge(d)
<1>1. PICK d \in Device : d = job[p].device  BY DEF IInv, JobShape, AdvanceReadMark
<1>2. PICK x \in Nat : x = job[p].readThrough  BY DEF IInv, JobShape, AdvanceReadMark
<1>3. x <= HighestIssuedPosition
  BY <1>2, AbsentAssumption DEF IInv, ReadThroughIssued, AdvanceReadMark
<1>4. /\ ~(mark[d].deadline > Sec(now) /\ x <= mark[d].pos)
      /\ mark' = [mark EXCEPT ![d] = [pos |-> x, deadline |-> Sec(now) + MarkTTL]]
      /\ UNCHANGED <<now, records, order, next>>
  BY <1>1, <1>2 DEF AdvanceReadMark
<1>5. /\ Sec(now) \in Nat /\ MarkTTL \in Nat \ {0}
      /\ mark \in [Device -> [pos: Nat, deadline: Nat]]
      /\ HighestIssuedPosition \in Nat
  <2>1. now \in Nat /\ next \in Nat /\ mark \in [Device -> [pos: Nat, deadline: Nat]]
    BY NumbersAssumption DEF IInv, TypeOK
  <2>2. Sec(now) \in Nat  BY <2>1, SecType
  <2>3. HighestIssuedPosition \in Nat  BY <2>1 DEF HighestIssuedPosition
  <2>4. QED  BY <2>1, <2>2, <2>3, NumbersAssumption
<1>6. Read[d] \in Nat /\ Read[d] <= x
  BY <1>4, <1>5 DEF Read, ReadMark
<1>7. \A c \in Device : ReadMark(c)' = IF c = d THEN x ELSE ReadMark(c)
  <2>1. mark'[d] = [pos |-> x, deadline |-> Sec(now) + MarkTTL]  BY <1>4, <1>5
  <2>2. ReadMark(d)' = x  BY <1>4, <1>5, <2>1 DEF ReadMark
  <2>3. \A c \in Device : c # d => mark'[c] = mark[c]  BY <1>4, <1>5
  <2>4. QED  BY <1>4, <2>2, <2>3 DEF ReadMark
<1>8. Read' = [c \in Device |-> ReadMark(c)']  BY DEF Read
<1>9. Read' = [Read EXCEPT ![d] = x]  BY <1>7, <1>8 DEF Read
<1>10. \A id : Stored(id)' <=> Stored(id)  BY <1>4 DEF Stored
<1>11. UNCHANGED <<Sec(now), HighestIssuedPosition, Log, Held>>
  BY <1>4, <1>10 DEF Sec, HighestIssuedPosition, Log, Held
<1>12. x \in Read[d]..HighestIssuedPosition  BY <1>3, <1>5, <1>6
<1>13. QED  BY <1>9, <1>11, <1>12 DEF Queue!Judge

\* A tick that completes a second lets go of what reached its deadline, and of
\* marks that cover nothing else.
LEMMA TickPasses ==
  ASSUME IInv, MarkOutlivesCovered, Tick, Sec(now') # Sec(now)
  PROVE  Queue!Pass
<1>1. now \in Nat /\ now' = now + 1 /\ UNCHANGED <<records, order, next, mark>>
  BY DEF IInv, TypeOK, Tick, store
<1>2. Sec(now) \in Nat /\ Sec(now') = Sec(now) + 1  BY <1>1 DEF Sec
<1>3. \A id \in EnvId : records[id] # Absent => records[id].deadline \in Nat /\ records[id] \in Record
  BY DEF IInv, TypeOK, Record
<1>4. \A id \in EnvId : Stored(id)' <=> (records[id] # Absent /\ records[id].deadline > Sec(now'))
  BY <1>1 DEF Stored
<1>5. \A id \in EnvId : Stored(id)' => Stored(id)  BY <1>2, <1>3, <1>4 DEF Stored
<1>6. Held' = [id \in EnvId |-> IF Stored(id)' THEN records[id] ELSE Absent]  BY <1>1 DEF Held
<1>7. Held' = [id \in EnvId |->
        IF Held[id] # Absent /\ Held[id].deadline > Sec(now') THEN Held[id] ELSE Absent]
  <2>1. ASSUME NEW id \in EnvId
        PROVE  Held'[id] = IF Held[id] # Absent /\ Held[id].deadline > Sec(now')
                           THEN Held[id] ELSE Absent
    BY <1>4, <1>5, <1>6 DEF Held
  <2>2. QED  BY <1>6, <2>1
<1>8. UNCHANGED <<HighestIssuedPosition, Log>>  BY <1>1 DEF HighestIssuedPosition, Log
<1>9. ASSUME NEW d \in Device, Read'[d] # Read[d]
      PROVE  /\ Read'[d] = 0
             /\ \A id \in EnvId : Held'[id] # Absent =>
                   \E i \in 1..HighestIssuedPosition : i > Read[d] /\ Log[i] = id
  <2>1. mark[d].pos \in Nat /\ mark[d].deadline \in Nat  BY DEF IInv, TypeOK
  <2>2. Read'[d] = IF mark[d].deadline > Sec(now') THEN mark[d].pos ELSE 0
    BY <1>1 DEF Read, ReadMark
  <2>3. Read[d] = IF mark[d].deadline > Sec(now) THEN mark[d].pos ELSE 0
    BY DEF Read, ReadMark
  <2>4. ~(mark[d].deadline > Sec(now')) /\ Read'[d] = 0 /\ Read[d] = mark[d].pos /\ mark[d].pos # 0
    BY <1>2, <1>9, <2>1, <2>2, <2>3
  <2>5. next \in Nat /\ next # 0
    BY <2>1, <2>4, NumbersAssumption DEF IInv, TypeOK, MarksWithinIssued, HighestIssuedPosition
  <2>6. ASSUME NEW id \in EnvId, Held'[id] # Absent
        PROVE  \E i \in 1..HighestIssuedPosition : i > Read[d] /\ Log[i] = id
    <3>1. records[id] # Absent /\ records[id].deadline > Sec(now') /\ Stored(id)
      BY <1>4, <1>5, <1>6, <2>6
    <3>2. PICK i \in Position : i < next /\ order[i] = [id |-> id, deadline |-> records[id].deadline]
      BY <2>5, <3>1 DEF IInv, EveryRecordSelectable
    <3>3. i \in Nat /\ i \in 1..HighestIssuedPosition
      BY <2>5, <3>2, NumbersAssumption DEF Position, HighestIssuedPosition
    <3>4. Log[i] = id  BY <3>2 DEF Log
    <3>5. order[i].deadline = records[id].deadline /\ order[i] # Absent
      <4>1. order[i] \in IndexEntry
        BY <1>3, <3>1, <3>2 DEF IndexEntry
      <4>2. QED  BY <3>2, <4>1, AbsentAssumption DEF IndexEntry
    <3>6. i > mark[d].pos
      <4>1. ASSUME i <= mark[d].pos PROVE FALSE
        <5>1. order[i].deadline <= mark[d].deadline  BY <3>5, <4>1 DEF MarkOutlivesCovered
        <5>2. QED  BY <1>2, <1>3, <2>1, <2>4, <3>1, <3>5, <5>1
      <4>2. QED  BY <2>1, <3>3, <4>1
    <3>7. QED  BY <2>4, <3>3, <3>4, <3>6
  <2>7. QED  BY <2>4, <2>6
<1>10. QED  BY <1>2, <1>7, <1>8, <1>9 DEF Queue!Pass

\* A tick within a second changes nothing the queue sees.
LEMMA TickIsHidden ==
  ASSUME Tick, Sec(now') = Sec(now)
  PROVE  UNCHANGED <<Sec(now), HighestIssuedPosition, Log, Held, Read>>
<1>1. UNCHANGED <<records, order, next, mark>>  BY DEF Tick, store
<1>2. \A id : Stored(id)' <=> Stored(id)  BY <1>1 DEF Stored
<1>3. \A d : ReadMark(d)' = ReadMark(d)  BY <1>1 DEF ReadMark
<1>4. QED  BY <1>1, <1>2, <1>3 DEF HighestIssuedPosition, Log, Held, Read

LEMMA QueueInit == Init => Queue!Init
<1> SUFFICES ASSUME Init PROVE Queue!Init  OBVIOUS
<1>1. IInv  BY InitIInv
<1>2. next = 0 /\ order = [i \in Position |-> Absent]
      /\ mark = [d \in Device |-> [pos |-> 0, deadline |-> 0]]
  BY DEF Init
<1>3. Sec(now) \in Nat  BY <1>1, SecType DEF IInv, TypeOK
<1>4. HighestIssuedPosition = 0  BY <1>2 DEF HighestIssuedPosition
<1>5. \A i \in Position : ~(i < 0)  BY NumbersAssumption DEF Position
<1>6. Log = [i \in Position |-> Absent]  BY <1>2, <1>5 DEF Log
<1>7. \A d \in Device : ReadMark(d) = 0  BY <1>2 DEF ReadMark
<1>8. Read = [d \in Device |-> 0]  BY <1>7 DEF Read
<1>9. Held \in [EnvId -> [env: Envelope, deadline: Nat] \cup {Absent}]
  BY <1>1 DEF Held, IInv, TypeOK, Record
<1>10. QED  BY <1>3, <1>4, <1>6, <1>8, <1>9 DEF Queue!Init, Queue!Position, Position

LEMMA QueueStep ==
  ASSUME TimedInv, [Next]_vars
  PROVE  [Queue!Next]_<<Sec(now), HighestIssuedPosition, Log, Held, Read>>
<1> USE DEF TimedInv
<1>1. CASE UNCHANGED <<now, records, order, next, mark>>  BY <1>1, QueueUnchanged
<1>2. ASSUME NEW p \in Proc, BackfillBatchWrite(p)
      PROVE  UNCHANGED <<Sec(now), HighestIssuedPosition, Log, Held, Read>>
  BY <1>2, BatchWriteIsHidden
<1>3. ASSUME NEW p \in Proc, BackfillCounter(p) PROVE Queue!Next
  BY <1>3, CounterAdopts DEF Queue!Next
<1>4. ASSUME NEW p \in Proc, SaveEnvelope(p)
      PROVE  Queue!Next \/ UNCHANGED <<now, records, order, next, mark>>
  <2>1. CASE Stored(job[p].env.id)  BY <1>4, <2>1 DEF SaveEnvelope
  <2>2. CASE ~Stored(job[p].env.id)  BY <1>4, <2>2, SaveAccepts DEF Queue!Next
  <2>3. QED  BY <2>1, <2>2
<1>5. ASSUME NEW p \in Proc, DeleteEnvelope(p) PROVE Queue!Next
  BY <1>5, DeleteAcknowledges DEF Queue!Next
<1>6. ASSUME NEW p \in Proc, AdvanceReadMark(p)
      PROVE  Queue!Next \/ UNCHANGED <<now, records, order, next, mark>>
  <2>1. CASE mark' = mark  BY <1>6, <2>1 DEF AdvanceReadMark
  <2>2. CASE mark' # mark  BY <1>6, <2>2, AdvanceJudges DEF Queue!Next
  <2>3. QED  BY <2>1, <2>2
<1>7. ASSUME Tick
      PROVE  Queue!Next \/ UNCHANGED <<Sec(now), HighestIssuedPosition, Log, Held, Read>>
  <2>1. CASE Sec(now') = Sec(now)  BY <1>7, <2>1, TickIsHidden
  <2>2. CASE Sec(now') # Sec(now)  BY <1>7, <2>2, TickPasses DEF Queue!Next
  <2>3. QED  BY <2>1, <2>2
<1>8. ASSUME NEW p \in Proc,
             \/ EnforceSenderQuota(p) \/ SaveEnvelopeDeadline(p) \/ LockMailboxOrdering(p)
             \/ EnsureMailboxOrdering(p) \/ ResolveCursor(p) \/ GetEnvelopeBatchFrom(p)
             \/ EnvelopesAcked(p) \/ StorageError(p)
      PROVE  UNCHANGED <<now, records, order, next, mark>>
  BY <1>8 DEF EnforceSenderQuota, SaveEnvelopeDeadline, LockMailboxOrdering, EnsureMailboxOrdering,
              ResolveCursor, GetEnvelopeBatchFrom, EnvelopesAcked, StorageError, store
<1>9. ASSUME NEW p \in Proc, HandlerStep(p)
      PROVE  \/ Queue!Next
             \/ UNCHANGED <<Sec(now), HighestIssuedPosition, Log, Held, Read>>
             \/ UNCHANGED <<now, records, order, next, mark>>
  BY <1>9, <1>2, <1>3, <1>4, <1>5, <1>6, <1>8 DEF HandlerStep
<1>10. ASSUME \/ \E p \in Proc, e \in Envelope : SendEnvelope(p, e)
              \/ \E p \in Proc, d \in Device, c \in Cursor, rt \in ReadThrough :
                    PollMailbox(p, d, c, rt)
              \/ \E p \in Proc, d \in Device, ids \in SUBSET EnvId, rt \in ReadThrough :
                    AckMailbox(p, d, ids, rt)
              \/ Restart
       PROVE  UNCHANGED <<now, records, order, next, mark>>
  <2>1. ASSUME NEW p \in Proc, NEW e \in Envelope, SendEnvelope(p, e)
        PROVE  UNCHANGED <<now, records, order, next, mark>>
    BY <2>1 DEF SendEnvelope, store
  <2>2. ASSUME NEW p \in Proc, NEW d \in Device, NEW c \in Cursor, NEW rt \in ReadThrough,
               PollMailbox(p, d, c, rt)
        PROVE  UNCHANGED <<now, records, order, next, mark>>
    BY <2>2 DEF PollMailbox, store
  <2>3. ASSUME NEW p \in Proc, NEW d \in Device, NEW ids \in SUBSET EnvId, NEW rt \in ReadThrough,
               AckMailbox(p, d, ids, rt)
        PROVE  UNCHANGED <<now, records, order, next, mark>>
    BY <2>3 DEF AckMailbox, store
  <2>4. ASSUME Restart PROVE UNCHANGED <<now, records, order, next, mark>>
    BY <2>4 DEF Restart, store
  <2>5. QED  BY <1>10, <2>1, <2>2, <2>3, <2>4
<1>11. CASE UNCHANGED vars  BY <1>1, <1>11 DEF vars
<1>12. CASE Next  BY <1>1, <1>7, <1>8, <1>9, <1>10, <1>12 DEF Next
<1>13. QED  BY <1>11, <1>12

-----------------------------------------------------------------------------
(* Theorems.                                                               *)

\* The inductive invariant holds in every reachable state.
THEOREM InductiveInvariant == Spec => []IInv
  BY InitIInv, NextIInv, PTL DEF Spec

\* Every value the relay keeps for a mailbox, and every handler's request, has
\* the type the code gives it.
THEOREM TypeCorrect == Spec => []TypeOK
<1>1. IInv => TypeOK  BY DEF IInv
<1>2. QED  BY <1>1, InductiveInvariant, PTL

\* No stored envelope is ever invisible to the index the poll walks, for any
\* number of handlers, any legacy content and any interruption of the backfill.
THEOREM RecordsAreSelectable == Spec => []EveryRecordSelectable
<1>1. IInv => EveryRecordSelectable  BY DEF IInv
<1>2. QED  BY <1>1, InductiveInvariant, PTL

\* No device's read mark ever passes the highest issued position, although a
\* request's bound check and its write of the mark are separate transactions.
THEOREM MarksStayWithinIssued == Spec => []MarksWithinIssued
<1>1. IInv => MarksWithinIssued  BY DEF IInv
<1>2. QED  BY <1>1, InductiveInvariant, PTL

\* No step of any handler writes an index entry at or below a read mark.
THEOREM NothingStoredUnderAMark == Spec => JudgedPositionsStable
<1>1. IInv /\ [Next]_vars => [\A i \in Position, d \in Device : order'[i] # order[i] => i > mark[d].pos]_vars
  BY WritesAboveMarks
<1>2. QED  BY <1>1, InductiveInvariant, PTL DEF Spec, JudgedPositionsStable

\* No device's read mark expires before an index entry it covers, provided the
\* retention cap the operator configures is within the fixed life of a mark
\* (168 hours by default, against 30 days).
THEOREM MarksOutliveWhatTheyCover ==
  ASSUME RetentionCap <= MarkTTL
  PROVE  Spec => []MarkOutlivesCovered
<1>1. TimedInv => MarkOutlivesCovered  BY DEF TimedInv
<1>2. QED  BY <1>1, TimedInvInit, TimedInvStep, PTL DEF Spec

\* A live read mark never moves back, whichever of two racing reports is written last.
THEOREM LiveMarksMoveForward == Spec => ReadMarkForwardOnly
<1> DEFINE A == \A d \in Device : mark'[d].pos >= mark[d].pos \/ mark[d].deadline <= Sec(now)
<1>1. ASSUME IInv, [Next]_vars PROVE [A]_vars
  <2>1. ASSUME NEW d \in Device, mark'[d] # mark[d], Next
        PROVE  mark'[d].pos >= mark[d].pos \/ mark[d].deadline <= Sec(now)
    <3>1. PICK p \in Proc : AdvanceReadMark(p)
      BY <1>1, <2>1, StoreWriters
    <3>2. /\ job[p].device \in Device /\ job[p].readThrough \in Nat
          /\ mark[d].pos \in Nat /\ mark[d].deadline \in Nat
      BY <1>1, <3>1 DEF IInv, JobShape, TypeOK, AdvanceReadMark
    <3>3. Sec(now) \in Nat  BY <1>1, SecType DEF IInv, TypeOK
    <3>4. ~(mark[d].deadline > Sec(now) /\ job[p].readThrough <= mark[d].pos)
      BY <1>1, <2>1, <3>1, <3>2 DEF AdvanceReadMark, IInv, TypeOK
    <3>5. mark'[d].pos = job[p].readThrough
      BY <1>1, <2>1, <3>1, <3>2 DEF AdvanceReadMark, IInv, TypeOK
    <3>6. QED  BY <3>2, <3>3, <3>4, <3>5
  <2>2. ASSUME NEW d \in Device, mark'[d] = mark[d] PROVE mark'[d].pos >= mark[d].pos
    BY <1>1, <2>2 DEF IInv, TypeOK
  <2>3. QED  BY <1>1, <2>1, <2>2
<1>2. QED  BY <1>1, InductiveInvariant, PTL DEF Spec, ReadMarkForwardOnly

\* What the relay has accepted stays as it was until it is acknowledged or expires:
\* neither a replay, nor a conflicting body, nor a backfill rewrites it.
THEOREM AcceptedStaysAsItWas == Spec => AcceptedEnvelopeImmutable
<1> DEFINE A == /\ \A id \in EnvId : Stored(id) => records'[id] \in {records[id], Absent}
                /\ \A i \in Position : i < next => order'[i] = order[i]
<1>1. ASSUME IInv, Next PROVE A
  <2>1. \/ records' = records
        \/ \E p \in Proc : SaveEnvelope(p) \/ DeleteEnvelope(p)
    BY <1>1, StoreWriters DEF KeepsDeadlines
  <2>2. \/ order' = order
        \/ \E p \in Proc : BackfillBatchWrite(p) \/ SaveEnvelope(p)
    BY <1>1, StoreWriters DEF KeepsDeadlines
  <2>3. ASSUME NEW id \in EnvId, Stored(id) PROVE records'[id] \in {records[id], Absent}
    <3>1. ASSUME NEW p \in Proc, SaveEnvelope(p) PROVE records'[id] = records[id]
      BY <1>1, <2>3, <3>1 DEF SaveEnvelope, IInv, TypeOK
    <3>2. ASSUME NEW p \in Proc, DeleteEnvelope(p) PROVE records'[id] \in {records[id], Absent}
      BY <1>1, <3>2 DEF DeleteEnvelope, IInv, TypeOK
    <3>3. QED  BY <2>1, <3>1, <3>2
  <2>4. ASSUME NEW i \in Position, i < next PROVE order'[i] = order[i]
    <3>1. i \in Nat /\ next \in Nat  BY <1>1, NumbersAssumption DEF Position, IInv, TypeOK
    <3>2. ASSUME NEW p \in Proc, BackfillBatchWrite(p) PROVE FALSE
      <4>1. next = 0  BY <1>1, <3>2 DEF IInv, BackfillState, BackfillBatchWrite
      <4>2. QED  BY <2>4, <3>1, <4>1
    <3>3. ASSUME NEW p \in Proc, SaveEnvelope(p) PROVE order'[i] = order[i]
      <4>1. next # 0  BY <1>1, <3>3 DEF IInv, CounterBeforeCommit, SaveEnvelope
      <4>2. QED  BY <1>1, <2>4, <3>1, <3>3, <4>1 DEF SaveEnvelope, IInv, TypeOK
    <3>4. QED  BY <2>2, <3>2, <3>3
  <2>5. QED  BY <2>3, <2>4
<1>2. IInv /\ [Next]_vars => [A]_vars  BY <1>1
<1>3. QED  BY <1>2, InductiveInvariant, PTL DEF Spec, AcceptedEnvelopeImmutable

\* The mailbox implements MailboxQueue, whatever sends, polls, acks, backfills, storage
\* errors and restarts interleave, under the same proviso on the retention cap: a mark
\* that expired under a stored envelope would be no step of the queue.
THEOREM MailboxImplementsQueue ==
  ASSUME RetentionCap <= MarkTTL
  PROVE  Spec => QueueSpec
BY QueueInit, QueueStep, TimedInvInit, TimedInvStep, PTL DEF Spec, QueueSpec, Queue!Spec
=============================================================================
