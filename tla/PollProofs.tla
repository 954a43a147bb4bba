----------------------------- MODULE PollProofs -----------------------------
(***************************************************************************)
(* Proofs about the two ends of an authenticated mailbox poll: the relay's *)
(* challenges (Challenge) and the mobile client that polls (Mobile).       *)
(*                                                                         *)
(* Challenge: what an open transaction has read and nobody has written     *)
(* since is still what the store holds, so the transaction that commits a  *)
(* delete deletes a challenge nobody has used.                             *)
(*                                                                         *)
(* Mobile: a screen is busy exactly while one handler of its own runs, so  *)
(* nothing else moves the sessions that handler works from; what a poll    *)
(* has opened lies beyond what its screen has shown, one message a         *)
(* counter, and stays so when the two are put together.                    *)
(***************************************************************************)
EXTENDS Challenge, Mobile, FiniteSetTheorems, TLAPS

-----------------------------------------------------------------------------
(* The challenges                                                          *)

\* The unwritten part of an open snapshot is current.
SnapshotCurrent ==
    \A p \in Proc :
        /\ Open(p) => \A c \in ChallengeId \ dirty[p] : snap[p][c] = db[c]
        /\ ~Open(p) => dirty[p] = {}

\* An admitted challenge is gone from the store, and so is one never issued.
AdmittedIsSpent ==
    \A c \in ChallengeId :
        /\ admitted[c] <= 1
        /\ admitted[c] = 1 => db[c] = Absent
        /\ c \notin issued => db[c] = Absent /\ admitted[c] = 0

\* A poll presents an issued challenge, which its open transaction has found.
PresentedWasIssued ==
    \A p \in Proc :
        /\ pc[p] # "idle" => presents[p] \in issued
        /\ pc[p] = "commit" => snap[p][presents[p]] # Absent

ChallengeInv == TypeOK /\ SnapshotCurrent /\ AdmittedIsSpent /\ PresentedWasIssued /\ RefusedOnlyByAWinner

LEMMA InitChallengeInv == Init => ChallengeInv
<1> SUFFICES ASSUME Init PROVE ChallengeInv  OBVIOUS
<1>1. TypeOK  BY DEF Init, TxnInit, TypeOK, Open
<1>2. SnapshotCurrent  BY DEF Init, TxnInit, SnapshotCurrent, Open
<1>3. AdmittedIsSpent  BY DEF Init, TxnInit, AdmittedIsSpent
<1>4. PresentedWasIssued  BY DEF Init, PresentedWasIssued
<1>5. RefusedOnlyByAWinner  BY DEF Init, RefusedOnlyByAWinner
<1>6. QED  BY <1>1, <1>2, <1>3, <1>4, <1>5 DEF ChallengeInv

LEMMA CreateChallengeStep ==
  ASSUME ChallengeInv, NEW p \in Proc, NEW d \in Device, CreateChallenge(p, d)
  PROVE  ChallengeInv'
<1>1. PICK c \in ChallengeId \ issued :
        /\ db' = [db EXCEPT ![c] = [device |-> d, expires |-> now + TTL,
                                    deadline |-> now + TTL + Grace]]
        /\ dirty' = [q \in Proc |-> IF Open(q) THEN dirty[q] \cup {c} ELSE {}]
        /\ issued' = issued \cup {c}
  BY DEF CreateChallenge
<1>2. UNCHANGED <<snap, now, pc, presents, admitted>>  BY DEF CreateChallenge
<1>3. [device |-> d, expires |-> now + TTL, deadline |-> now + TTL + Grace] \in MailboxChallenge
  BY ChallengeAssumption DEF MailboxChallenge, ChallengeInv, TypeOK
<1>4. TypeOK'
  <2>1. db' \in [ChallengeId -> MailboxChallenge \cup {Absent}]  BY <1>1, <1>3 DEF ChallengeInv, TypeOK
  <2>2. dirty' \in [Proc -> SUBSET ChallengeId]  BY <1>1 DEF ChallengeInv, TypeOK
  <2>3. QED  BY <1>1, <1>2, <2>1, <2>2 DEF ChallengeInv, TypeOK, Open
<1>5. SnapshotCurrent'  BY <1>1, <1>2 DEF ChallengeInv, TypeOK, SnapshotCurrent, Open
<1>6. AdmittedIsSpent'  BY <1>1, <1>2 DEF ChallengeInv, TypeOK, AdmittedIsSpent
<1>7. PresentedWasIssued'  BY <1>1, <1>2 DEF ChallengeInv, TypeOK, PresentedWasIssued
<1>8. RefusedOnlyByAWinner'
  BY <1>1, <1>2 DEF ChallengeInv, TypeOK, RefusedOnlyByAWinner, PresentedWasIssued, Open
<1>9. QED  BY <1>4, <1>5, <1>6, <1>7, <1>8 DEF ChallengeInv

LEMMA GetValidStep ==
  ASSUME ChallengeInv, NEW p \in Proc, NEW c \in ChallengeId, NEW d \in Device, GetValid(p, c, d)
  PROVE  ChallengeInv'
<1>1. TypeOK'
  BY ChallengeAssumption DEF ChallengeInv, TypeOK, GetValid, Open
<1>2. SnapshotCurrent'  BY DEF ChallengeInv, SnapshotCurrent, GetValid, Open
<1>3. AdmittedIsSpent'  BY DEF ChallengeInv, AdmittedIsSpent, GetValid
<1>4. c \in issued  BY DEF ChallengeInv, AdmittedIsSpent, GetValid, Valid, Stored
<1>5. PresentedWasIssued'  BY <1>4 DEF ChallengeInv, TypeOK, PresentedWasIssued, GetValid
<1>6. RefusedOnlyByAWinner'  BY DEF ChallengeInv, TypeOK, RefusedOnlyByAWinner, GetValid
<1>7. QED  BY <1>1, <1>2, <1>3, <1>5, <1>6 DEF ChallengeInv

LEMMA InvalidateReadStep ==
  ASSUME ChallengeInv, NEW p \in Proc, InvalidateRead(p)
  PROVE  ChallengeInv'
<1>1. CASE Valid(db, presents[p])
  <2>1. /\ snap' = [snap EXCEPT ![p] = db]
        /\ pc' = [pc EXCEPT ![p] = "commit"]
        /\ UNCHANGED <<db, dirty, presents, now, issued, admitted>>
    BY <1>1 DEF InvalidateRead, Begin
  <2>2. db # NoTxn /\ ~Open(p) /\ pc[p] = "invalidate"
    BY ChallengeAssumption DEF ChallengeInv, TypeOK, MailboxChallenge, InvalidateRead
  <2>3. TypeOK'  BY <2>1, <2>2 DEF ChallengeInv, TypeOK, Open
  <2>4. SnapshotCurrent'
    <3> SUFFICES ASSUME NEW q \in Proc
                 PROVE  /\ Open(q)' => \A c \in ChallengeId \ dirty'[q] : snap'[q][c] = db'[c]
                        /\ ~Open(q)' => dirty'[q] = {}
      BY DEF SnapshotCurrent
    <3>1. CASE q = p
      <4>1. snap'[q] = db  BY <2>1, <3>1 DEF ChallengeInv, TypeOK
      <4>2. QED  BY <2>1, <2>2, <4>1 DEF Open
    <3>2. CASE q # p
      <4>1. snap'[q] = snap[q]  BY <2>1, <3>2 DEF ChallengeInv, TypeOK
      <4>2. QED  BY <2>1, <4>1 DEF ChallengeInv, SnapshotCurrent, Open
    <3>3. QED  BY <3>1, <3>2
  <2>5. AdmittedIsSpent'  BY <2>1 DEF ChallengeInv, AdmittedIsSpent
  <2>6. PresentedWasIssued'
    BY <1>1, <2>1, <2>2 DEF ChallengeInv, TypeOK, PresentedWasIssued, Valid, Stored
  <2>7. RefusedOnlyByAWinner'
    BY <2>1, <2>2 DEF ChallengeInv, TypeOK, RefusedOnlyByAWinner, SnapshotCurrent
  <2>8. QED  BY <2>3, <2>4, <2>5, <2>6, <2>7 DEF ChallengeInv
<1>2. CASE ~Valid(db, presents[p])
  <2>1. /\ pc' = [pc EXCEPT ![p] = "idle"]
        /\ presents' = [presents EXCEPT ![p] = Absent]
        /\ UNCHANGED <<db, snap, dirty, now, issued, admitted>>
    BY <1>2 DEF InvalidateRead, Answer
  <2>2. pc[p] = "invalidate"  BY DEF InvalidateRead
  <2>3. TypeOK'  BY <2>1, <2>2, ChallengeAssumption DEF ChallengeInv, TypeOK, Open
  <2>4. SnapshotCurrent'  BY <2>1 DEF ChallengeInv, SnapshotCurrent, Open
  <2>5. AdmittedIsSpent'  BY <2>1 DEF ChallengeInv, AdmittedIsSpent
  <2>6. PresentedWasIssued'  BY <2>1 DEF ChallengeInv, TypeOK, PresentedWasIssued
  <2>7. RefusedOnlyByAWinner'  BY <2>1 DEF ChallengeInv, TypeOK, RefusedOnlyByAWinner
  <2>8. QED  BY <2>3, <2>4, <2>5, <2>6, <2>7 DEF ChallengeInv
<1>3. QED  BY <1>1, <1>2

LEMMA InvalidateCommitStep ==
  ASSUME ChallengeInv, NEW p \in Proc, InvalidateCommit(p)
  PROVE  ChallengeInv'
<1> DEFINE c == presents[p]
           delete == [k \in {c} |-> Absent]
<1>1. c \in ChallengeId /\ c \in issued /\ pc[p] = "commit" /\ Open(p) /\ snap[p][c] # Absent
  BY DEF InvalidateCommit, ChallengeInv, TypeOK, PresentedWasIssued
<1>2. /\ pc' = [pc EXCEPT ![p] = "idle"]
      /\ presents' = [presents EXCEPT ![p] = Absent]
      /\ UNCHANGED <<now, issued>>
  BY DEF InvalidateCommit, Answer
<1>3. DOMAIN delete = {c} /\ delete[c] = Absent  OBVIOUS
<1>4. CASE Conflicts(p, InvalidateReads(c), delete)
  <2>1. /\ snap' = [snap EXCEPT ![p] = NoTxn]
        /\ dirty' = [dirty EXCEPT ![p] = {}]
        /\ UNCHANGED <<db, admitted>>
    BY <1>4 DEF InvalidateCommit, Discard
  <2>2. TypeOK'  BY <1>1, <1>2, <2>1, ChallengeAssumption DEF ChallengeInv, TypeOK, Open
  <2>3. SnapshotCurrent'  BY <2>1 DEF ChallengeInv, TypeOK, SnapshotCurrent, Open
  <2>4. AdmittedIsSpent'  BY <1>2, <2>1 DEF ChallengeInv, AdmittedIsSpent
  <2>5. PresentedWasIssued'  BY <1>2, <2>1 DEF ChallengeInv, TypeOK, PresentedWasIssued
  <2>6. RefusedOnlyByAWinner'  BY <1>2, <2>1 DEF ChallengeInv, TypeOK, RefusedOnlyByAWinner
  <2>7. QED  BY <2>2, <2>3, <2>4, <2>5, <2>6 DEF ChallengeInv
<1>5. CASE ~Conflicts(p, InvalidateReads(c), delete)
  <2>1. Commit(p, delete) /\ admitted' = [admitted EXCEPT ![c] = @ + 1]
    BY <1>5 DEF InvalidateCommit
  <2>2. /\ db' = [k \in DOMAIN db |-> IF k = c THEN Absent ELSE db[k]]
        /\ snap' = [snap EXCEPT ![p] = NoTxn]
        /\ dirty' = [q \in Proc |-> IF q # p /\ Open(q) THEN dirty[q] \cup {c} ELSE {}]
    BY <1>3, <2>1 DEF Commit
  <2>3. c \notin dirty[p]
    BY <1>3, <1>5 DEF Conflicts, InvalidateReads
  <2> HIDE DEF delete
  <2>4. db[c] # Absent  BY <1>1, <2>3 DEF ChallengeInv, SnapshotCurrent
  <2> HIDE DEF c
  <2>5. admitted[c] = 0
    <3>1. admitted[c] \in Nat  BY <1>1 DEF ChallengeInv, TypeOK
    <3>2. admitted[c] <= 1 /\ admitted[c] # 1  BY <1>1, <2>4 DEF ChallengeInv, AdmittedIsSpent
    <3>3. QED  BY <3>1, <3>2
  <2>6. TypeOK'
    <3>1. db' \in [ChallengeId -> MailboxChallenge \cup {Absent}]  BY <2>2 DEF ChallengeInv, TypeOK
    <3>2. dirty' \in [Proc -> SUBSET ChallengeId]  BY <1>1, <2>2 DEF ChallengeInv, TypeOK
    <3>3. admitted' \in [ChallengeId -> Nat]
      <4>1. admitted' = [admitted EXCEPT ![c] = 1]  BY <2>1, <2>5
      <4>2. QED  BY <4>1 DEF ChallengeInv, TypeOK
    <3>4. QED
      BY <1>1, <1>2, <2>2, <3>1, <3>2, <3>3, ChallengeAssumption DEF ChallengeInv, TypeOK, Open
  <2>7. SnapshotCurrent'  BY <2>2 DEF ChallengeInv, TypeOK, SnapshotCurrent, Open
  <2>8. AdmittedIsSpent'  BY <1>1, <1>2, <2>1, <2>2, <2>5 DEF ChallengeInv, TypeOK, AdmittedIsSpent
  <2>9. PresentedWasIssued'  BY <1>2, <2>2 DEF ChallengeInv, TypeOK, PresentedWasIssued
  <2>10. RefusedOnlyByAWinner'
    BY <1>1, <1>2, <2>1, <2>2, <2>5 DEF ChallengeInv, TypeOK, RefusedOnlyByAWinner
  <2>11. QED  BY <2>6, <2>7, <2>8, <2>9, <2>10 DEF ChallengeInv
<1>6. QED  BY <1>4, <1>5

LEMMA RestartStep == ChallengeInv /\ Restart => ChallengeInv'
<1> SUFFICES ASSUME ChallengeInv, Restart PROVE ChallengeInv'  OBVIOUS
<1>1. TypeOK'  BY DEF ChallengeInv, TypeOK, Restart, Open
<1>2. SnapshotCurrent'  BY DEF SnapshotCurrent, Restart, Open
<1>3. AdmittedIsSpent'  BY DEF ChallengeInv, AdmittedIsSpent, Restart
<1>4. PresentedWasIssued'  BY DEF PresentedWasIssued, Restart
<1>5. RefusedOnlyByAWinner'  BY DEF RefusedOnlyByAWinner, Restart
<1>6. QED  BY <1>1, <1>2, <1>3, <1>4, <1>5 DEF ChallengeInv

\* Steps that leave all but the clock alone.
LEMMA ClockStep ==
  ASSUME ChallengeInv, now' \in Nat, UNCHANGED <<db, snap, dirty, issued, pc, presents, admitted>>
  PROVE  ChallengeInv'
<1>1. TypeOK'  BY DEF ChallengeInv, TypeOK, Open
<1>2. SnapshotCurrent'  BY DEF ChallengeInv, SnapshotCurrent, Open
<1>3. AdmittedIsSpent' /\ PresentedWasIssued' /\ RefusedOnlyByAWinner'
  BY DEF ChallengeInv, AdmittedIsSpent, PresentedWasIssued, RefusedOnlyByAWinner
<1>4. QED  BY <1>1, <1>2, <1>3 DEF ChallengeInv

LEMMA NextChallengeInv == ChallengeInv /\ [Next]_vars => ChallengeInv'
<1> SUFFICES ASSUME ChallengeInv, [Next]_vars PROVE ChallengeInv'  OBVIOUS
<1>1. CASE \E p \in Proc, d \in Device : CreateChallenge(p, d)  BY <1>1, CreateChallengeStep
<1>2. CASE \E p \in Proc, c \in ChallengeId, d \in Device : GetValid(p, c, d)
  BY <1>2, GetValidStep
<1>3. CASE \E p \in Proc : InvalidateRead(p)  BY <1>3, InvalidateReadStep
<1>4. CASE \E p \in Proc : InvalidateCommit(p)  BY <1>4, InvalidateCommitStep
<1>5. CASE Restart  BY <1>5, RestartStep
<1>6. CASE Tick
  <2>1. now' \in Nat  BY <1>6 DEF Tick, ChallengeInv, TypeOK
  <2>2. QED  BY <1>6, <2>1, ClockStep DEF Tick
<1>7. CASE UNCHANGED vars
  <2>1. now' \in Nat  BY <1>7 DEF vars, ChallengeInv, TypeOK
  <2>2. QED  BY <1>7, <2>1, ClockStep DEF vars
<1>8. QED  BY <1>1, <1>2, <1>3, <1>4, <1>5, <1>6, <1>7 DEF Next

\* The inductive invariant holds in every reachable state, for any number of
\* handlers, challenges and devices.
THEOREM ChallengeInvariant == Spec => []ChallengeInv
BY InitChallengeInv, NextChallengeInv, PTL DEF Spec

\* No challenge ever admits two polls: Invalidate is single use under any
\* interleaving, repeated delivery and restart.
THEOREM ChallengeSingleUse == Spec => []AdmittedOnce
<1>1. ChallengeInv => AdmittedOnce  BY DEF ChallengeInv, AdmittedIsSpent, AdmittedOnce
<1>2. QED  BY <1>1, ChallengeInvariant, PTL

\* A poll refused over a conflict always lost to one that was admitted.
THEOREM ConflictHasAWinner == Spec => []RefusedOnlyByAWinner
<1>1. ChallengeInv => RefusedOnlyByAWinner  BY DEF ChallengeInv
<1>2. QED  BY <1>1, ChallengeInvariant, PTL

-----------------------------------------------------------------------------
(* The mobile client: its inductive invariant                              *)

\* A handler that keeps the messaging screen it belongs to busy.
RunsOn(h, p) == h.phone = p /\ h.live /\ h.kind # "register"

OneRuns ==
    \A p \in Phone :
        /\ view[p].busy <=> \E h \in handlers : RunsOn(h, p)
        /\ \A g, h \in handlers : RunsOn(g, p) /\ RunsOn(h, p) => g = h

StagesOfKind ==
    \A h \in handlers :
        /\ h.stage = "register" <=> h.kind = "register"
        /\ h.stage \in {"poll", "open", "show", "ack"} => h.kind = "poll"

\* No counter runs ahead of the messages composed.
Numbered(e, n) == e.counter < e.id /\ e.id <= n

CountersBounded ==
    /\ \A p \in Phone : \A e \in mailbox[p] : Numbered(e, composed)
    /\ \A p, q \in Phone : view[p].outbound[q] <= composed
    /\ \A h \in handlers :
          /\ \A e \in h.batch : Numbered(e, composed)
          /\ h.unread \subseteq h.batch
          /\ \A q \in Phone : h.outbound[q] <= composed

\* What a running poll has opened lies between the counters of its screen and its
\* own, one envelope under each.
Apart(es) == \A e, f \in es : e.from = f.from /\ e.counter = f.counter => e = f

AheadOf(h, inbound) ==
    /\ \A q \in Phone : inbound[q] <= h.inbound[q]
    /\ \A e \in h.opened : inbound[e.from] <= e.counter /\ e.counter < h.inbound[e.from]
    /\ Apart(h.opened)

Reading(h) == h.live /\ h.kind = "poll" /\ h.stage # "ack"

LivePolls == \A h \in handlers : Reading(h) => AheadOf(h, view[h.phone].inbound)

\* A screen's counters have passed what it shows.
Passed(es, inbound) == \A e \in es : e.counter < inbound[e.from]

ShownPassed == \A p \in Phone : Apart(view[p].shown) /\ Passed(view[p].shown, view[p].inbound)

\* The id of an envelope is its own, and a batch was read from the mailbox of its phone.
IdsApart ==
    /\ \A p, q \in Phone : \A e \in mailbox[p], f \in mailbox[q] : e.id = f.id => p = q /\ e = f
    /\ \A h \in handlers : \A b \in h.batch : \A q \in Phone : \A e \in mailbox[q] :
          e.id = b.id => q = h.phone /\ e = b

\* No two handlers of a phone are one element of handlers.
HandlersApart == \A g, h \in handlers : g.phone = h.phone /\ g.id = h.id => g = h

\* What a poll has read it opens, passes over or still has to open, and it comes to
\* its acknowledgement when nothing of its batch is left without an event of its own.
Judged(h, f) ==
    /\ \A e \in h.batch : e \in h.unread \/ e \in h.opened \/ f[e.id] # {}
    /\ h.stage = "show" => h.unread = {}
    /\ h.stage = "ack" => \A e \in h.batch : f[e.id] # {}

PollsJudge == \A h \in handlers : Judged(h, fate)

Typed == MobileTypeOK /\ IsFiniteSet(handlers)

MobileInv ==
    /\ Typed /\ HandlersApart /\ StagesOfKind /\ OneRuns
    /\ CountersBounded /\ LivePolls /\ ShownPassed /\ IdsApart /\ PollsJudge /\ AckedWasJudged

-----------------------------------------------------------------------------
(* Handlers and screens as records                                         *)

LEMMA HandlerFields ==
  ASSUME NEW h \in Handler
  PROVE  /\ h.id \in 1 .. MaxHandlers /\ h.phone \in Phone /\ h.live \in BOOLEAN
         /\ h.kind \in {"register", "publish", "load", "send", "poll"}
         /\ h.to \in Phone /\ h.stage \in Stage /\ h.have \in BOOLEAN
         /\ h.inbound \in Counters /\ h.outbound \in Counters
         /\ h.batch \in SUBSET Envelope /\ h.unread \in SUBSET Envelope
         /\ h.opened \in SUBSET Envelope
BY DEF Handler

\* What a handler that goes on keeps.
Same(h, u) ==
    /\ u.id = h.id /\ u.phone = h.phone /\ u.live = h.live /\ u.kind = h.kind /\ u.to = h.to
    /\ u.outbound = h.outbound

LEMMA StaleFields ==
  ASSUME NEW h \in Handler
  PROVE  LET u == [h EXCEPT !.live = FALSE]
         IN  /\ u \in Handler
             /\ u.id = h.id /\ u.phone = h.phone /\ u.live = FALSE /\ u.kind = h.kind
             /\ u.stage = h.stage /\ u.batch = h.batch /\ u.unread = h.unread
             /\ u.opened = h.opened /\ u.outbound = h.outbound
BY DEF Handler

LEMMA OnwardFields ==
  ASSUME NEW h \in Handler, NEW s \in Stage
  PROVE  LET u == [h EXCEPT !.stage = s, !.have = TRUE]
         IN  /\ u \in Handler /\ Same(h, u) /\ u.stage = s
             /\ u.inbound = h.inbound /\ u.batch = h.batch /\ u.unread = h.unread
             /\ u.opened = h.opened
BY DEF Handler, Same

LEMMA BatchFields ==
  ASSUME NEW h \in Handler, NEW es \in SUBSET Envelope
  PROVE  LET u == [h EXCEPT !.stage = "open", !.batch = es, !.unread = es]
         IN  /\ u \in Handler /\ Same(h, u) /\ u.stage = "open"
             /\ u.inbound = h.inbound /\ u.batch = es /\ u.unread = es /\ u.opened = h.opened
BY DEF Handler, Same, Stage

Reads(h, es, s) == [h EXCEPT !.unread = es, !.stage = s]

LEMMA ReadsFields ==
  ASSUME NEW h \in Handler, NEW es \in SUBSET Envelope, NEW s \in Stage
  PROVE  LET u == Reads(h, es, s)
         IN  /\ u \in Handler /\ Same(h, u) /\ u.stage = s
             /\ u.inbound = h.inbound /\ u.batch = h.batch /\ u.unread = es
             /\ u.opened = h.opened
BY DEF Handler, Same, Reads

HasOpened(h, c, es) == [h EXCEPT !.inbound = c, !.opened = es]

LEMMA OpenedFields ==
  ASSUME NEW h \in Handler, NEW c \in Counters, NEW es \in SUBSET Envelope
  PROVE  LET u == HasOpened(h, c, es)
         IN  /\ u \in Handler /\ Same(h, u) /\ u.stage = h.stage
             /\ u.inbound = c /\ u.batch = h.batch /\ u.unread = h.unread /\ u.opened = es
BY DEF Handler, Same, HasOpened

LEMMA AckFields ==
  ASSUME NEW h \in Handler
  PROVE  LET u == [h EXCEPT !.stage = "ack"]
         IN  /\ u \in Handler /\ Same(h, u) /\ u.stage = "ack"
             /\ u.inbound = h.inbound /\ u.batch = h.batch /\ u.unread = h.unread
             /\ u.opened = h.opened
BY DEF Handler, Same, Stage

LEMMA ViewFields ==
  ASSUME NEW v \in View
  PROVE  /\ v.busy \in BOOLEAN /\ v.published \in BOOLEAN /\ v.loaded \in SUBSET Phone
         /\ v.outbound \in Counters /\ v.inbound \in Counters /\ v.shown \in SUBSET Envelope
BY DEF View

\* Two screens that differ in no session and no message.
SameRead(v, w) == w.inbound = v.inbound /\ w.shown = v.shown

LEMMA BusyFields ==
  ASSUME NEW v \in View, NEW b \in BOOLEAN
  PROVE  LET w == [v EXCEPT !.busy = b]
         IN  w \in View /\ w.busy = b /\ SameRead(v, w) /\ w.outbound = v.outbound
BY DEF View, SameRead

LEMMA KeptFields ==
  ASSUME NEW v \in View, NEW ps \in SUBSET Phone
  PROVE  LET w == [v EXCEPT !.published = TRUE, !.loaded = ps]
         IN  w \in View /\ w.busy = v.busy /\ SameRead(v, w) /\ w.outbound = v.outbound
BY DEF View, SameRead

LEMMA LoadedFields ==
  ASSUME NEW v \in View, NEW ps \in SUBSET Phone
  PROVE  LET w == [v EXCEPT !.loaded = ps]
         IN  w \in View /\ w.busy = v.busy /\ SameRead(v, w) /\ w.outbound = v.outbound
BY DEF View, SameRead

LEMMA OutboundFields ==
  ASSUME NEW v \in View, NEW c \in Counters
  PROVE  LET w == [v EXCEPT !.outbound = c]
         IN  w \in View /\ w.busy = v.busy /\ SameRead(v, w) /\ w.outbound = c
BY DEF View, SameRead

Shows(v, c, es) == [v EXCEPT !.inbound = c, !.shown = es]

LEMMA ShownFields ==
  ASSUME NEW v \in View, NEW c \in Counters, NEW es \in SUBSET Envelope
  PROVE  LET w == Shows(v, c, es)
         IN  w \in View /\ w.busy = v.busy /\ w.inbound = c /\ w.shown = es
             /\ w.outbound = v.outbound
BY DEF View, Shows

LEMMA FreshFields ==
  /\ Zero \in Counters /\ FreshView \in View
  /\ FreshView.busy = FALSE /\ FreshView.inbound = Zero /\ FreshView.outbound = Zero
  /\ FreshView.shown = {}
BY MobileAssumption DEF Zero, FreshView, View, Counters

\* A phone with room for one more handler has an id to give it.
LEMMA FreeId ==
  ASSUME handlers \subseteq Handler, IsFiniteSet(handlers), NEW p \in Phone, Room(p)
  PROVE  \E i \in 1 .. MaxHandlers : \A h \in Of(p) : h.id # i
<1> DEFINE f == [h \in Of(p) |-> h.id]
           ids == {f[h] : h \in Of(p)}
<1>1. IsFiniteSet(Of(p))  BY FS_Subset DEF Of
<1>2. f \in Surjection(Of(p), ids)  BY DEF Surjection
<1>3. IsFiniteSet(ids) /\ Cardinality(ids) <= Cardinality(Of(p))
  <2> HIDE DEF f, ids
  <2>1. QED  BY <1>1, <1>2, FS_Surjection
<1>4. SUFFICES ASSUME \A i \in 1 .. MaxHandlers : \E h \in Of(p) : h.id = i PROVE FALSE
  OBVIOUS
<1>5. 1 .. MaxHandlers \in SUBSET ids
  <2> SUFFICES ASSUME NEW i \in 1 .. MaxHandlers PROVE i \in ids  OBVIOUS
  <2>1. PICK h \in Of(p) : h.id = i  BY <1>4
  <2>2. f[h] = i  BY <2>1
  <2>3. QED  BY <2>2
<1> HIDE DEF f, ids
<1>6. Cardinality(1 .. MaxHandlers) <= Cardinality(ids)  BY <1>3, <1>5, FS_Subset
<1>7. Cardinality(1 .. MaxHandlers) = MaxHandlers  BY MobileAssumption, FS_Interval
<1>8. Cardinality(Of(p)) \in Nat /\ Cardinality(ids) \in Nat  BY <1>1, <1>3, FS_CardinalityType
<1>9. QED  BY <1>3, <1>6, <1>7, <1>8, MobileAssumption DEF Room

Kinds == {"register", "publish", "load", "send", "poll"}

\* A handler that has read nothing yet, under an id of its own.
Newcomer(n, p) ==
    /\ n \in Handler /\ n.phone = p /\ n.live = TRUE
    /\ n.inbound = (IF n.kind = "poll" THEN view[p].inbound ELSE Zero)
    /\ n.outbound = (IF n.kind = "send" THEN view[p].outbound ELSE Zero)
    /\ n.batch = {} /\ n.unread = {} /\ n.opened = {}
    /\ \A h \in handlers : h.phone = p => h.id # n.id

LEMMA StartedFields ==
  ASSUME Typed, NEW p \in Phone, Room(p), NEW kind \in Kinds, NEW to \in Phone,
         NEW stage \in Stage
  PROVE  LET n == Started(p, kind, to, stage)
         IN  Newcomer(n, p) /\ n.kind = kind /\ n.stage = stage
<1> DEFINE n == Started(p, kind, to, stage)
<1>1. view[p] \in View  BY DEF Typed, MobileTypeOK
<1>2. n.id \in 1 .. MaxHandlers /\ \A h \in Of(p) : h.id # n.id
  <2>1. \E i \in 1 .. MaxHandlers : \A h \in Of(p) : h.id # i
    BY FreeId DEF Typed, MobileTypeOK
  <2>2. n.id = CHOOSE i \in 1 .. MaxHandlers : \A h \in Of(p) : h.id # i  BY DEF Started
  <2> HIDE DEF n
  <2>3. QED  BY <2>1, <2>2
<1>3. Have(p, kind, to) \in BOOLEAN
  <2>1. view[p].published \in BOOLEAN  BY <1>1, ViewFields
  <2>2. (to \in view[p].loaded) \in BOOLEAN  OBVIOUS
  <2>3. CASE kind = "poll" \/ to = p
    <3>1. Have(p, kind, to) = view[p].published  BY <2>3 DEF Have
    <3>2. QED  BY <2>1, <3>1
  <2>4. CASE ~(kind = "poll" \/ to = p)
    <3>1. Have(p, kind, to) = (to \in view[p].loaded)  BY <2>4 DEF Have
    <3>2. QED  BY <2>2, <3>1
  <2>5. QED  BY <2>3, <2>4
<1>4. (IF kind = "poll" THEN view[p].inbound ELSE Zero) \in Counters
  BY <1>1, ViewFields, FreshFields
<1>5. (IF kind = "send" THEN view[p].outbound ELSE Zero) \in Counters
  BY <1>1, ViewFields, FreshFields
<1>6. PICK i \in 1 .. MaxHandlers : i = n.id  BY <1>2
<1>7. PICK b \in BOOLEAN : b = Have(p, kind, to)  BY <1>3
<1>8. PICK c \in Counters : c = (IF kind = "poll" THEN view[p].inbound ELSE Zero)  BY <1>4
<1>9. PICK d \in Counters : d = (IF kind = "send" THEN view[p].outbound ELSE Zero)  BY <1>5
<1>10. i = CHOOSE j \in 1 .. MaxHandlers : \A h \in Of(p) : h.id # j  BY <1>6 DEF Started
<1>11. n = [id |-> i, phone |-> p, live |-> TRUE, kind |-> kind, to |-> to, stage |-> stage,
            have |-> b, inbound |-> c, outbound |-> d, batch |-> {}, unread |-> {}, opened |-> {}]
  BY <1>7, <1>8, <1>9, <1>10 DEF Started
<1> HIDE DEF n
<1>12. n \in Handler  BY <1>11 DEF Handler, Kinds
<1>13. \A h \in handlers : h.phone = p => h.id # n.id  BY <1>2 DEF Of
<1>14. QED  BY <1>8, <1>9, <1>11, <1>12, <1>13 DEF n, Newcomer

-----------------------------------------------------------------------------
(* Which handler runs                                                      *)

OneRunsAt(p) ==
    /\ view[p].busy <=> \E h \in handlers : RunsOn(h, p)
    /\ \A g, h \in handlers : RunsOn(g, p) /\ RunsOn(h, p) => g = h

\* Nothing of the phone changes but what the property does not look at.
LEMMA OneRunsFrame ==
  ASSUME NEW p \in Phone, OneRunsAt(p), view'[p].busy = view[p].busy,
         \A g : RunsOn(g, p) => (g \in handlers' <=> g \in handlers)
  PROVE  OneRunsAt(p)'
BY DEF OneRunsAt, RunsOn

LEMMA OneRunsGoes ==
  ASSUME NEW p \in Phone, OneRunsAt(p), view'[p].busy = view[p].busy,
         NEW h \in handlers, NEW u, Same(h, u), handlers' = (handlers \ {h}) \cup {u}
  PROVE  OneRunsAt(p)'
<1>1. RunsOn(u, p) <=> RunsOn(h, p)  BY DEF RunsOn, Same
<1>2. QED  BY <1>1 DEF OneRunsAt, RunsOn

LEMMA OneRunsEnds ==
  ASSUME NEW p \in Phone, OneRunsAt(p), NEW h \in handlers, h.kind # "register",
         handlers' = handlers \ {h},
         view'[p].busy = (IF h.phone = p /\ h.live THEN FALSE ELSE view[p].busy),
         view[p].busy \in BOOLEAN
  PROVE  OneRunsAt(p)'
BY DEF OneRunsAt, RunsOn

LEMMA OneRunsStarts ==
  ASSUME NEW p \in Phone, OneRunsAt(p), ~view[p].busy, NEW n, RunsOn(n, p),
         handlers' = handlers \cup {n}, view'[p].busy = TRUE
  PROVE  OneRunsAt(p)'
BY DEF OneRunsAt, RunsOn

LEMMA OneRunsCleared ==
  ASSUME NEW p \in Phone, ~view'[p].busy, \A h \in handlers' : h.phone = p => ~h.live
  PROVE  OneRunsAt(p)'
BY DEF OneRunsAt, RunsOn

-----------------------------------------------------------------------------
(* What a poll has opened and what a screen shows                          *)

LEMMA LivePollsFrame ==
  ASSUME LivePolls,
         \A g \in handlers' : Reading(g) =>
            \/ AheadOf(g, view'[g.phone].inbound)
            \/ g \in handlers /\ view'[g.phone].inbound = view[g.phone].inbound
  PROVE  LivePolls'
BY DEF LivePolls, Reading, AheadOf, Apart

LEMMA ShownFrame ==
  ASSUME ShownPassed,
         \A p \in Phone : \/ SameRead(view[p], view'[p])
                          \/ Apart(view'[p].shown) /\ Passed(view'[p].shown, view'[p].inbound)
  PROVE  ShownPassed'
BY DEF ShownPassed, SameRead, Apart, Passed

-----------------------------------------------------------------------------
(* The mailboxes                                                           *)

\* A handler reads and numbers as one there was before.
Follows(g, f) ==
    g.phone = f.phone /\ g.batch = f.batch /\ g.unread \subseteq f.unread /\ g.outbound = f.outbound

LEMMA EnvelopeFields ==
  ASSUME NEW e \in Envelope
  PROVE  e.id \in MessageId /\ e.id \in Nat /\ e.from \in Phone /\ e.counter \in Nat
BY MobileAssumption DEF Envelope, MessageId

LEMMA NumberedMore ==
  ASSUME NEW e \in Envelope, NEW m \in Nat, NEW n \in Nat, m <= n, Numbered(e, m)
  PROVE  Numbered(e, n)
<1>1. e.id \in Nat /\ e.counter \in Nat  BY EnvelopeFields
<1>2. QED  BY <1>1 DEF Numbered

LEMMA CountersFrame ==
  ASSUME Typed, CountersBounded, composed' \in Nat, composed <= composed',
         \A p \in Phone : \A e \in mailbox'[p] : e \in mailbox[p] \/ Numbered(e, composed'),
         \A p \in Phone : \/ view'[p].outbound = view[p].outbound
                          \/ \A q \in Phone : view'[p].outbound[q] <= composed',
         \A g \in handlers' :
            \/ \E f \in handlers : Follows(g, f)
            \/ /\ \A e \in g.batch : Numbered(e, composed')
               /\ g.unread \subseteq g.batch
               /\ \A q \in Phone : g.outbound[q] <= composed'
  PROVE  CountersBounded'
<1>1. composed \in Nat  BY MobileAssumption DEF Typed, MobileTypeOK
<1>2. ASSUME NEW p \in Phone, NEW e \in mailbox'[p] PROVE Numbered(e, composed')
  <2>1. CASE e \in mailbox[p]
    <3>1. e \in Envelope  BY <2>1 DEF Typed, MobileTypeOK
    <3>2. Numbered(e, composed)  BY <2>1 DEF CountersBounded
    <3>3. QED  BY <1>1, <3>1, <3>2, NumberedMore
  <2>2. QED  BY <1>2, <2>1
<1>3. ASSUME NEW p \in Phone, NEW q \in Phone PROVE view'[p].outbound[q] <= composed'
  <2>1. CASE view'[p].outbound = view[p].outbound
    <3>1. view[p].outbound \in Counters  BY ViewFields DEF Typed, MobileTypeOK
    <3>2. view[p].outbound[q] \in Nat  BY <3>1, MobileAssumption DEF Counters
    <3>3. view[p].outbound[q] <= composed  BY DEF CountersBounded
    <3>4. QED  BY <1>1, <2>1, <3>2, <3>3
  <2>2. QED  BY <2>1
<1>4. ASSUME NEW g \in handlers'
      PROVE  /\ \A e \in g.batch : Numbered(e, composed')
             /\ g.unread \subseteq g.batch
             /\ \A q \in Phone : g.outbound[q] <= composed'
  <2>1. CASE \E f \in handlers : Follows(g, f)
    <3>1. PICK f \in handlers : Follows(g, f)  BY <2>1
    <3>2. f \in Handler  BY DEF Typed, MobileTypeOK
    <3>3. /\ \A e \in f.batch : Numbered(e, composed)
          /\ f.unread \subseteq f.batch
          /\ \A q \in Phone : f.outbound[q] <= composed
      BY DEF CountersBounded
    <3>4. f.batch \in SUBSET Envelope /\ f.outbound \in Counters  BY <3>2, HandlerFields
    <3>5. \A e \in f.batch : Numbered(e, composed')  BY <1>1, <3>3, <3>4, NumberedMore
    <3>6. \A q \in Phone : f.outbound[q] <= composed'
      BY <1>1, <3>3, <3>4, MobileAssumption DEF Counters
    <3>7. QED  BY <3>1, <3>3, <3>5, <3>6 DEF Follows
  <2>2. QED  BY <1>4, <2>1
<1>5. QED  BY <1>2, <1>3, <1>4 DEF CountersBounded

LEMMA IdsFrame ==
  ASSUME IdsApart, \A p \in Phone : mailbox'[p] \subseteq mailbox[p],
         handlers' \subseteq Handler,
         \A g \in handlers' : \/ \E f \in handlers : g.phone = f.phone /\ g.batch = f.batch
                              \/ g.batch \subseteq mailbox[g.phone]
  PROVE  IdsApart'
<1>1. \A p, q \in Phone : \A e \in mailbox'[p], f \in mailbox'[q] : e.id = f.id => p = q /\ e = f
  BY DEF IdsApart
<1>2. ASSUME NEW g \in handlers', NEW b \in g.batch, NEW q \in Phone, NEW e \in mailbox'[q],
             e.id = b.id
      PROVE  q = g.phone /\ e = b
  <2>1. e \in mailbox[q]  OBVIOUS
  <2>2. CASE \E f \in handlers : g.phone = f.phone /\ g.batch = f.batch
    BY <1>2, <2>1, <2>2 DEF IdsApart
  <2>3. CASE g.batch \subseteq mailbox[g.phone]
    <3>1. g.phone \in Phone  BY HandlerFields
    <3>2. QED  BY <1>2, <2>1, <2>3, <3>1 DEF IdsApart
  <2>4. QED  BY <1>2, <2>2, <2>3
<1>3. QED  BY <1>1, <1>2 DEF IdsApart

\* What happened to a message is never taken back.
FateGrows ==
    /\ fate' \in [MessageId -> SUBSET Cause]
    /\ \A m \in MessageId : fate[m] \subseteq fate'[m]

LEMMA FateKept ==
  ASSUME Typed, fate' = fate PROVE FateGrows
BY DEF FateGrows, Typed, MobileTypeOK

LEMMA JudgedGrows ==
  ASSUME FateGrows, NEW g \in Handler, NEW f \in Handler, Judged(f, fate), g.batch = f.batch,
         g.unread = f.unread, g.opened = f.opened,
         g.stage = f.stage \/ g.stage \notin {"show", "ack"}
  PROVE  Judged(g, fate')
<1>1. \A e \in g.batch : e.id \in MessageId  BY HandlerFields, EnvelopeFields
<1>2. QED  BY <1>1 DEF Judged, FateGrows

\* Whatever leaves a mailbox has a reason.
LEMMA GoneFrame ==
  ASSUME Typed, AckedWasJudged, composed' = composed, FateGrows,
         \A m \in 1 .. composed : fate'[m] = {} =>
            \A p \in Phone : \A e \in mailbox[p] : e.id = m => e \in mailbox'[p]
  PROVE  AckedWasJudged'
<1> SUFFICES ASSUME NEW m \in 1 .. composed, fate'[m] = {}
             PROVE  \E p \in Phone : \E e \in mailbox'[p] : e.id = m
  BY DEF AckedWasJudged
<1>1. m \in MessageId  BY MobileAssumption DEF Typed, MobileTypeOK, MessageId
<1>2. fate[m] = {}  BY <1>1 DEF FateGrows
<1>3. PICK p \in Phone : \E e \in mailbox[p] : e.id = m  BY <1>2 DEF AckedWasJudged
<1>4. PICK e \in mailbox[p] : e.id = m  BY <1>3
<1>5. QED  BY <1>4

-----------------------------------------------------------------------------
(* Steps of handlers and screens                                           *)

\* The part of the invariant that is about handlers and screens.
Control == HandlersApart /\ StagesOfKind /\ OneRuns /\ LivePolls /\ ShownPassed

LEMMA OneRunsByPhone == OneRuns <=> \A p \in Phone : OneRunsAt(p)
BY DEF OneRuns, OneRunsAt

LEMMA OneRunsByPhoneNext == OneRuns' <=> \A p \in Phone : OneRunsAt(p)'
BY DEF OneRuns, OneRunsAt

LEMMA TypedHandler ==
  ASSUME Typed, NEW h \in handlers
  PROVE  h \in Handler /\ h.phone \in Phone /\ view[h.phone] \in View
<1>1. h \in Handler  BY DEF Typed, MobileTypeOK
<1>2. h.phone \in Phone  BY <1>1, HandlerFields
<1>3. QED  BY <1>1, <1>2 DEF Typed, MobileTypeOK

\* What an update of the screen of h does.
LEMMA Updated ==
  ASSUME Typed, NEW h \in handlers, NEW new \in View, Update(h, new)
  PROVE  /\ view' \in [Phone -> View]
         /\ \A p \in Phone : view'[p] = IF h.live /\ p = h.phone THEN new ELSE view[p]
<1>1. h.phone \in Phone  BY TypedHandler
<1>2. view \in [Phone -> View]  BY DEF Typed, MobileTypeOK
<1>3. CASE h.live
  <2>1. view' = [view EXCEPT ![h.phone] = new]  BY <1>3 DEF Update
  <2>2. QED  BY <1>1, <1>2, <1>3, <2>1
<1>4. CASE ~h.live
  <2>1. view' = view  BY <1>4 DEF Update
  <2>2. QED  BY <1>2, <1>4, <2>1
<1>5. QED  BY <1>3, <1>4

\* A handler ends and leaves sessions and messages alone.
LEMMA Ended ==
  ASSUME Typed, Control, NEW h \in handlers, h.kind # "register", NEW new \in View,
         SameRead(view[h.phone], new), Finally(h, new)
  PROVE  /\ Control'
         /\ handlers' \subseteq handlers /\ handlers' \subseteq Handler /\ IsFiniteSet(handlers')
         /\ view' \in [Phone -> View]
         /\ \A p \in Phone : view'[p].outbound = view[p].outbound \/ view'[p].outbound = new.outbound
<1> DEFINE w == [new EXCEPT !.busy = FALSE]
<1>1. handlers' = handlers \ {h} /\ Update(h, w)  BY DEF Finally
<1>2. w \in View /\ w.busy = FALSE /\ SameRead(new, w) /\ w.outbound = new.outbound
  BY BusyFields
<1> HIDE DEF w
<1>3. /\ view' \in [Phone -> View]
      /\ \A p \in Phone : view'[p] = IF h.live /\ p = h.phone THEN w ELSE view[p]
  BY <1>1, <1>2, Updated
<1>4. \A p \in Phone : SameRead(view[p], view'[p])
  BY <1>2, <1>3 DEF SameRead
<1>5. handlers' \subseteq handlers /\ handlers' \subseteq Handler /\ IsFiniteSet(handlers')
  BY <1>1, FS_RemoveElement DEF Typed, MobileTypeOK
<1>6. HandlersApart' /\ StagesOfKind'  BY <1>5 DEF Control, HandlersApart, StagesOfKind
<1>7. OneRuns'
  <2> SUFFICES ASSUME NEW p \in Phone PROVE OneRunsAt(p)'  BY OneRunsByPhoneNext
  <2>1. OneRunsAt(p)  BY OneRunsByPhone DEF Control
  <2>2. view[p].busy \in BOOLEAN  BY ViewFields DEF Typed, MobileTypeOK
  <2>3. view'[p].busy = (IF h.phone = p /\ h.live THEN FALSE ELSE view[p].busy)
    BY <1>2, <1>3
  <2>4. QED  BY <1>1, <2>1, <2>2, <2>3, OneRunsEnds
<1>8. LivePolls'
  <2>1. \A g \in handlers' : g \in handlers /\ view'[g.phone].inbound = view[g.phone].inbound
    BY <1>4, <1>5, HandlerFields DEF SameRead
  <2>2. QED  BY <2>1, LivePollsFrame DEF Control
<1>9. ShownPassed'  BY <1>4, ShownFrame DEF Control
<1>10. \A p \in Phone : view'[p].outbound = view[p].outbound \/ view'[p].outbound = new.outbound
  BY <1>2, <1>3
<1>11. QED  BY <1>3, <1>5, <1>6, <1>7, <1>8, <1>9, <1>10 DEF Control

\* A handler goes on to its next stage and leaves sessions and messages alone.
LEMMA WentOn ==
  ASSUME Typed, Control, NEW h \in handlers, h.kind # "register", NEW u \in Handler, Same(h, u),
         u.stage # "register", u.stage \in {"poll", "open", "show", "ack"} => u.kind = "poll",
         Reading(u) => AheadOf(u, view[h.phone].inbound),
         Goes(h, u), NEW new \in View, new.busy = view[h.phone].busy,
         SameRead(view[h.phone], new), Update(h, new)
  PROVE  /\ Control'
         /\ handlers' = (handlers \ {h}) \cup {u}
         /\ handlers' \subseteq Handler /\ IsFiniteSet(handlers')
         /\ view' \in [Phone -> View]
         /\ \A p \in Phone : view'[p].outbound = view[p].outbound \/ view'[p].outbound = new.outbound
<1>1. handlers' = (handlers \ {h}) \cup {u}  BY DEF Goes
<1>2. u.id = h.id /\ u.phone = h.phone /\ u.live = h.live /\ u.kind = h.kind  BY DEF Same
<1>3. /\ view' \in [Phone -> View]
      /\ \A p \in Phone : view'[p] = IF h.live /\ p = h.phone THEN new ELSE view[p]
  BY Updated
<1>4. \A p \in Phone : SameRead(view[p], view'[p]) /\ view'[p].busy = view[p].busy
  BY <1>3 DEF SameRead
<1>5. handlers' \subseteq Handler /\ IsFiniteSet(handlers')
  BY <1>1, FS_RemoveElement, FS_AddElement DEF Typed, MobileTypeOK
<1>6. HandlersApart'  BY <1>1, <1>2 DEF Control, HandlersApart
<1>7. StagesOfKind'  BY <1>1, <1>2 DEF Control, StagesOfKind
<1>8. OneRuns'
  <2> SUFFICES ASSUME NEW p \in Phone PROVE OneRunsAt(p)'  BY OneRunsByPhoneNext
  <2>1. OneRunsAt(p)  BY OneRunsByPhone DEF Control
  <2>2. QED  BY <1>1, <1>4, <2>1, OneRunsGoes
<1>9. LivePolls'
  <2>1. ASSUME NEW g \in handlers', Reading(g)
        PROVE  \/ AheadOf(g, view'[g.phone].inbound)
               \/ g \in handlers /\ view'[g.phone].inbound = view[g.phone].inbound
    <3>1. g.phone \in Phone  BY <1>5, HandlerFields
    <3>2. view'[g.phone].inbound = view[g.phone].inbound  BY <1>4, <3>1 DEF SameRead
    <3>3. CASE g = u  BY <1>2, <2>1, <3>2, <3>3
    <3>4. CASE g # u  BY <1>1, <3>2, <3>4
    <3>5. QED  BY <3>3, <3>4
  <2>2. QED  BY <2>1, LivePollsFrame DEF Control
<1>10. ShownPassed'  BY <1>4, ShownFrame DEF Control
<1>11. \A p \in Phone : view'[p].outbound = view[p].outbound \/ view'[p].outbound = new.outbound
  BY <1>3
<1>12. QED  BY <1>1, <1>3, <1>5, <1>6, <1>7, <1>8, <1>9, <1>10, <1>11 DEF Control

LEMMA UnchangedIsUpdate ==
  ASSUME Typed, NEW h \in handlers, view' = view
  PROVE  Update(h, view[h.phone])
<1>1. view = [view EXCEPT ![h.phone] = view[h.phone]]  BY TypedHandler DEF Typed, MobileTypeOK
<1>2. QED  BY <1>1 DEF Update

-----------------------------------------------------------------------------
(* The steps of a messaging handler                                        *)

\* The part of the invariant that is about the mailboxes.
Mail == CountersBounded /\ IdsApart /\ PollsJudge /\ AckedWasJudged

LEMMA InvParts == MobileInv <=> Typed /\ Control /\ Mail
BY DEF MobileInv, Control, Mail

LEMMA InvPartsNext == MobileInv' <=> Typed' /\ Control' /\ Mail'
BY DEF MobileInv, Control, Mail

LEMMA TypedNext ==
  ASSUME Typed, UNCHANGED <<screen, step, profile, switches>>,
         view' \in [Phone -> View], handlers' \subseteq Handler, IsFiniteSet(handlers'),
         bundles' \subseteq Phone, mailbox' \in [Phone -> SUBSET Envelope],
         composed' \in 0 .. MaxMessages,
         FateGrows
  PROVE  Typed'
BY DEF Typed, MobileTypeOK, FateGrows

\* No envelope comes or goes.
LEMMA MailKept ==
  ASSUME Typed, Mail, UNCHANGED <<mailbox, composed>>, FateGrows, handlers' \subseteq Handler,
         \A g \in handlers' : (\E f \in handlers : Follows(g, f)) /\ Judged(g, fate'),
         \A p \in Phone : \/ view'[p].outbound = view[p].outbound
                          \/ \A q \in Phone : view'[p].outbound[q] <= composed
  PROVE  Mail'
<1>1. composed \in Nat  BY MobileAssumption DEF Typed, MobileTypeOK
<1>2. CountersBounded'  BY <1>1, CountersFrame DEF Mail
<1>3. \A g \in handlers' : \E f \in handlers : g.phone = f.phone /\ g.batch = f.batch
  BY DEF Follows
<1>4. IdsApart'  BY <1>3, IdsFrame DEF Mail
<1>5. PollsJudge' /\ AckedWasJudged'  BY GoneFrame DEF Mail, PollsJudge
<1>6. QED  BY <1>2, <1>4, <1>5 DEF Mail

LEMMA FollowsItself ==
  ASSUME NEW f PROVE Follows(f, f)
BY DEF Follows

\* The polls that stay as they are have judged what they had.
LEMMA StillJudged ==
  ASSUME Typed, Mail, FateGrows, NEW g \in handlers
  PROVE  Follows(g, g) /\ Judged(g, fate')
<1>1. g \in Handler /\ Judged(g, fate)  BY DEF Typed, MobileTypeOK, Mail, PollsJudge
<1>2. QED  BY <1>1, JudgedGrows, FollowsItself

LEMMA OutboundOfScreen ==
  ASSUME Mail, NEW p \in Phone
  PROVE  \A q \in Phone : view[p].outbound[q] <= composed
BY DEF Mail, CountersBounded

\* A handler ends without a trace at the relay but for the bundle it may have published.
LEMMA EndStep ==
  ASSUME MobileInv, NEW h \in handlers, h.kind # "register", NEW new \in View,
         SameRead(view[h.phone], new), new.outbound = view[h.phone].outbound, Finally(h, new),
         bundles' \subseteq Phone, UNCHANGED <<mailbox, composed, fate, screen, step, profile, switches>>
  PROVE  MobileInv'
<1>1. Typed /\ Control /\ Mail  BY InvParts
<1>2. /\ Control'
      /\ handlers' \subseteq handlers /\ handlers' \subseteq Handler /\ IsFiniteSet(handlers')
      /\ view' \in [Phone -> View]
      /\ \A p \in Phone : view'[p].outbound = view[p].outbound \/ view'[p].outbound = new.outbound
  BY <1>1, Ended
<1>3. h.phone \in Phone  BY <1>1, TypedHandler
<1>4. \A q \in Phone : new.outbound[q] <= composed  BY <1>1, <1>3, OutboundOfScreen
<1>5. FateGrows  BY <1>1, FateKept
<1>6. \A g \in handlers' : (\E f \in handlers : Follows(g, f)) /\ Judged(g, fate')
  BY <1>1, <1>2, <1>5, StillJudged
<1>7. Mail'  BY <1>1, <1>2, <1>4, <1>5, <1>6, MailKept
<1>8. Typed'  BY <1>1, <1>2, <1>5, TypedNext DEF Typed, MobileTypeOK
<1>9. QED  BY <1>2, <1>7, <1>8, InvPartsNext

LEMMA FailsStep ==
  ASSUME MobileInv, NEW h \in handlers, h.kind # "register", Fails(h),
         UNCHANGED <<screen, step, profile, switches>>
  PROVE  MobileInv'
<1>1. Typed  BY InvParts
<1>2. view[h.phone] \in View  BY <1>1, TypedHandler
<1>3. SameRead(view[h.phone], view[h.phone])  BY DEF SameRead
<1>4. bundles' \subseteq Phone  BY <1>1 DEF Fails, Typed, MobileTypeOK
<1>5. QED  BY <1>2, <1>3, <1>4, EndStep DEF Fails

\* A handler goes on, with no more to read than before.
LEMMA GoStep ==
  ASSUME MobileInv, NEW h \in handlers, h.kind # "register", NEW u \in Handler, Same(h, u),
         u.batch = h.batch, u.unread \subseteq h.unread, FateGrows, Judged(u, fate'),
         u.stage # "register", u.stage \in {"poll", "open", "show", "ack"} => u.kind = "poll",
         Reading(u) => AheadOf(u, view[h.phone].inbound),
         Goes(h, u), NEW new \in View, new.busy = view[h.phone].busy,
         SameRead(view[h.phone], new), new.outbound = view[h.phone].outbound, Update(h, new),
         bundles' \subseteq Phone, UNCHANGED <<mailbox, composed, screen, step, profile, switches>>
  PROVE  MobileInv'
<1>1. Typed /\ Control /\ Mail  BY InvParts
<1>2. /\ Control'
      /\ handlers' = (handlers \ {h}) \cup {u}
      /\ handlers' \subseteq Handler /\ IsFiniteSet(handlers')
      /\ view' \in [Phone -> View]
      /\ \A p \in Phone : view'[p].outbound = view[p].outbound \/ view'[p].outbound = new.outbound
  BY <1>1, WentOn
<1>3. h.phone \in Phone  BY <1>1, TypedHandler
<1>4. \A q \in Phone : new.outbound[q] <= composed  BY <1>1, <1>3, OutboundOfScreen
<1>5. \A g \in handlers' : (\E f \in handlers : Follows(g, f)) /\ Judged(g, fate')
  <2>1. Follows(u, h)  BY DEF Follows, Same
  <2>2. QED  BY <1>1, <1>2, <2>1, StillJudged
<1>6. Mail'  BY <1>1, <1>2, <1>4, <1>5, MailKept
<1>7. Typed'  BY <1>1, <1>2, TypedNext DEF Typed, MobileTypeOK
<1>8. QED  BY <1>2, <1>6, <1>7, InvPartsNext

LEMMA AfterBundleOf ==
  ASSUME NEW h \in Handler
  PROVE  /\ AfterBundle(h) \in {"post", "poll", "done"}
         /\ AfterBundle(h) = "poll" => h.kind = "poll"
BY DEF AfterBundle

\* The stage of a handler that has none of its bundles yet, and what it works from then.
LEMMA OnwardStep ==
  ASSUME MobileInv, NEW h \in handlers, h.kind # "register", h.stage \in {"own", "fetch"},
         NEW new \in View, new.busy = view[h.phone].busy,
         SameRead(view[h.phone], new), new.outbound = view[h.phone].outbound, Onward(h, new),
         bundles' \subseteq Phone, UNCHANGED <<mailbox, composed, fate, screen, step, profile, switches>>
  PROVE  MobileInv'
<1>1. Typed /\ Control /\ Mail  BY InvParts
<1>2. h \in Handler  BY <1>1, TypedHandler
<1>3. CASE AfterBundle(h) = "done"
  <2>1. Finally(h, new)  BY <1>3 DEF Onward
  <2>2. QED  BY <2>1, EndStep
<1>4. CASE AfterBundle(h) # "done"
  <2>1. PICK s : s = AfterBundle(h)  OBVIOUS
  <2>2. s \in Stage /\ s \in {"post", "poll"} /\ (s = "poll" => h.kind = "poll")
    BY <1>2, <1>4, <2>1, AfterBundleOf DEF Stage
  <2> DEFINE u == [h EXCEPT !.stage = s, !.have = TRUE]
  <2>3. Goes(h, u) /\ Update(h, new)  BY <1>4, <2>1 DEF Onward
  <2>4. /\ u \in Handler /\ Same(h, u) /\ u.stage = s
        /\ u.inbound = h.inbound /\ u.batch = h.batch /\ u.unread = h.unread
        /\ u.opened = h.opened
    BY <1>2, <2>2, OnwardFields
  <2> HIDE DEF u
  <2>5. u.stage # "register" /\ (u.stage \in {"poll", "open", "show", "ack"} => u.kind = "poll")
    BY <2>2, <2>4 DEF Same
  <2>6. Reading(u) => AheadOf(u, view[h.phone].inbound)
    <3> SUFFICES ASSUME Reading(u) PROVE AheadOf(u, view[h.phone].inbound)  OBVIOUS
    <3>1. Reading(h)  BY <2>4 DEF Reading, Same
    <3>2. AheadOf(h, view[h.phone].inbound)  BY <1>1, <3>1 DEF Control, LivePolls
    <3>3. QED  BY <2>4, <3>2 DEF AheadOf
  <2>7. FateGrows  BY <1>1, FateKept
  <2>8. Judged(h, fate)  BY <1>1 DEF Mail, PollsJudge
  <2>9. u.stage \notin {"show", "ack"}  BY <2>2, <2>4
  <2>10. Judged(u, fate')  BY <1>2, <2>4, <2>7, <2>8, <2>9, JudgedGrows
  <2>11. QED  BY <2>3, <2>4, <2>5, <2>6, <2>7, <2>10, GoStep
<1>5. QED  BY <1>3, <1>4

LEMMA EnsureOwnPreKeyBundleStep ==
  ASSUME MobileInv, NEW h \in handlers, EnsureOwnPreKeyBundle(h),
         UNCHANGED <<screen, step, profile, switches>>
  PROVE  MobileInv'
<1>1. Typed /\ Control /\ Mail  BY InvParts
<1>2. h \in Handler /\ h.phone \in Phone /\ view[h.phone] \in View  BY <1>1, TypedHandler
<1>3. h.stage = "own"  BY DEF EnsureOwnPreKeyBundle
<1>4. h.kind # "register"  BY <1>1, <1>3 DEF Control, StagesOfKind
<1>5. bundles \subseteq Phone /\ (bundles \cup {h.phone}) \subseteq Phone
  BY <1>1, <1>2 DEF Typed, MobileTypeOK
<1>6. PICK v \in View : v = view[h.phone]  BY <1>2
<1>7. PICK ps : ps = IF h.kind \in {"load", "send"} THEN {h.to} ELSE v.loaded  OBVIOUS
<1>8. ps \in SUBSET Phone  BY <1>2, <1>7, HandlerFields, ViewFields
<1> DEFINE kept == [v EXCEPT !.published = TRUE, !.loaded = ps]
<1>9. \/ /\ bundles' = (IF h.have THEN bundles ELSE bundles \cup {h.phone})
         /\ Onward(h, kept) /\ UNCHANGED <<mailbox, composed, fate>>
      \/ /\ bundles' = bundles \cup {h.phone}
         /\ Finally(h, v) /\ UNCHANGED <<mailbox, composed, fate>>
      \/ Fails(h)
  BY <1>6, <1>7 DEF EnsureOwnPreKeyBundle
<1>10. /\ kept \in View /\ kept.busy = v.busy /\ SameRead(v, kept) /\ kept.outbound = v.outbound
  BY <1>8, KeptFields
<1> HIDE DEF kept
<1>11. CASE /\ bundles' = (IF h.have THEN bundles ELSE bundles \cup {h.phone})
            /\ Onward(h, kept) /\ UNCHANGED <<mailbox, composed, fate>>
  <2>1. bundles' \subseteq Phone  BY <1>5, <1>11
  <2>2. h.stage \in {"own", "fetch"}  BY <1>3
  <2>3. QED  BY <1>4, <1>6, <1>10, <1>11, <2>1, <2>2, OnwardStep
<1>12. CASE /\ bundles' = bundles \cup {h.phone}
            /\ Finally(h, v) /\ UNCHANGED <<mailbox, composed, fate>>
  <2>1. SameRead(v, v)  BY DEF SameRead
  <2>2. QED  BY <1>4, <1>5, <1>6, <1>12, <2>1, EndStep
<1>13. CASE Fails(h)  BY <1>4, <1>13, FailsStep
<1>14. QED  BY <1>9, <1>11, <1>12, <1>13

LEMMA EnsureRecipientBundleStep ==
  ASSUME MobileInv, NEW h \in handlers, EnsureRecipientBundle(h),
         UNCHANGED <<screen, step, profile, switches>>
  PROVE  MobileInv'
<1>1. Typed /\ Control /\ Mail  BY InvParts
<1>2. h \in Handler /\ h.phone \in Phone /\ view[h.phone] \in View  BY <1>1, TypedHandler
<1>3. h.stage = "fetch"  BY DEF EnsureRecipientBundle
<1>4. h.kind # "register"  BY <1>1, <1>3 DEF Control, StagesOfKind
<1>5. PICK v \in View : v = view[h.phone]  BY <1>2
<1> DEFINE w == [v EXCEPT !.loaded = {h.to}]
<1>6. \/ Onward(h, w) /\ UNCHANGED <<bundles, mailbox, composed, fate>>
      \/ Fails(h)
  BY <1>5 DEF EnsureRecipientBundle
<1>7. {h.to} \in SUBSET Phone  BY <1>2, HandlerFields
<1>8. /\ w \in View /\ w.busy = v.busy /\ SameRead(v, w) /\ w.outbound = v.outbound
  BY <1>7, LoadedFields
<1> HIDE DEF w
<1>9. CASE Onward(h, w) /\ UNCHANGED <<bundles, mailbox, composed, fate>>
  <2>1. bundles' \subseteq Phone  BY <1>1, <1>9 DEF Typed, MobileTypeOK
  <2>2. h.stage \in {"own", "fetch"}  BY <1>3
  <2>3. QED  BY <1>4, <1>5, <1>8, <1>9, <2>1, <2>2, OnwardStep
<1>10. CASE Fails(h)  BY <1>4, <1>10, FailsStep
<1>11. QED  BY <1>6, <1>9, <1>10

\* The envelope the relay accepts, and the counter the session takes with its answer.
LEMMA AcceptedFields ==
  ASSUME Typed, Mail, NEW h \in handlers, composed < MaxMessages
  PROVE  LET e == Accepted(h)
         IN  /\ e \in Envelope /\ e.id = composed + 1 /\ Numbered(e, composed + 1)
             /\ e.counter + 1 \in 0 .. MaxMessages /\ e.counter + 1 <= composed + 1
<1>1. h \in Handler /\ h.phone \in Phone  BY TypedHandler
<1>2. h.to \in Phone /\ h.outbound \in Counters  BY <1>1, HandlerFields
<1>3. composed \in Nat  BY MobileAssumption DEF Typed, MobileTypeOK
<1>4. PICK c : c = h.outbound[h.to]  OBVIOUS
<1>5. c \in 0 .. MaxMessages /\ c <= composed
  BY <1>2, <1>4 DEF Counters, Mail, CountersBounded
<1>6. Accepted(h) = [id |-> composed + 1, from |-> h.phone, counter |-> c]
  BY <1>4 DEF Accepted
<1>7. composed + 1 \in MessageId /\ c + 1 \in 0 .. MaxMessages /\ c < composed + 1
  BY <1>3, <1>5, MobileAssumption DEF MessageId
<1>8. PICK n : n = composed + 1  OBVIOUS
<1>9. [id |-> n, from |-> h.phone, counter |-> c] \in Envelope
  BY <1>1, <1>5, <1>7, <1>8 DEF Envelope
<1>10. QED  BY <1>3, <1>5, <1>6, <1>7, <1>8, <1>9, MobileAssumption DEF Numbered

\* An envelope under a number of its own joins a mailbox.
LEMMA MailPosted ==
  ASSUME Typed, Mail, NEW to \in Phone, NEW e \in Envelope, e.id = composed + 1,
         Numbered(e, composed + 1), composed' = composed + 1,
         mailbox' = [mailbox EXCEPT ![to] = @ \cup {e}], fate' = fate,
         handlers' \subseteq handlers,
         \A p \in Phone : \/ view'[p].outbound = view[p].outbound
                          \/ \A q \in Phone : view'[p].outbound[q] <= composed + 1
  PROVE  Mail'
<1>1. composed \in Nat  BY MobileAssumption DEF Typed, MobileTypeOK
<1>2. \A p \in Phone : mailbox'[p] = IF p = to THEN mailbox[p] \cup {e} ELSE mailbox[p]
  BY DEF Typed, MobileTypeOK
<1>3. CountersBounded'
  <2>1. composed' \in Nat /\ composed <= composed'  BY <1>1
  <2>2. \A p \in Phone : \A f \in mailbox'[p] : f \in mailbox[p] \/ Numbered(f, composed')
    BY <1>2
  <2>3. \A g \in handlers' : \E f \in handlers : Follows(g, f)  BY FollowsItself
  <2>4. QED  BY <2>1, <2>2, <2>3, CountersFrame DEF Mail
<1>4. ASSUME NEW p \in Phone, NEW f \in mailbox[p] PROVE f.id # e.id
  <2>1. f \in Envelope /\ Numbered(f, composed)  BY DEF Mail, CountersBounded, Typed, MobileTypeOK
  <2>2. f.id \in Nat /\ f.id <= composed  BY <2>1, EnvelopeFields DEF Numbered
  <2>3. QED  BY <1>1, <2>2
<1>5. ASSUME NEW h \in handlers, NEW b \in h.batch PROVE b.id # e.id
  <2>1. h \in Handler  BY TypedHandler
  <2>2. b \in Envelope  BY <2>1, HandlerFields
  <2>3. Numbered(b, composed)  BY DEF Mail, CountersBounded
  <2>4. b.id \in Nat /\ b.id <= composed  BY <2>2, <2>3, EnvelopeFields DEF Numbered
  <2>5. QED  BY <1>1, <2>4
<1>6. IdsApart'
  <2>1. ASSUME NEW p \in Phone, NEW q \in Phone, NEW f \in mailbox'[p], NEW g \in mailbox'[q],
               f.id = g.id
        PROVE  p = q /\ f = g
    BY <1>2, <1>4, <2>1 DEF Mail, IdsApart
  <2>2. ASSUME NEW h \in handlers', NEW b \in h.batch, NEW q \in Phone, NEW f \in mailbox'[q],
               f.id = b.id
        PROVE  q = h.phone /\ f = b
    <3>1. h \in handlers  OBVIOUS
    <3>2. f \in mailbox[q]  BY <1>2, <1>5, <2>2, <3>1
    <3>3. QED  BY <2>2, <3>1, <3>2 DEF Mail, IdsApart
  <2>3. QED  BY <2>1, <2>2 DEF IdsApart
<1>7. AckedWasJudged'
  <2> SUFFICES ASSUME NEW m \in 1 .. (composed + 1), fate[m] = {}
               PROVE  \E p \in Phone : \E f \in mailbox'[p] : f.id = m
    BY DEF AckedWasJudged
  <2>1. CASE m = composed + 1
    <3>1. e \in mailbox'[to]  BY <1>2
    <3>2. QED  BY <2>1, <3>1
  <2>2. CASE m # composed + 1
    <3>1. m \in 1 .. composed  BY <1>1, <2>2
    <3>2. PICK p \in Phone : \E f \in mailbox[p] : f.id = m
      BY <3>1 DEF Mail, AckedWasJudged
    <3>3. QED  BY <1>2, <3>2
  <2>3. QED  BY <2>1, <2>2
<1>8. PollsJudge'  BY DEF Mail, PollsJudge
<1>9. QED  BY <1>3, <1>6, <1>7, <1>8 DEF Mail

\* What ends with the envelope accepted, whether its answer arrived or not.
LEMMA PostedStep ==
  ASSUME MobileInv, NEW h \in handlers, h.kind # "register", composed < MaxMessages,
         composed' = composed + 1, mailbox' = [mailbox EXCEPT ![h.to] = @ \cup {Accepted(h)}],
         NEW new \in View, SameRead(view[h.phone], new),
         \A q \in Phone : new.outbound[q] <= composed + 1, Finally(h, new),
         UNCHANGED <<bundles, fate, screen, step, profile, switches>>
  PROVE  MobileInv'
<1>1. Typed /\ Control /\ Mail  BY InvParts
<1>2. h \in Handler /\ h.to \in Phone  BY <1>1, TypedHandler, HandlerFields
<1>3. PICK e : e = Accepted(h)  OBVIOUS
<1>4. e \in Envelope /\ e.id = composed + 1 /\ Numbered(e, composed + 1)
  BY <1>1, <1>3, AcceptedFields
<1>5. /\ Control'
      /\ handlers' \subseteq handlers /\ handlers' \subseteq Handler /\ IsFiniteSet(handlers')
      /\ view' \in [Phone -> View]
      /\ \A p \in Phone : view'[p].outbound = view[p].outbound \/ view'[p].outbound = new.outbound
  BY <1>1, Ended
<1>6. mailbox' = [mailbox EXCEPT ![h.to] = @ \cup {e}]  BY <1>3
<1>7. Mail'  BY <1>1, <1>2, <1>4, <1>5, <1>6, MailPosted
<1>8. mailbox' \in [Phone -> SUBSET Envelope]  BY <1>1, <1>2, <1>4, <1>6 DEF Typed, MobileTypeOK
<1>9. composed' \in 0 .. MaxMessages  BY <1>1, MobileAssumption DEF Typed, MobileTypeOK
<1>10. Typed'  BY <1>1, <1>5, <1>8, <1>9, FateKept, TypedNext DEF Typed, MobileTypeOK
<1>11. QED  BY <1>5, <1>7, <1>10, InvPartsNext

LEMMA SendEnvelopeStep ==
  ASSUME MobileInv, NEW h \in handlers, SendEnvelope(h),
         UNCHANGED <<screen, step, profile, switches>>
  PROVE  MobileInv'
<1>1. Typed /\ Control /\ Mail  BY InvParts
<1>2. h \in Handler /\ h.phone \in Phone /\ view[h.phone] \in View  BY <1>1, TypedHandler
<1>3. h.stage = "post"  BY DEF SendEnvelope
<1>4. h.kind # "register"  BY <1>1, <1>3 DEF Control, StagesOfKind
<1>5. PICK v \in View : v = view[h.phone]  BY <1>2
<1>6. PICK n : n = Accepted(h).counter + 1  OBVIOUS
<1> DEFINE c == [v.outbound EXCEPT ![h.to] = n]
           w == [v EXCEPT !.outbound = c]
<1>7. \/ /\ composed < MaxMessages /\ composed' = composed + 1
         /\ mailbox' = [mailbox EXCEPT ![h.to] = @ \cup {Accepted(h)}]
         /\ UNCHANGED <<bundles, fate>>
         /\ Finally(h, w) \/ Finally(h, v)
      \/ Fails(h)
  BY <1>5, <1>6 DEF SendEnvelope
<1>8. CASE /\ composed < MaxMessages /\ composed' = composed + 1
           /\ mailbox' = [mailbox EXCEPT ![h.to] = @ \cup {Accepted(h)}]
           /\ UNCHANGED <<bundles, fate>>
           /\ Finally(h, w) \/ Finally(h, v)
  <2>1. n \in 0 .. MaxMessages /\ n <= composed + 1  BY <1>1, <1>6, <1>8, AcceptedFields
  <2>2. v.outbound \in Counters /\ h.to \in Phone  BY <1>2, ViewFields, HandlerFields
  <2>3. \A q \in Phone : v.outbound[q] <= composed  BY <1>1, <1>2, <1>5, OutboundOfScreen
  <2>4. composed \in Nat  BY <1>1, MobileAssumption DEF Typed, MobileTypeOK
  <2>5. \A q \in Phone : v.outbound[q] <= composed + 1
    BY <2>2, <2>3, <2>4, MobileAssumption DEF Counters
  <2>6. c \in Counters /\ \A q \in Phone : c[q] <= composed + 1
    BY <2>1, <2>2, <2>5 DEF Counters
  <2> HIDE DEF c
  <2>7. w \in View /\ SameRead(v, w) /\ w.outbound = c  BY <2>6, OutboundFields
  <2> HIDE DEF w
  <2>8. CASE Finally(h, w)  BY <1>4, <1>5, <1>8, <2>6, <2>7, <2>8, PostedStep
  <2>9. CASE Finally(h, v)
    <3>1. SameRead(v, v)  BY DEF SameRead
    <3>2. QED  BY <1>4, <1>5, <1>8, <2>5, <2>9, <3>1, PostedStep
  <2>10. QED  BY <1>8, <2>8, <2>9
<1>9. CASE Fails(h)  BY <1>4, <1>9, FailsStep
<1>10. QED  BY <1>7, <1>8, <1>9

LEMMA PollMailboxStep ==
  ASSUME MobileInv, NEW h \in handlers, PollMailbox(h),
         UNCHANGED <<screen, step, profile, switches>>
  PROVE  MobileInv'
<1>1. Typed /\ Control /\ Mail  BY InvParts
<1>2. h \in Handler /\ h.phone \in Phone /\ view[h.phone] \in View  BY <1>1, TypedHandler
<1>3. h.stage = "poll"  BY DEF PollMailbox
<1>4. h.kind = "poll"  BY <1>1, <1>3 DEF Control, StagesOfKind
<1>5. PICK es :
        \/ /\ es \in Pages(h.phone)
           /\ Goes(h, [h EXCEPT !.stage = "open", !.batch = es, !.unread = es])
           /\ UNCHANGED <<view, bundles, mailbox, composed, fate>>
        \/ Fails(h)
  BY DEF PollMailbox
<1>6. CASE Fails(h)
  <2>1. h.kind # "register"  BY <1>4
  <2>2. QED  BY <1>6, <2>1, FailsStep
<1> SUFFICES ASSUME ~Fails(h) PROVE MobileInv'  BY <1>6
<1> DEFINE u == [h EXCEPT !.stage = "open", !.batch = es, !.unread = es]
<1>7. es \subseteq mailbox[h.phone]  BY <1>5 DEF Pages
<1>8. es \in SUBSET Envelope  BY <1>1, <1>2, <1>7 DEF Typed, MobileTypeOK
<1>9. /\ u \in Handler /\ Same(h, u) /\ u.stage = "open"
      /\ u.inbound = h.inbound /\ u.batch = es /\ u.unread = es /\ u.opened = h.opened
  BY <1>2, <1>8, BatchFields
<1>10. Goes(h, u) /\ UNCHANGED <<view, bundles, mailbox, composed, fate>>  BY <1>5
<1> HIDE DEF u
<1>11. Update(h, view[h.phone])  BY <1>1, <1>10, UnchangedIsUpdate
<1>12. u.kind = "poll" /\ u.stage # "register"  BY <1>4, <1>9 DEF Same
<1>13. Reading(u) => AheadOf(u, view[h.phone].inbound)
  <2> SUFFICES ASSUME Reading(u) PROVE AheadOf(u, view[h.phone].inbound)  OBVIOUS
  <2>1. Reading(h)  BY <1>3, <1>4, <1>9 DEF Reading, Same
  <2>2. AheadOf(h, view[h.phone].inbound)  BY <1>1, <2>1 DEF Control, LivePolls
  <2>3. QED  BY <1>9, <2>2 DEF AheadOf
<1>14. SameRead(view[h.phone], view[h.phone])  BY DEF SameRead
<1>15. /\ Control'
      /\ handlers' = (handlers \ {h}) \cup {u}
      /\ handlers' \subseteq Handler /\ IsFiniteSet(handlers')
  BY <1>1, <1>2, <1>4, <1>9, <1>10, <1>11, <1>12, <1>13, <1>14, WentOn
<1>16. CountersBounded'
  <2>1. \A e \in u.batch : Numbered(e, composed)
    BY <1>1, <1>2, <1>9, <1>7 DEF Mail, CountersBounded
  <2>2. \A q \in Phone : u.outbound[q] <= composed
    BY <1>1, <1>9 DEF Mail, CountersBounded, Same
  <2>3. u.unread \subseteq u.batch  BY <1>9
  <2>4. \A g \in handlers' : g = u \/ \E f \in handlers : Follows(g, f)
    BY <1>15, FollowsItself
  <2>5. composed \in Nat  BY <1>1, MobileAssumption DEF Typed, MobileTypeOK
  <2>6. QED  BY <1>1, <1>10, <2>1, <2>2, <2>3, <2>4, <2>5, CountersFrame DEF Mail
<1>17. IdsApart'
  <2>1. u.batch \subseteq mailbox[u.phone]  BY <1>9, <1>7 DEF Same
  <2>2. \A g \in handlers' : g \in handlers \/ g = u  BY <1>15
  <2>3. QED  BY <1>1, <1>10, <1>15, <2>1, <2>2, IdsFrame DEF Mail
<1>18. FateGrows  BY <1>1, <1>10, FateKept
<1>19. AckedWasJudged'  BY <1>1, <1>10, <1>18, GoneFrame DEF Mail
<1>20. PollsJudge'
  <2>1. Judged(u, fate')  BY <1>9 DEF Judged
  <2>2. QED  BY <1>1, <1>15, <1>18, <2>1, StillJudged DEF PollsJudge
<1>21. Typed'  BY <1>1, <1>10, <1>15, <1>18, TypedNext DEF Typed, MobileTypeOK
<1>22. QED  BY <1>15, <1>16, <1>17, <1>19, <1>20, <1>21, InvPartsNext DEF Mail

\* Opening the envelope under the expected counter moves the session by one.
LEMMA AheadByOne ==
  ASSUME NEW h \in Handler, NEW inbound \in Counters, AheadOf(h, inbound),
         NEW e \in Envelope, e.counter = h.inbound[e.from],
         NEW u, u.inbound = [h.inbound EXCEPT ![e.from] = h.inbound[e.from] + 1],
         u.opened = h.opened \cup {e}
  PROVE  AheadOf(u, inbound)
<1>1. h.inbound \in Counters /\ h.opened \in SUBSET Envelope  BY HandlerFields
<1>2. \A q \in Phone : h.inbound[q] \in Nat /\ inbound[q] \in Nat
  BY <1>1, MobileAssumption DEF Counters
<1>3. e.from \in Phone /\ e.counter \in Nat  BY EnvelopeFields
<1>4. \A q \in Phone : u.inbound[q] = IF q = e.from THEN h.inbound[q] + 1 ELSE h.inbound[q]
  BY <1>1, <1>3 DEF Counters
<1>5. \A f \in h.opened : f.from \in Phone /\ f.counter \in Nat  BY <1>1, EnvelopeFields
<1>6. \A q \in Phone : inbound[q] <= u.inbound[q]  BY <1>2, <1>4 DEF AheadOf
<1>7. \A f \in u.opened : inbound[f.from] <= f.counter /\ f.counter < u.inbound[f.from]
  BY <1>2, <1>3, <1>4, <1>5 DEF AheadOf
<1>8. Apart(u.opened)
  <2> SUFFICES ASSUME NEW f \in u.opened, NEW g \in u.opened, f.from = g.from,
                      f.counter = g.counter
               PROVE  f = g
    BY DEF Apart
  <2>1. \A k \in h.opened : k.from = e.from => k.counter # e.counter
    BY <1>2, <1>3, <1>5 DEF AheadOf
  <2>2. QED  BY <2>1 DEF AheadOf, Apart
<1>9. QED  BY <1>6, <1>7, <1>8 DEF AheadOf

\* What OpenEnvelope makes of a handler that passes an envelope over, or opens it.
Further(h, e) ==
    [h EXCEPT !.unread = @ \ {e}, !.stage = IF h.unread = {e} THEN "show" ELSE "open"]

Opening(g, e) ==
    [g EXCEPT !.inbound = [@ EXCEPT ![e.from] = g.inbound[e.from] + 1], !.opened = @ \cup {e}]

LEMMA PassedOver ==
  ASSUME NEW h \in Handler, NEW e
  PROVE  LET u == Further(h, e)
         IN  /\ u \in Handler /\ Same(h, u) /\ u.stage \in {"show", "open"}
             /\ u.inbound = h.inbound /\ u.batch = h.batch /\ u.unread \subseteq h.unread
             /\ u.opened = h.opened
<1>1. PICK s : s = (IF h.unread = {e} THEN "show" ELSE "open")  OBVIOUS
<1>2. s \in Stage /\ s \in {"show", "open"}  BY <1>1 DEF Stage
<1>3. PICK es \in SUBSET Envelope : es = h.unread \ {e}  BY HandlerFields
<1>4. es \subseteq h.unread  BY <1>3
<1>5. Further(h, e) = Reads(h, es, s)  BY <1>1, <1>3 DEF Further, Reads
<1>6. QED  BY <1>2, <1>4, <1>5, ReadsFields

LEMMA ReadOn ==
  ASSUME NEW h \in Handler, NEW e \in h.unread
  PROVE  LET u == Further(h, e)
         IN  u.unread = h.unread \ {e} /\ (u.stage = "show" => u.unread = {})
<1>1. PICK s : s = (IF h.unread = {e} THEN "show" ELSE "open")  OBVIOUS
<1>2. s \in Stage  BY <1>1 DEF Stage
<1>3. PICK es \in SUBSET Envelope : es = h.unread \ {e}  BY HandlerFields
<1>4. Further(h, e) = Reads(h, es, s)  BY <1>1, <1>3 DEF Further, Reads
<1>5. Further(h, e).unread = es /\ Further(h, e).stage = s  BY <1>2, <1>4, ReadsFields
<1>6. QED  BY <1>1, <1>3, <1>5

\* An event is added to what happened to some messages.
LEMMA Happened ==
  ASSUME Typed, NEW ids, NEW cause \in Cause, Happens(ids, cause)
  PROVE  FateGrows /\ \A m \in MessageId : m \in ids => fate'[m] # {}
BY DEF Happens, FateGrows, Typed, MobileTypeOK

LEMMA Opens ==
  ASSUME NEW g \in Handler, NEW e \in Envelope, g.inbound[e.from] + 1 \in 0 .. MaxMessages
  PROVE  LET u == Opening(g, e)
         IN  /\ u \in Handler /\ Same(g, u) /\ u.stage = g.stage
             /\ u.inbound = [g.inbound EXCEPT ![e.from] = g.inbound[e.from] + 1]
             /\ u.batch = g.batch /\ u.unread = g.unread /\ u.opened = g.opened \cup {e}
<1>1. g.inbound \in Counters /\ g.opened \in SUBSET Envelope /\ e.from \in Phone
  BY HandlerFields, EnvelopeFields
<1>2. [g.inbound EXCEPT ![e.from] = g.inbound[e.from] + 1] \in Counters  BY <1>1 DEF Counters
<1>3. PICK c \in Counters : c = [g.inbound EXCEPT ![e.from] = g.inbound[e.from] + 1]  BY <1>2
<1>4. PICK es \in SUBSET Envelope : es = g.opened \cup {e}  BY <1>1
<1>5. Opening(g, e) = [g EXCEPT !.inbound = [g.inbound EXCEPT ![e.from] = g.inbound[e.from] + 1],
                                !.opened = g.opened \cup {e}]
  BY DEF Opening
<1>6. Opening(g, e) = HasOpened(g, c, es)  BY <1>3, <1>4, <1>5 DEF HasOpened
<1>7. QED  BY <1>3, <1>4, <1>6, OpenedFields

LEMMA OpenEnvelopeStep ==
  ASSUME MobileInv, NEW h \in handlers, OpenEnvelope(h),
         UNCHANGED <<screen, step, profile, switches>>
  PROVE  MobileInv'
<1>1. Typed /\ Control /\ Mail  BY InvParts
<1>2. h \in Handler /\ h.phone \in Phone /\ view[h.phone] \in View  BY <1>1, TypedHandler
<1>3. h.stage = "open"  BY DEF OpenEnvelope
<1>4. h.kind = "poll"  BY <1>1, <1>3 DEF Control, StagesOfKind
<1>5. PICK e \in h.unread :
        \/ /\ Goes(h, Further(h, e)) /\ Happens({e.id}, "skipped")
           /\ UNCHANGED <<view, bundles, mailbox, composed>>
        \/ /\ Decrypts(h, e)
           /\ Goes(h, Opening(Further(h, e), e))
           /\ UNCHANGED <<view, bundles, mailbox, composed, fate>>
        \/ Fails(h)
  <2>1. PICK e \in h.unread :
          LET further == [h EXCEPT !.unread = @ \ {e},
                                   !.stage = IF h.unread = {e} THEN "show" ELSE "open"]
          IN  \/ /\ Goes(h, further) /\ Happens({e.id}, "skipped")
                 /\ UNCHANGED <<view, bundles, mailbox, composed>>
              \/ /\ Decrypts(h, e)
                 /\ Goes(h, [further EXCEPT
                               !.inbound = [@ EXCEPT ![e.from] = h.inbound[e.from] + 1],
                               !.opened = @ \cup {e}])
                 /\ UNCHANGED <<view, bundles, mailbox, composed, fate>>
              \/ Fails(h)
    BY DEF OpenEnvelope
  <2>2. Further(h, e).inbound = h.inbound  BY <1>2, PassedOver
  <2>3. QED  BY <2>1, <2>2 DEF Further, Opening
<1>6. PICK g : g = Further(h, e)  OBVIOUS
<1>7. /\ g \in Handler /\ Same(h, g) /\ g.stage \in {"show", "open"}
      /\ g.inbound = h.inbound /\ g.batch = h.batch /\ g.unread \subseteq h.unread
      /\ g.opened = h.opened
  BY <1>2, <1>6, PassedOver
<1>8. SameRead(view[h.phone], view[h.phone])  BY DEF SameRead
<1>9. h.kind # "register"  BY <1>4
<1>10. h.live => AheadOf(h, view[h.phone].inbound)
  BY <1>1, <1>3, <1>4 DEF Control, LivePolls, Reading
<1>11. ASSUME UNCHANGED <<view, bundles>>
       PROVE  Update(h, view[h.phone]) /\ bundles' \subseteq Phone
  BY <1>1, <1>11, UnchangedIsUpdate DEF Typed, MobileTypeOK
<1>12. Judged(h, fate)  BY <1>1 DEF Mail, PollsJudge
<1>13. e \in Envelope /\ e.id \in MessageId  BY <1>2, HandlerFields, EnvelopeFields
<1>14. CASE /\ Goes(h, g) /\ Happens({e.id}, "skipped")
            /\ UNCHANGED <<view, bundles, mailbox, composed>>
  <2>1. Update(h, view[h.phone]) /\ bundles' \subseteq Phone  BY <1>11, <1>14
  <2>2. Reading(g) => AheadOf(g, view[h.phone].inbound)
    BY <1>7, <1>10 DEF Reading, AheadOf, Same
  <2>3. g.stage # "register" /\ g.kind = "poll"  BY <1>4, <1>7 DEF Same
  <2>4. FateGrows /\ fate'[e.id] # {}  BY <1>1, <1>13, <1>14, Happened DEF Cause
  <2>5. Judged(g, fate')
    <3>1. \A f \in h.batch : f.id \in MessageId  BY <1>2, HandlerFields, EnvelopeFields
    <3>2. g.unread = h.unread \ {e} /\ (g.stage = "show" => g.unread = {})
      BY <1>2, <1>6, ReadOn
    <3>3. g.batch = h.batch /\ g.opened = h.opened /\ g.stage # "ack"  BY <1>7
    <3>4. QED  BY <1>12, <2>4, <3>1, <3>2, <3>3 DEF Judged, FateGrows
  <2>6. QED  BY <1>2, <1>7, <1>8, <1>9, <1>14, <2>1, <2>2, <2>3, <2>4, <2>5, GoStep
<1>15. CASE /\ Decrypts(h, e)
            /\ Goes(h, Opening(g, e))
            /\ UNCHANGED <<view, bundles, mailbox, composed, fate>>
  <2>1. Update(h, view[h.phone]) /\ bundles' \subseteq Phone  BY <1>11, <1>15
  <2>3. e.counter = h.inbound[e.from]  BY <1>15 DEF Decrypts
  <2>4. h.inbound[e.from] + 1 \in 0 .. MaxMessages
    <3>1. Numbered(e, composed)  BY <1>1 DEF Mail, CountersBounded
    <3>2. e.id \in Nat /\ e.counter \in Nat /\ e.id <= MaxMessages
      BY <1>13, EnvelopeFields, MobileAssumption DEF MessageId
    <3>3. QED  BY <2>3, <3>1, <3>2, MobileAssumption DEF Numbered
  <2>5. PICK u : u = Opening(g, e)  OBVIOUS
  <2>6. /\ u \in Handler /\ Same(g, u) /\ u.stage = g.stage
        /\ u.inbound = [h.inbound EXCEPT ![e.from] = h.inbound[e.from] + 1]
        /\ u.batch = h.batch /\ u.unread = g.unread /\ u.opened = h.opened \cup {e}
    BY <1>7, <1>13, <2>4, <2>5, Opens
  <2>7. Same(h, u)  BY <1>7, <2>6 DEF Same
  <2>8. Reading(u) => AheadOf(u, view[h.phone].inbound)
    <3> SUFFICES ASSUME Reading(u) PROVE AheadOf(u, view[h.phone].inbound)  OBVIOUS
    <3>1. h.live  BY <2>7 DEF Reading, Same
    <3>2. view[h.phone].inbound \in Counters  BY <1>2, ViewFields
    <3>3. QED  BY <1>2, <1>10, <1>13, <2>3, <2>6, <3>1, <3>2, AheadByOne
  <2>9. u.stage # "register" /\ u.kind = "poll"  BY <1>4, <1>7, <2>6, <2>7 DEF Same
  <2>10. u.batch = h.batch /\ u.unread \subseteq h.unread  BY <1>7, <2>6
  <2>11. FateGrows  BY <1>1, <1>15, FateKept
  <2>12. Judged(u, fate')
    <3>1. g.unread = h.unread \ {e} /\ (g.stage = "show" => g.unread = {})
      BY <1>2, <1>6, ReadOn
    <3>2. u.unread = h.unread \ {e} /\ u.opened = h.opened \cup {e} /\ u.batch = h.batch
      BY <2>6, <3>1
    <3>3. u.stage # "ack" /\ (u.stage = "show" => u.unread = {})  BY <1>7, <2>6, <3>1
    <3>4. QED  BY <1>12, <1>15, <3>2, <3>3 DEF Judged
  <2>13. QED
    BY <1>2, <1>8, <1>9, <1>15, <2>1, <2>5, <2>6, <2>7, <2>8, <2>9, <2>10, <2>11, <2>12, GoStep
<1>16. CASE Fails(h)  BY <1>9, <1>16, FailsStep
<1>17. QED  BY <1>5, <1>6, <1>14, <1>15, <1>16

LEMMA ShowMessagesStep ==
  ASSUME MobileInv, NEW h \in handlers, ShowMessages(h),
         UNCHANGED <<screen, step, profile, switches>>
  PROVE  MobileInv'
<1>1. Typed /\ Control /\ Mail  BY InvParts
<1>2. h \in Handler /\ h.phone \in Phone /\ view[h.phone] \in View  BY <1>1, TypedHandler
<1>3. h.stage = "show"  BY DEF ShowMessages
<1>4. h.kind = "poll"  BY <1>1, <1>3 DEF Control, StagesOfKind
<1>5. PICK v \in View : v = view[h.phone]  BY <1>2
<1>6. PICK es \in SUBSET Envelope : es = v.shown \cup h.opened
  BY <1>2, HandlerFields, ViewFields
<1>7. /\ h.inbound \in Counters /\ h.opened \in SUBSET Envelope
      /\ v.inbound \in Counters /\ v.shown \in SUBSET Envelope
  BY <1>2, HandlerFields, ViewFields
<1>8. PICK w : w = Shows(v, h.inbound, es)  OBVIOUS
<1>9. w \in View /\ w.busy = v.busy /\ w.inbound = h.inbound /\ w.shown = es /\ w.outbound = v.outbound
  BY <1>7, <1>8, ShownFields
<1>10. PICK u : u = [h EXCEPT !.stage = "ack"]  OBVIOUS
<1>11. /\ u \in Handler /\ Same(h, u) /\ u.stage = "ack"
       /\ u.inbound = h.inbound /\ u.batch = h.batch /\ u.unread = h.unread
       /\ u.opened = h.opened
  BY <1>2, <1>10, AckFields
<1>12. handlers' = (handlers \ {h}) \cup {u}  BY <1>10 DEF ShowMessages, Goes
<1>13. Update(h, w)  BY <1>5, <1>6, <1>8 DEF ShowMessages, Shows
<1>14. /\ view' \in [Phone -> View]
       /\ \A p \in Phone : view'[p] = IF h.live /\ p = h.phone THEN w ELSE view[p]
  BY <1>1, <1>9, <1>13, Updated
<1>15. handlers' \subseteq Handler /\ IsFiniteSet(handlers')
  BY <1>1, <1>11, <1>12, FS_RemoveElement, FS_AddElement DEF Typed, MobileTypeOK
<1>16. HandlersApart'  BY <1>1, <1>11, <1>12 DEF Control, HandlersApart, Same
<1>17. StagesOfKind'  BY <1>1, <1>4, <1>11, <1>12 DEF Control, StagesOfKind, Same
<1>18. OneRuns'
  <2> SUFFICES ASSUME NEW p \in Phone PROVE OneRunsAt(p)'  BY OneRunsByPhoneNext
  <2>1. OneRunsAt(p)  BY <1>1, OneRunsByPhone DEF Control
  <2>2. view'[p].busy = view[p].busy  BY <1>5, <1>9, <1>14
  <2>3. QED  BY <1>11, <1>12, <2>1, <2>2, OneRunsGoes
<1>19. LivePolls'
  <2> SUFFICES ASSUME NEW g \in handlers', Reading(g)
               PROVE  g \in handlers /\ view'[g.phone].inbound = view[g.phone].inbound
    BY <1>1, LivePollsFrame DEF Control
  <2>1. g # u /\ g \in handlers /\ g # h  BY <1>11, <1>12 DEF Reading
  <2>2. g.phone \in Phone  BY <1>15, HandlerFields
  <2>3. ~(h.live /\ g.phone = h.phone)
    <3> SUFFICES ASSUME h.live, g.phone = h.phone PROVE FALSE  OBVIOUS
    <3>1. RunsOn(g, h.phone) /\ RunsOn(h, h.phone)  BY <1>4 DEF RunsOn, Reading
    <3>2. QED  BY <1>1, <1>2, <2>1, <3>1 DEF Control, OneRuns
  <2>4. QED  BY <1>14, <2>1, <2>2, <2>3
<1>20. ASSUME h.live PROVE Apart(w.shown) /\ Passed(w.shown, w.inbound)
  <2>1. AheadOf(h, v.inbound)
    BY <1>1, <1>3, <1>4, <1>5, <1>20 DEF Control, LivePolls, Reading
  <2>2. Apart(v.shown) /\ Passed(v.shown, v.inbound)  BY <1>1, <1>2, <1>5 DEF Control, ShownPassed
  <2>3. \A q \in Phone : v.inbound[q] \in Nat /\ h.inbound[q] \in Nat
    BY <1>7, MobileAssumption DEF Counters
  <2>4. \A e \in es : e.from \in Phone /\ e.counter \in Nat  BY <1>7, EnvelopeFields
  <2>5. \A e \in v.shown : e.counter < v.inbound[e.from]  BY <2>2 DEF Passed
  <2>6. \A e \in h.opened : v.inbound[e.from] <= e.counter /\ e.counter < h.inbound[e.from]
    BY <2>1 DEF AheadOf
  <2>7. \A q \in Phone : v.inbound[q] <= h.inbound[q]  BY <2>1 DEF AheadOf
  <2>8. Passed(es, h.inbound)  BY <1>6, <2>3, <2>4, <2>5, <2>6, <2>7 DEF Passed
  <2>9. \A e \in v.shown, f \in h.opened : e.from = f.from => e.counter # f.counter
    BY <1>6, <2>3, <2>4, <2>5, <2>6
  <2>10. Apart(h.opened)  BY <2>1 DEF AheadOf
  <2>11. Apart(es)  BY <1>6, <2>2, <2>9, <2>10 DEF Apart
  <2>12. QED  BY <1>9, <2>8, <2>11
<1>21. ShownPassed'
  <2>1. \A p \in Phone : \/ SameRead(view[p], view'[p])
                         \/ Apart(view'[p].shown) /\ Passed(view'[p].shown, view'[p].inbound)
    BY <1>14, <1>20 DEF SameRead
  <2>2. QED  BY <1>1, <2>1, ShownFrame DEF Control
<1>22. UNCHANGED <<bundles, mailbox, composed>>  BY DEF ShowMessages
<1>23. FateGrows /\ \A e \in h.opened : fate'[e.id] # {}
  <2>1. PICK ids : ids = {e.id : e \in h.opened}  OBVIOUS
  <2>2. Happens(ids, "opened")  BY <2>1 DEF ShowMessages
  <2>3. FateGrows /\ \A m \in MessageId : m \in ids => fate'[m] # {}
    BY <1>1, <2>2, Happened DEF Cause
  <2>4. \A e \in h.opened : e.id \in MessageId /\ e.id \in ids  BY <1>7, <2>1, EnvelopeFields
  <2>5. QED  BY <2>3, <2>4
<1>24. Mail'
  <2>1. composed \in Nat /\ 1 .. composed \subseteq MessageId
    BY <1>1, MobileAssumption DEF Typed, MobileTypeOK, MessageId
  <2>2. Follows(u, h)  BY <1>11 DEF Follows, Same
  <2>3. \A g \in handlers' : \E f \in handlers : Follows(g, f)  BY <1>12, <2>2, FollowsItself
  <2>4. \A p \in Phone : view'[p].outbound = view[p].outbound  BY <1>5, <1>9, <1>14
  <2>5. CountersBounded'  BY <1>1, <1>22, <2>1, <2>3, <2>4, CountersFrame DEF Mail
  <2>6. \A g \in handlers' : \E f \in handlers : g.phone = f.phone /\ g.batch = f.batch
    BY <2>3 DEF Follows
  <2>7. IdsApart'  BY <1>1, <1>15, <1>22, <2>6, IdsFrame DEF Mail
  <2>8. AckedWasJudged'  BY <1>1, <1>22, <1>23, GoneFrame DEF Mail
  <2>9. PollsJudge'
    <3>1. Judged(h, fate)  BY <1>1 DEF Mail, PollsJudge
    <3>2. \A e \in h.batch : e.id \in MessageId  BY <1>2, HandlerFields, EnvelopeFields
    <3>3. \A e \in h.batch : fate'[e.id] # {}
      BY <1>3, <1>23, <3>1, <3>2 DEF Judged, FateGrows
    <3>4. Judged(u, fate')  BY <1>11, <3>3 DEF Judged
    <3>5. QED  BY <1>1, <1>12, <1>23, <3>4, StillJudged DEF PollsJudge
  <2>10. QED  BY <2>5, <2>7, <2>8, <2>9 DEF Mail
<1>25. Typed'  BY <1>1, <1>14, <1>15, <1>22, <1>23, TypedNext DEF Typed, MobileTypeOK
<1>26. QED  BY <1>16, <1>17, <1>18, <1>19, <1>21, <1>24, <1>25, InvPartsNext DEF Control

LEMMA AckMailboxStep ==
  ASSUME MobileInv, NEW h \in handlers, AckMailbox(h),
         UNCHANGED <<screen, step, profile, switches>>
  PROVE  MobileInv'
<1>1. Typed /\ Control /\ Mail  BY InvParts
<1>2. h \in Handler /\ h.phone \in Phone /\ view[h.phone] \in View  BY <1>1, TypedHandler
<1>3. h.stage = "ack"  BY DEF AckMailbox
<1>4. h.kind # "register"  BY <1>1, <1>3 DEF Control, StagesOfKind
<1>5. PICK ids : ids = {e.id : e \in h.batch}  OBVIOUS
<1>6. \/ /\ mailbox' = [mailbox EXCEPT ![h.phone] = {e \in @ : e.id \notin ids}]
         /\ Finally(h, view[h.phone])
         /\ UNCHANGED <<bundles, composed, fate>>
      \/ Fails(h)
  BY <1>5 DEF AckMailbox
<1>7. CASE /\ mailbox' = [mailbox EXCEPT ![h.phone] = {e \in @ : e.id \notin ids}]
           /\ Finally(h, view[h.phone])
           /\ UNCHANGED <<bundles, composed, fate>>
  <2>1. SameRead(view[h.phone], view[h.phone])  BY DEF SameRead
  <2>2. /\ Control'
        /\ handlers' \subseteq handlers /\ handlers' \subseteq Handler /\ IsFiniteSet(handlers')
        /\ view' \in [Phone -> View]
        /\ \A p \in Phone : view'[p].outbound = view[p].outbound
                            \/ view'[p].outbound = view[h.phone].outbound
    BY <1>1, <1>2, <1>4, <1>7, <2>1, Ended
  <2>3. \A p \in Phone : mailbox'[p] = IF p = h.phone THEN {e \in mailbox[p] : e.id \notin ids}
                                       ELSE mailbox[p]
    BY <1>1, <1>2, <1>7 DEF Typed, MobileTypeOK
  <2>4. mailbox' \in [Phone -> SUBSET Envelope]
    BY <1>1, <1>2, <1>7 DEF Typed, MobileTypeOK
  <2>5. FateGrows  BY <1>1, <1>7, FateKept
  <2>6. \A m \in ids : fate[m] # {}  BY <1>1, <1>3, <1>5 DEF Mail, PollsJudge, Judged
  <2>7. composed \in Nat /\ 1 .. composed \subseteq MessageId
    BY <1>1, MobileAssumption DEF Typed, MobileTypeOK, MessageId
  <2>8. CountersBounded'
    <3>1. \A q \in Phone : view[h.phone].outbound[q] <= composed
      BY <1>1, <1>2, OutboundOfScreen
    <3>2. \A g \in handlers' : \E f \in handlers : Follows(g, f)  BY <2>2, FollowsItself
    <3>3. \A p \in Phone : \A e \in mailbox'[p] : e \in mailbox[p]  BY <2>3
    <3>4. QED  BY <1>1, <1>7, <2>2, <2>7, <3>1, <3>2, <3>3, CountersFrame DEF Mail
  <2>9. IdsApart'
    <3>1. \A p \in Phone : mailbox'[p] \subseteq mailbox[p]  BY <2>3
    <3>2. \A g \in handlers' : \E f \in handlers : g.phone = f.phone /\ g.batch = f.batch
      BY <2>2
    <3>3. QED  BY <1>1, <2>2, <3>1, <3>2, IdsFrame DEF Mail
  <2>10. AckedWasJudged'
    <3>1. ASSUME NEW m \in 1 .. composed, fate'[m] = {}
          PROVE  \A p \in Phone : \A e \in mailbox[p] : e.id = m => e \in mailbox'[p]
      <4>1. m \notin ids  BY <1>7, <2>6, <3>1
      <4>2. QED  BY <2>3, <4>1
    <3>2. QED  BY <1>1, <1>7, <2>5, <3>1, GoneFrame DEF Mail
  <2>11. PollsJudge'  BY <1>1, <2>2, <2>5, StillJudged DEF PollsJudge
  <2>12. Typed'  BY <1>1, <1>7, <2>2, <2>4, <2>5, TypedNext DEF Typed, MobileTypeOK
  <2>13. QED  BY <2>2, <2>8, <2>9, <2>10, <2>11, <2>12, InvPartsNext DEF Mail
<1>8. CASE Fails(h)  BY <1>4, <1>8, FailsStep
<1>9. QED  BY <1>6, <1>7, <1>8

LEMMA ExpireStep ==
  ASSUME MobileInv, NEW p \in Phone, Expire(p)
  PROVE  MobileInv'
<1>1. Typed /\ Control /\ Mail  BY InvParts
<1>2. PICK e \in mailbox[p] : mailbox' = [mailbox EXCEPT ![p] = @ \ {e}] /\ Happens({e.id}, "expired")
  BY DEF Expire
<1>3. UNCHANGED <<screen, step, profile, view, handlers, bundles, composed, switches>>  BY DEF Expire
<1>4. e \in Envelope /\ e.id \in MessageId
  BY <1>1, EnvelopeFields DEF Typed, MobileTypeOK
<1>5. FateGrows /\ fate'[e.id] # {}  BY <1>1, <1>2, <1>4, Happened DEF Cause
<1>6. /\ mailbox' \in [Phone -> SUBSET Envelope]
      /\ \A q \in Phone : mailbox'[q] = IF q = p THEN mailbox[q] \ {e} ELSE mailbox[q]
  BY <1>1, <1>2 DEF Typed, MobileTypeOK
<1>7. composed \in Nat /\ handlers \subseteq Handler /\ IsFiniteSet(handlers)
  BY <1>1, MobileAssumption DEF Typed, MobileTypeOK
<1>8. Control'
  <2>1. HandlersApart' /\ StagesOfKind' /\ OneRuns'
    BY <1>1, <1>3 DEF Control, HandlersApart, StagesOfKind, OneRuns
  <2>2. LivePolls' /\ ShownPassed'  BY <1>1, <1>3 DEF Control, LivePolls, ShownPassed
  <2>3. QED  BY <2>1, <2>2 DEF Control
<1>9. CountersBounded'  BY <1>1, <1>3, <1>6, <1>7, FollowsItself, CountersFrame DEF Mail
<1>10. IdsApart'  BY <1>1, <1>3, <1>6, <1>7, IdsFrame DEF Mail
<1>11. PollsJudge'  BY <1>1, <1>3, <1>5, StillJudged DEF PollsJudge
<1>12. AckedWasJudged'
  <2>1. \A m \in 1 .. composed : fate'[m] = {} =>
          \A q \in Phone : \A f \in mailbox[q] : f.id = m => f \in mailbox'[q]
    BY <1>5, <1>6
  <2>2. QED  BY <1>1, <1>3, <1>5, <2>1, GoneFrame DEF Mail
<1>13. Typed'  BY <1>1, <1>3, <1>5, <1>6, <1>7, TypedNext DEF Typed, MobileTypeOK
<1>14. QED  BY <1>8, <1>9, <1>10, <1>11, <1>12, <1>13, InvPartsNext DEF Mail

-----------------------------------------------------------------------------
(* Steps that start handlers and change screens                            *)

ScreenTyped ==
    /\ screen \in [Phone -> {"onboarding", "messages", "terminal"}]
    /\ step \in [Phone -> 1 .. 3]
    /\ profile \subseteq Phone
    /\ switches \in 0 .. MaxSwitches

LEMMA TypedMoved ==
  ASSUME Typed, ScreenTyped', view' \in [Phone -> View], handlers' \subseteq Handler,
         IsFiniteSet(handlers'), UNCHANGED <<bundles, mailbox, composed, fate>>
  PROVE  Typed'
BY DEF Typed, MobileTypeOK, ScreenTyped

LEMMA ScreenTypedNow == Typed => ScreenTyped
BY DEF Typed, MobileTypeOK, ScreenTyped

\* Only the onboarding goes on.
LEMMA OnboardingStep ==
  ASSUME MobileInv, ScreenTyped', UNCHANGED <<view, handlers, bundles, mailbox, composed, fate>>
  PROVE  MobileInv'
<1>1. Typed /\ Control /\ Mail  BY InvParts
<1>2. Typed'  BY <1>1, TypedMoved DEF Typed, MobileTypeOK
<1>3. HandlersApart' /\ StagesOfKind' /\ OneRuns'
  BY <1>1 DEF Control, HandlersApart, StagesOfKind, OneRuns
<1>4. LivePolls' /\ ShownPassed'  BY <1>1 DEF Control, LivePolls, ShownPassed
<1>5. CountersBounded' /\ IdsApart' /\ PollsJudge' /\ AckedWasJudged'
  BY <1>1 DEF Mail, CountersBounded, IdsApart, PollsJudge, AckedWasJudged
<1>6. QED  BY <1>2, <1>3, <1>4, <1>5, InvPartsNext DEF Control, Mail

LEMMA HandleGenerateIdentityStep ==
  ASSUME MobileInv, NEW p \in Phone, HandleGenerateIdentity(p) PROVE MobileInv'
<1>1. Typed  BY InvParts
<1>2. ScreenTyped'  BY <1>1 DEF HandleGenerateIdentity, ScreenTyped, Typed, MobileTypeOK
<1>3. QED  BY <1>2, OnboardingStep DEF HandleGenerateIdentity

LEMMA HandleConfirmSeedStep ==
  ASSUME MobileInv, NEW p \in Phone, HandleConfirmSeed(p) PROVE MobileInv'
<1>1. Typed  BY InvParts
<1>2. ScreenTyped'  BY <1>1 DEF HandleConfirmSeed, ScreenTyped, Typed, MobileTypeOK
<1>3. QED  BY <1>2, OnboardingStep DEF HandleConfirmSeed

LEMMA StartStep ==
  ASSUME MobileInv, NEW p \in Phone, NEW n, Newcomer(n, p), handlers' = handlers \cup {n},
         n.stage = "register" <=> n.kind = "register",
         n.stage \notin {"poll", "open", "show", "ack"},
         view' \in [Phone -> View], OneRuns',
         \A q \in Phone : SameRead(view[q], view'[q]) /\ view'[q].outbound = view[q].outbound,
         UNCHANGED <<screen, step, profile, bundles, mailbox, composed, switches, fate>>
  PROVE  MobileInv'
<1>1. Typed /\ Control /\ Mail  BY InvParts
<1>2. view[p] \in View  BY <1>1 DEF Typed, MobileTypeOK
<1>3. composed \in Nat  BY <1>1, MobileAssumption DEF Typed, MobileTypeOK
<1>4. handlers' \subseteq Handler /\ IsFiniteSet(handlers')
  BY <1>1, FS_AddElement DEF Newcomer, Typed, MobileTypeOK
<1>5. HandlersApart'  BY <1>1 DEF Control, HandlersApart, Newcomer
<1>6. StagesOfKind'  BY <1>1 DEF Control, StagesOfKind
<1>7. LivePolls'
  <2> SUFFICES ASSUME NEW g \in handlers', Reading(g)
               PROVE  \/ AheadOf(g, view'[g.phone].inbound)
                      \/ g \in handlers /\ view'[g.phone].inbound = view[g.phone].inbound
    BY <1>1, LivePollsFrame DEF Control
  <2>1. g.phone \in Phone  BY <1>4, HandlerFields
  <2>2. view'[g.phone].inbound = view[g.phone].inbound  BY <2>1 DEF SameRead
  <2>3. CASE g = n
    <3>1. g.inbound = view[g.phone].inbound /\ g.opened = {}
      BY <2>3 DEF Newcomer, Reading
    <3>2. g.inbound \in Counters  BY <1>4, HandlerFields
    <3>3. \A q \in Phone : g.inbound[q] \in Nat  BY <3>2, MobileAssumption DEF Counters
    <3>4. QED  BY <2>2, <3>1, <3>3 DEF AheadOf, Apart
  <2>4. QED  BY <2>2, <2>3
<1>8. ShownPassed'  BY <1>1, ShownFrame DEF Control
<1>9. CountersBounded'
  <2>1. \A q \in Phone : n.outbound[q] <= composed
    <3>1. \A q \in Phone : view[p].outbound[q] <= composed  BY <1>1, OutboundOfScreen
    <3>2. QED  BY <1>3, <3>1 DEF Newcomer, Zero
  <2>2. (\A e \in n.batch : Numbered(e, composed)) /\ n.unread \subseteq n.batch
    BY DEF Newcomer
  <2>3. \A g \in handlers' : g = n \/ \E f \in handlers : Follows(g, f)  BY FollowsItself
  <2>4. QED  BY <1>1, <1>3, <2>1, <2>2, <2>3, CountersFrame DEF Mail
<1>10. IdsApart'
  <2>1. n.batch \subseteq mailbox[n.phone]  BY DEF Newcomer
  <2>2. QED  BY <1>1, <1>4, <2>1, IdsFrame DEF Mail
<1>11. FateGrows  BY <1>1, FateKept
<1>12. AckedWasJudged'  BY <1>1, <1>11, GoneFrame DEF Mail
<1>13. PollsJudge'
  <2>1. Judged(n, fate')  BY DEF Newcomer, Judged
  <2>2. QED  BY <1>1, <1>11, <2>1, StillJudged DEF PollsJudge
<1>14. Typed'  BY <1>1, <1>4, <1>11, TypedNext DEF Typed, MobileTypeOK
<1>15. QED
  BY <1>5, <1>6, <1>7, <1>8, <1>9, <1>10, <1>12, <1>13, <1>14, InvPartsNext DEF Control, Mail

LEMMA HandlePublishToRelayStep ==
  ASSUME MobileInv, NEW p \in Phone, HandlePublishToRelay(p) PROVE MobileInv'
<1>1. Typed /\ Control /\ Mail  BY InvParts
<1>2. PICK n : n = Started(p, "register", p, "register")  OBVIOUS
<1>3. Room(p)  BY DEF HandlePublishToRelay
<1>4. Newcomer(n, p) /\ n.stage = "register" /\ n.kind = "register"
  <2>1. "register" \in Kinds /\ "register" \in Stage  BY DEF Kinds, Stage
  <2>2. QED  BY <1>1, <1>2, <1>3, <2>1, StartedFields
<1>5. handlers' = handlers \cup {n} /\ view' = view
  BY <1>2 DEF HandlePublishToRelay
<1>6. OneRuns'
  <2> SUFFICES ASSUME NEW q \in Phone PROVE OneRunsAt(q)'  BY OneRunsByPhoneNext
  <2>1. OneRunsAt(q)  BY <1>1, OneRunsByPhone DEF Control
  <2>2. \A g : RunsOn(g, q) => (g \in handlers' <=> g \in handlers)
    BY <1>4, <1>5 DEF RunsOn
  <2>3. QED  BY <1>5, <2>1, <2>2, OneRunsFrame
<1>7. \A q \in Phone : SameRead(view[q], view'[q]) /\ view'[q].outbound = view[q].outbound
  BY <1>5 DEF SameRead
<1>8. view' \in [Phone -> View]  BY <1>1, <1>5 DEF Typed, MobileTypeOK
<1>9. QED  BY <1>4, <1>5, <1>6, <1>7, <1>8, StartStep DEF HandlePublishToRelay

LEMMA PressedStep ==
  ASSUME MobileInv, NEW p \in Phone, NEW kind \in {"publish", "load", "send", "poll"},
         NEW to \in Phone, Pressed(p, kind, to)
  PROVE  MobileInv'
<1>1. Typed /\ Control /\ Mail  BY InvParts
<1>2. PICK s : s = IF kind \in {"publish", "poll"} \/ to = p THEN "own" ELSE "fetch"  OBVIOUS
<1>3. s \in Stage /\ s \in {"own", "fetch"}  BY <1>2 DEF Stage
<1>4. PICK n : n = Started(p, kind, to, s)  OBVIOUS
<1>5. Room(p) /\ ~view[p].busy  BY DEF Pressed
<1>6. kind \in Kinds  BY DEF Kinds
<1>7. Newcomer(n, p) /\ n.stage = s /\ n.kind = kind
  BY <1>1, <1>3, <1>4, <1>5, <1>6, StartedFields
<1>8. PICK v \in View : v = view[p]  BY <1>1 DEF Typed, MobileTypeOK
<1>9. PICK w : w = [v EXCEPT !.busy = TRUE]  OBVIOUS
<1>10. w \in View /\ w.busy = TRUE /\ SameRead(v, w) /\ w.outbound = v.outbound
  BY <1>9, BusyFields
<1>11. handlers' = handlers \cup {n} /\ view' = [view EXCEPT ![p] = w]
  BY <1>2, <1>4, <1>8, <1>9 DEF Pressed
<1>12. /\ view' \in [Phone -> View]
       /\ \A q \in Phone : view'[q] = IF q = p THEN w ELSE view[q]
  BY <1>1, <1>10, <1>11 DEF Typed, MobileTypeOK
<1>13. OneRuns'
  <2> SUFFICES ASSUME NEW q \in Phone PROVE OneRunsAt(q)'  BY OneRunsByPhoneNext
  <2>1. OneRunsAt(q)  BY <1>1, OneRunsByPhone DEF Control
  <2>2. CASE q = p
    <3>1. RunsOn(n, q)  BY <1>7, <2>2 DEF RunsOn, Newcomer
    <3>2. QED  BY <1>5, <1>10, <1>11, <1>12, <2>1, <2>2, <3>1, OneRunsStarts
  <2>3. CASE q # p
    <3>1. \A g : RunsOn(g, q) => (g \in handlers' <=> g \in handlers)
      BY <1>7, <1>11, <2>3 DEF RunsOn, Newcomer
    <3>2. QED  BY <1>12, <2>1, <2>3, <3>1, OneRunsFrame
  <2>4. QED  BY <2>2, <2>3
<1>14. \A q \in Phone : SameRead(view[q], view'[q]) /\ view'[q].outbound = view[q].outbound
  BY <1>8, <1>10, <1>12 DEF SameRead
<1>15. /\ n.stage = "register" <=> n.kind = "register"
       /\ n.stage \notin {"poll", "open", "show", "ack"}
  BY <1>3, <1>7
<1>16. QED  BY <1>7, <1>11, <1>12, <1>13, <1>14, <1>15, StartStep DEF Pressed

\* The registration leaves, and nothing on the screens changes.
LEMMA RegisterEnds ==
  ASSUME MobileInv, NEW h \in handlers, h.stage = "register", handlers' = handlers \ {h},
         ScreenTyped', UNCHANGED <<view, bundles, mailbox, composed, fate>>
  PROVE  MobileInv'
<1>1. Typed /\ Control /\ Mail  BY InvParts
<1>2. h.kind = "register"  BY <1>1 DEF Control, StagesOfKind
<1>3. handlers' \subseteq Handler /\ IsFiniteSet(handlers')
  BY <1>1, FS_RemoveElement DEF Typed, MobileTypeOK
<1>4. HandlersApart' /\ StagesOfKind'  BY <1>1 DEF Control, HandlersApart, StagesOfKind
<1>5. OneRuns'
  <2> SUFFICES ASSUME NEW q \in Phone PROVE OneRunsAt(q)'  BY OneRunsByPhoneNext
  <2>1. OneRunsAt(q)  BY <1>1, OneRunsByPhone DEF Control
  <2>2. \A g : RunsOn(g, q) => (g \in handlers' <=> g \in handlers)  BY <1>2 DEF RunsOn
  <2>3. QED  BY <2>1, <2>2, OneRunsFrame
<1>6. LivePolls'  BY <1>1, LivePollsFrame DEF Control
<1>7. ShownPassed'  BY <1>1 DEF Control, ShownPassed
<1>8. FateGrows  BY <1>1, FateKept
<1>9. \A g \in handlers' : (\E f \in handlers : Follows(g, f)) /\ Judged(g, fate')
  BY <1>1, <1>8, StillJudged
<1>10. \A p \in Phone : view'[p].outbound = view[p].outbound  OBVIOUS
<1>11. Mail'  BY <1>1, <1>3, <1>8, <1>9, <1>10, MailKept
<1>12. Typed'  BY <1>1, <1>3, TypedMoved DEF Typed, MobileTypeOK
<1>13. QED  BY <1>4, <1>5, <1>6, <1>7, <1>11, <1>12, InvPartsNext DEF Control

\* What becomes of the handlers of a phone whose screen is gone.
Outlived(p, hs, gs) ==
    /\ gs \subseteq Handler /\ IsFiniteSet(gs)
    /\ \A g \in gs : \E f \in hs :
          /\ g = (IF f.phone = p THEN [f EXCEPT !.live = FALSE] ELSE f)
          /\ Follows(g, f) /\ g.id = f.id /\ g.kind = f.kind /\ g.stage = f.stage
          /\ g.unread = f.unread /\ g.opened = f.opened
          /\ (f.phone = p /\ g.live = FALSE) \/ (f.phone # p /\ g = f)
    /\ \A f \in hs : f.phone # p => f \in gs

LEMMA StaleMembers ==
  ASSUME NEW hs, hs \subseteq Handler, IsFiniteSet(hs), NEW p \in Phone
  PROVE  Outlived(p, hs, Stale(p, hs))
<1> DEFINE made == [f \in hs |-> IF f.phone = p THEN [f EXCEPT !.live = FALSE] ELSE f]
<1>1. Stale(p, hs) = {made[f] : f \in hs}  BY DEF Stale
<1>2. made \in Surjection(hs, Stale(p, hs))  BY <1>1 DEF Surjection
<1>3. IsFiniteSet(Stale(p, hs))
  <2> HIDE DEF made
  <2>1. QED  BY <1>2, FS_Surjection
<1>4. ASSUME NEW g \in Stale(p, hs)
      PROVE  \E f \in hs :
               /\ g = (IF f.phone = p THEN [f EXCEPT !.live = FALSE] ELSE f)
               /\ g \in Handler
               /\ Follows(g, f) /\ g.id = f.id /\ g.kind = f.kind /\ g.stage = f.stage
               /\ g.unread = f.unread /\ g.opened = f.opened
               /\ (f.phone = p /\ g.live = FALSE) \/ (f.phone # p /\ g = f)
  <2>1. PICK f \in hs : g = (IF f.phone = p THEN [f EXCEPT !.live = FALSE] ELSE f)  BY DEF Stale
  <2>2. f \in Handler  OBVIOUS
  <2>3. CASE f.phone = p
    <3>1. PICK u : u = [f EXCEPT !.live = FALSE]  OBVIOUS
    <3>2. /\ u \in Handler
          /\ u.id = f.id /\ u.phone = f.phone /\ u.live = FALSE /\ u.kind = f.kind
          /\ u.stage = f.stage /\ u.batch = f.batch /\ u.unread = f.unread
          /\ u.opened = f.opened /\ u.outbound = f.outbound
      BY <2>2, <3>1, StaleFields
    <3>3. g = u  BY <2>1, <2>3, <3>1
    <3>4. Follows(g, f)  BY <3>2, <3>3 DEF Follows
    <3>5. QED  BY <2>1, <2>3, <3>2, <3>3, <3>4
  <2>4. CASE f.phone # p  BY <2>1, <2>2, <2>4, FollowsItself
  <2>5. QED  BY <2>3, <2>4
<1>5. \A f \in hs : f.phone # p => f \in Stale(p, hs)
  <2> SUFFICES ASSUME NEW f \in hs, f.phone # p PROVE f \in Stale(p, hs)  OBVIOUS
  <2>1. made[f] = f  OBVIOUS
  <2>2. QED  BY <1>1, <2>1
<1>6. QED  BY <1>3, <1>4, <1>5 DEF Outlived

\* The screen of a phone is replaced.
LEMMA ClearStep ==
  ASSUME MobileInv, NEW p \in Phone, NEW hs, hs \subseteq handlers,
         \A g \in handlers : g.phone # p => g \in hs,
         handlers' = Stale(p, hs), view' = [view EXCEPT ![p] = FreshView],
         ScreenTyped', UNCHANGED <<bundles, mailbox, composed, fate>>
  PROVE  MobileInv'
<1>1. Typed /\ Control /\ Mail  BY InvParts
<1>2. hs \subseteq Handler /\ IsFiniteSet(hs)  BY <1>1, FS_Subset DEF Typed, MobileTypeOK
<1>3. /\ handlers' \subseteq Handler /\ IsFiniteSet(handlers')
      /\ \A g \in handlers' : \E f \in hs :
            /\ g = (IF f.phone = p THEN [f EXCEPT !.live = FALSE] ELSE f)
            /\ Follows(g, f) /\ g.id = f.id /\ g.kind = f.kind /\ g.stage = f.stage
            /\ g.unread = f.unread /\ g.opened = f.opened
            /\ (f.phone = p /\ g.live = FALSE) \/ (f.phone # p /\ g = f)
      /\ \A f \in hs : f.phone # p => f \in handlers'
  <2>1. Outlived(p, hs, handlers')  BY <1>2, StaleMembers
  <2>2. QED  BY <2>1 DEF Outlived
<1>4. /\ view' \in [Phone -> View]
      /\ \A q \in Phone : view'[q] = IF q = p THEN FreshView ELSE view[q]
  BY <1>1, FreshFields DEF Typed, MobileTypeOK
<1>5. \A g \in handlers' : /\ g.phone = p => g.live = FALSE
                           /\ g.phone # p => g \in handlers
  BY <1>3 DEF Follows
<1>6. HandlersApart'
  <2> SUFFICES ASSUME NEW g \in handlers', NEW k \in handlers', g.phone = k.phone, g.id = k.id
               PROVE  g = k
    BY DEF HandlersApart
  <2>1. PICK f \in hs : /\ g = (IF f.phone = p THEN [f EXCEPT !.live = FALSE] ELSE f)
                        /\ Follows(g, f) /\ g.id = f.id
    BY <1>3
  <2>2. PICK m \in hs : /\ k = (IF m.phone = p THEN [m EXCEPT !.live = FALSE] ELSE m)
                        /\ Follows(k, m) /\ k.id = m.id
    BY <1>3
  <2>3. f.phone = m.phone /\ f.id = m.id  BY <2>1, <2>2 DEF Follows
  <2>4. f = m  BY <1>1, <2>3 DEF Control, HandlersApart
  <2>5. QED  BY <2>1, <2>2, <2>4
<1>7. StagesOfKind'
  <2>1. \A g \in handlers' : \E f \in handlers : g.kind = f.kind /\ g.stage = f.stage  BY <1>3
  <2>2. QED  BY <1>1, <2>1 DEF Control, StagesOfKind
<1>8. OneRuns'
  <2> SUFFICES ASSUME NEW q \in Phone PROVE OneRunsAt(q)'  BY OneRunsByPhoneNext
  <2>1. OneRunsAt(q)  BY <1>1, OneRunsByPhone DEF Control
  <2>2. CASE q = p  BY <1>4, <1>5, <2>2, FreshFields, OneRunsCleared
  <2>3. CASE q # p
    <3>1. \A g : RunsOn(g, q) => (g \in handlers' <=> g \in handlers)
      BY <1>3, <1>5, <2>3 DEF RunsOn
    <3>2. QED  BY <1>4, <2>1, <2>3, <3>1, OneRunsFrame
  <2>4. QED  BY <2>2, <2>3
<1>9. LivePolls'
  <2> SUFFICES ASSUME NEW g \in handlers', Reading(g)
               PROVE  g \in handlers /\ view'[g.phone].inbound = view[g.phone].inbound
    BY <1>1, LivePollsFrame DEF Control
  <2>1. g.phone # p /\ g \in handlers  BY <1>5 DEF Reading
  <2>2. g.phone \in Phone  BY <1>3, HandlerFields
  <2>3. QED  BY <1>4, <2>1, <2>2
<1>10. ShownPassed'
  <2>1. \A q \in Phone : \/ SameRead(view[q], view'[q])
                         \/ Apart(view'[q].shown) /\ Passed(view'[q].shown, view'[q].inbound)
    BY <1>4, FreshFields DEF SameRead, Apart, Passed
  <2>2. QED  BY <1>1, <2>1, ShownFrame DEF Control
<1>11. Mail'
  <2>1. composed \in Nat  BY <1>1, MobileAssumption DEF Typed, MobileTypeOK
  <2>2. \A q \in Phone : \/ view'[q].outbound = view[q].outbound
                         \/ \A r \in Phone : view'[q].outbound[r] <= composed
    BY <1>4, <2>1, FreshFields DEF Zero
  <2>3. FateGrows  BY <1>1, FateKept
  <2>4. ASSUME NEW g \in handlers' PROVE (\E f \in handlers : Follows(g, f)) /\ Judged(g, fate')
    <3>1. PICK f \in hs : /\ Follows(g, f) /\ g.stage = f.stage
                          /\ g.unread = f.unread /\ g.opened = f.opened
      BY <1>3
    <3>2. g \in Handler /\ f \in Handler  BY <1>2, <1>3
    <3>3. Judged(f, fate)  BY <1>1 DEF Mail, PollsJudge
    <3>4. Judged(g, fate')  BY <2>3, <3>1, <3>2, <3>3, JudgedGrows DEF Follows
    <3>5. QED  BY <3>1, <3>4
  <2>5. QED  BY <1>1, <1>3, <2>2, <2>3, <2>4, MailKept
<1>12. Typed'  BY <1>1, <1>3, <1>4, TypedMoved
<1>13. QED  BY <1>6, <1>7, <1>8, <1>9, <1>10, <1>11, <1>12, InvPartsNext DEF Control

LEMMA SetActiveScreenStep ==
  ASSUME MobileInv, NEW p \in Phone, NEW to \in {"onboarding", "messages", "terminal"},
         SetActiveScreen(p, to)
  PROVE  MobileInv'
<1>1. Typed  BY InvParts
<1>2. to # screen[p] /\ Switch(p, to)  BY DEF SetActiveScreen
<1>3. view' = [view EXCEPT ![p] = FreshView]  BY <1>2 DEF Switch
<1>4. ScreenTyped'
  <2>1. /\ screen' \in [Phone -> {"onboarding", "messages", "terminal"}]
        /\ step' \in [Phone -> 1 .. 3]
    BY <1>1, <1>2 DEF Switch, Typed, MobileTypeOK
  <2>2. switches' \in 0 .. MaxSwitches
    BY <1>1, MobileAssumption DEF SetActiveScreen, Typed, MobileTypeOK
  <2>3. profile' \subseteq Phone  BY <1>1 DEF SetActiveScreen, Typed, MobileTypeOK
  <2>4. QED  BY <2>1, <2>2, <2>3 DEF ScreenTyped
<1>5. handlers' = Stale(p, handlers) /\ UNCHANGED <<bundles, mailbox, composed, fate>>
  BY DEF SetActiveScreen
<1>6. QED  BY <1>3, <1>4, <1>5, ClearStep

LEMMA OnCompleteStep ==
  ASSUME MobileInv, NEW h \in handlers, OnComplete(h)
  PROVE  MobileInv'
<1>1. Typed  BY InvParts
<1>2. h.phone \in Phone  BY <1>1, TypedHandler
<1>3. PICK p \in Phone : p = h.phone  BY <1>2
<1>4. /\ h.stage = "register" /\ profile' = profile \cup {p} /\ Switch(p, "messages")
      /\ handlers' = (IF screen[p] = "messages" THEN handlers \ {h} ELSE Stale(p, handlers \ {h}))
      /\ UNCHANGED <<bundles, mailbox, composed, switches, fate>>
  BY <1>3 DEF OnComplete
<1>5. ScreenTyped'
  <2>1. /\ screen' \in [Phone -> {"onboarding", "messages", "terminal"}]
        /\ step' \in [Phone -> 1 .. 3]
    BY <1>1, <1>4 DEF Switch, Typed, MobileTypeOK
  <2>2. switches' \in 0 .. MaxSwitches /\ profile' \subseteq Phone
    BY <1>1, <1>4 DEF Typed, MobileTypeOK
  <2>3. QED  BY <2>1, <2>2 DEF ScreenTyped
<1>6. CASE screen[p] = "messages"
  <2>1. handlers' = handlers \ {h} /\ view' = view  BY <1>4, <1>6 DEF Switch
  <2>2. QED  BY <1>4, <1>5, <2>1, RegisterEnds
<1>7. CASE screen[p] # "messages"
  <2>1. handlers' = Stale(p, handlers \ {h}) /\ view' = [view EXCEPT ![p] = FreshView]
    BY <1>4, <1>7 DEF Switch
  <2>2. \A g \in handlers : g.phone # p => g \in handlers \ {h}  BY <1>3
  <2>3. QED  BY <1>4, <1>5, <2>1, <2>2, ClearStep
<1>8. QED  BY <1>6, <1>7

LEMMA PublishToRelayFailsStep ==
  ASSUME MobileInv, NEW h \in handlers, PublishToRelayFails(h)
  PROVE  MobileInv'
<1>1. Typed  BY InvParts
<1>2. ScreenTyped'  BY <1>1 DEF PublishToRelayFails, ScreenTyped, Typed, MobileTypeOK
<1>3. QED  BY <1>2, RegisterEnds DEF PublishToRelayFails

-----------------------------------------------------------------------------
(* The theorems                                                            *)

LEMMA InitMobileInv == MobileInit => MobileInv
<1> SUFFICES ASSUME MobileInit PROVE MobileInv  OBVIOUS
<1>1. \A p \in Phone : view[p] = FreshView  BY DEF MobileInit
<1>2. Typed
  <2>1. view \in [Phone -> View]  BY FreshFields DEF MobileInit
  <2>2. IsFiniteSet(handlers)  BY FS_EmptySet DEF MobileInit
  <2>3. QED  BY <2>1, <2>2, MobileAssumption DEF MobileInit, Typed, MobileTypeOK
<1>3. HandlersApart /\ StagesOfKind /\ LivePolls
  BY DEF MobileInit, HandlersApart, StagesOfKind, LivePolls
<1>4. OneRuns  BY <1>1, FreshFields DEF MobileInit, OneRuns
<1>5. ShownPassed  BY <1>1, FreshFields DEF ShownPassed, Apart, Passed
<1>6. CountersBounded  BY <1>1, FreshFields DEF MobileInit, CountersBounded, Zero
<1>7. IdsApart  BY DEF MobileInit, IdsApart
<1>8. PollsJudge /\ AckedWasJudged  BY DEF MobileInit, PollsJudge, AckedWasJudged
<1>9. QED  BY <1>2, <1>3, <1>4, <1>5, <1>6, <1>7, <1>8 DEF MobileInv

LEMMA PhoneStepInv ==
  ASSUME MobileInv, NEW p \in Phone, PhoneStep(p)
  PROVE  MobileInv'
<1>1. CASE \E to \in {"onboarding", "messages", "terminal"} : SetActiveScreen(p, to)
  BY <1>1, SetActiveScreenStep
<1>2. CASE HandleGenerateIdentity(p)  BY <1>2, HandleGenerateIdentityStep
<1>3. CASE HandleConfirmSeed(p)  BY <1>3, HandleConfirmSeedStep
<1>4. CASE HandlePublishToRelay(p)  BY <1>4, HandlePublishToRelayStep
<1>5. CASE HandlePublishBundle(p)  BY <1>5, PressedStep DEF HandlePublishBundle
<1>6. CASE HandlePollMailbox(p)  BY <1>6, PressedStep DEF HandlePollMailbox
<1>7. ASSUME NEW to \in Phone, HandleLoadBundle(p, to) PROVE MobileInv'
  BY <1>7, PressedStep DEF HandleLoadBundle
<1>8. ASSUME NEW to \in Phone, HandleSendMessage(p, to) PROVE MobileInv'
  BY <1>8, PressedStep DEF HandleSendMessage
<1>9. QED  BY <1>1, <1>2, <1>3, <1>4, <1>5, <1>6, <1>7, <1>8 DEF PhoneStep

LEMMA HandlerStepInv ==
  ASSUME MobileInv, NEW h \in handlers, HandlerStep(h)
  PROVE  MobileInv'
<1>1. CASE OnComplete(h)  BY <1>1, OnCompleteStep
<1>2. CASE PublishToRelayFails(h)  BY <1>2, PublishToRelayFailsStep
<1>3. CASE MessagingStep(h)
  <2>1. UNCHANGED <<screen, step, profile, switches>>  BY <1>3 DEF MessagingStep
  <2>2. CASE EnsureOwnPreKeyBundle(h)  BY <2>1, <2>2, EnsureOwnPreKeyBundleStep
  <2>3. CASE EnsureRecipientBundle(h)  BY <2>1, <2>3, EnsureRecipientBundleStep
  <2>4. CASE SendEnvelope(h)  BY <2>1, <2>4, SendEnvelopeStep
  <2>5. CASE PollMailbox(h)  BY <2>1, <2>5, PollMailboxStep
  <2>6. CASE OpenEnvelope(h)  BY <2>1, <2>6, OpenEnvelopeStep
  <2>7. CASE ShowMessages(h)  BY <2>1, <2>7, ShowMessagesStep
  <2>8. CASE AckMailbox(h)  BY <2>1, <2>8, AckMailboxStep
  <2>9. QED  BY <1>3, <2>2, <2>3, <2>4, <2>5, <2>6, <2>7, <2>8 DEF MessagingStep
<1>4. QED  BY <1>1, <1>2, <1>3 DEF HandlerStep

LEMMA NextMobileInv == MobileInv /\ [MobileNext]_mobileVars => MobileInv'
<1> SUFFICES ASSUME MobileInv, [MobileNext]_mobileVars PROVE MobileInv'  OBVIOUS
<1>1. CASE \E p \in Phone : PhoneStep(p) \/ Expire(p)  BY <1>1, PhoneStepInv, ExpireStep
<1>2. CASE \E h \in handlers : HandlerStep(h)  BY <1>2, HandlerStepInv
<1>3. CASE UNCHANGED mobileVars
  <2>1. ScreenTyped  BY InvParts, ScreenTypedNow
  <2>2. ScreenTyped'  BY <1>3, <2>1 DEF mobileVars, ScreenTyped
  <2>3. QED  BY <1>3, <2>2, OnboardingStep DEF mobileVars
<1>4. QED  BY <1>1, <1>2, <1>3 DEF MobileNext

\* The inductive invariant of the mobile client holds in every reachable state, for
\* any number of phones, handlers, messages and changes of screen.
THEOREM MobileInvariant == MobileSpec => []MobileInv
BY InitMobileInv, NextMobileInv, PTL DEF MobileSpec

\* Every counter, batch and message of the mobile client has its type; no session
\* counter outgrows the messages that were composed.
THEOREM MobileTypeCorrect == MobileSpec => []MobileTypeOK
<1>1. MobileInv => MobileTypeOK  BY DEF MobileInv, Typed
<1>2. QED  BY <1>1, MobileInvariant, PTL

\* `finally { setIsBusy(false) }' enables the buttons of the screen that started the
\* handler and of no other: a screen is busy exactly while its one handler runs.
THEOREM BusyWhileItsHandlerRuns == MobileSpec => []BusyIffHandler
<1>1. MobileInv => BusyIffHandler
  <2> SUFFICES ASSUME MobileInv, NEW p \in Phone,
                      NEW mine, mine = {h \in Of(p) : h.live /\ h.kind # "register"}
               PROVE  (view[p].busy <=> mine # {}) /\ Cardinality(mine) <= 1
    BY DEF BusyIffHandler
  <2>1. \A h : h \in mine <=> h \in handlers /\ RunsOn(h, p)  BY DEF Of, RunsOn
  <2>2. view[p].busy <=> mine # {}  BY <2>1 DEF MobileInv, OneRuns
  <2>3. \A g, h \in mine : g = h  BY <2>1 DEF MobileInv, OneRuns
  <2>4. CASE mine = {}
    <3>1. Cardinality(mine) = 0  BY <2>4, FS_EmptySet
    <3>2. QED  BY <2>2, <3>1
  <2>5. CASE mine # {}
    <3>1. PICK h : mine = {h}  BY <2>3, <2>5
    <3>2. Cardinality(mine) = 1  BY <3>1, FS_Singleton
    <3>3. QED  BY <2>2, <3>2
  <2>6. QED  BY <2>4, <2>5
<1>2. QED  BY <1>1, MobileInvariant, PTL

\* decryptMessage accepts one envelope under each counter, whatever polls overlap and
\* whatever counters a sender used again: no screen shows two.
THEOREM CounterShownOnce == MobileSpec => []OneMessagePerCounter
<1>1. MobileInv => OneMessagePerCounter
  BY DEF MobileInv, ShownPassed, Apart, OneMessagePerCounter
<1>2. QED  BY <1>1, MobileInvariant, PTL

\* ackMailbox deletes by id, and never a message that arrived during its poll, was
\* beyond the page the poll read, or did not decrypt: a message that has not expired
\* and that no poll has opened or passed over is in its mailbox, whatever fails.
THEOREM AckTakesTheJudged == MobileSpec => []AckedWasJudged
<1>1. MobileInv => AckedWasJudged  BY DEF MobileInv
<1>2. QED  BY <1>1, MobileInvariant, PTL
=============================================================================
