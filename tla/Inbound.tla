------------------------------ MODULE Inbound ------------------------------
(***************************************************************************)
(* How the command line client reads its mailbox: runtime/inbound.ts over  *)
(* the profile store of runtime/profile.ts, with the relay's mailbox seen  *)
(* through its routes.  A poll walks pages, judges every envelope in a     *)
(* transaction of its own, reports how far it judged with the next page's  *)
(* request, and acknowledges what it accepted.  `contact import` makes a   *)
(* sender trusted and asks for a re-walk, because the relay's read mark    *)
(* may be past envelopes refused before.                                   *)
(*                                                                         *)
(* A process is one run of a command; it may end at any point between two  *)
(* transactions or requests.  The relay's own steps are those of Mailbox,  *)
(* here one request is one step.                                           *)
(***************************************************************************)
EXTENDS Integers, FiniteSets

CONSTANTS
    Proc,         \* command processes on one profile at the same time
    Sender,
    Message,      \* message ids
    Body,         \* ciphertexts
    Envelope,     \* what senders send; an envelope stands for its id too
    PageLimit,    \* envelopes in a page
    MaxPages,     \* maxPollPagesPerPoll
    AckChunk,     \* ids in one ack request
    EndsIn,       \* the commands that may end early: "poll", "import"
    MaxPosition,  \* bound: positions the relay issues
    MaxImports,   \* bound: contact imports
    MaxFaults,    \* bound: processes that end early
    Absent

ASSUME InboundAssumption ==
    /\ Envelope \subseteq [sender: Sender, message: Message, body: Body, genuine: BOOLEAN]
    /\ PageLimit \in Nat \ {0} /\ MaxPages \in Nat \ {0} /\ AckChunk \in Nat \ {0}
    /\ MaxPosition \in Nat /\ MaxImports \in Nat /\ MaxFaults \in Nat
    /\ EndsIn \subseteq {"poll", "import"}
    /\ Absent \notin Nat
    /\ Absent \notin Body

VARIABLES
    \* the relay
    position,   \* where each stored envelope is; 0 when it is not stored
    next,       \* the next position
    mark,       \* this device's read mark
    expired,    \* the envelopes whose lifetime is over
    \* the profile store
    contacts,   \* the trusted senders
    rewalk,     \* the position a pending re-walk resumes after
    inbox,      \* the body received under each message id of a sender
    history,    \* how often each message is in the history
    pendingAck, \* accepted envelopes that are not acknowledged yet
    \* the processes
    proc,       \* what each process is doing
    imports, faults,
    \* what has happened
    judged,     \* the positions a walk has judged
    acked       \* the envelopes an ack has deleted

relay == <<position, next, mark, expired>>
store == <<contacts, rewalk, inbox, history, pendingAck>>
vars == <<position, next, mark, expired, contacts, rewalk, inbox, history, pendingAck,
          proc, imports, faults, judged, acked>>

Slot == Sender \X Message
SlotOf(e) == <<e.sender, e.message>>
Token == 0..(next - 1) \cup {Absent}

Idle == [pc |-> "idle"]
Importing == [pc |-> "request"]

\* A poll: the re-walk it peeked, the cursor and the read position of the next
\* request, pages walked, what they yielded, the rest of the page at hand and
\* the continuation it came with.
Poll == [pc: {"page", "judge"}, rewalk: Token, cursor: Token, readThrough: Token,
         pages: 0..(MaxPages - 1), received: BOOLEAN, rejected: BOOLEAN,
         batch: SUBSET ((1..(next - 1)) \X Envelope), next: Token]
Acking == [pc: {"ack", "settle"}, ids: SUBSET Envelope, sent: SUBSET Envelope]

TypeOK ==
    /\ position \in [Envelope -> 0..MaxPosition]
    /\ next \in 1..(MaxPosition + 1)
    /\ \A e \in Envelope : position[e] < next
    /\ mark \in 0..(next - 1)
    /\ expired \subseteq Envelope
    /\ contacts \subseteq Sender
    /\ rewalk \in Token
    /\ inbox \in [Slot -> Body \cup {Absent}]
    /\ history \in [Slot -> Nat]
    /\ pendingAck \subseteq Envelope
    /\ proc \in [Proc -> {Idle, Importing} \cup Poll \cup Acking]
    /\ imports \in 0..MaxImports
    /\ faults \in 0..MaxFaults
    /\ judged \subseteq 1..(next - 1)
    /\ acked \subseteq Envelope

Init ==
    /\ position = [e \in Envelope |-> 0]
    /\ next = 1
    /\ mark = 0
    /\ expired = {}
    /\ contacts = {}
    /\ rewalk = Absent
    /\ inbox = [x \in Slot |-> Absent]
    /\ history = [x \in Slot |-> 0]
    /\ pendingAck = {}
    /\ proc = [p \in Proc |-> Idle]
    /\ imports = 0
    /\ faults = 0
    /\ judged = {}
    /\ acked = {}

-----------------------------------------------------------------------------
(* The mailbox on the relay.                                               *)

\* A sender delivers an envelope, or delivers it again after it was acked.
Send(e) ==
    /\ position[e] = 0
    /\ e \notin expired
    /\ next <= MaxPosition
    /\ position' = [position EXCEPT ![e] = next]
    /\ next' = next + 1
    /\ UNCHANGED <<mark, expired, store, proc, imports, faults, judged, acked>>

Expire(e) ==
    /\ e \notin expired
    /\ expired' = expired \cup {e}
    /\ position' = [position EXCEPT ![e] = 0]
    /\ UNCHANGED <<next, mark, store, proc, imports, faults, judged, acked>>

\* The mark after a request that reports a read position.
Advanced(readThrough) ==
    IF readThrough # Absent /\ readThrough > mark THEN readThrough ELSE mark

\* The first n envelopes after a position, and the token to go on with.
After(from) == {e \in Envelope : position[e] > from}
FirstAfter(from, n) ==
    {e \in After(from) :
        Cardinality({f \in After(from) : position[f] <= position[e]}) <= n}

Continuation(from, n) ==
    IF FirstAfter(from, n) = After(from) THEN Absent
    ELSE CHOOSE k \in {position[e] : e \in FirstAfter(from, n)} :
            \A e \in FirstAfter(from, n) : position[e] <= k

-----------------------------------------------------------------------------
(* Polling.                                                                *)

Become(p, state) == proc' = [proc EXCEPT ![p] = state]

\* Mutant: the pending re-walk is taken from the store.
StartPollTakesRewalk(p) ==
    /\ proc[p] = Idle
    /\ Become(p, [pc |-> "page", rewalk |-> rewalk, cursor |-> rewalk,
                  readThrough |-> Absent, pages |-> 0, received |-> FALSE,
                  rejected |-> FALSE, batch |-> {}, next |-> Absent])
    /\ rewalk' = Absent
    /\ UNCHANGED <<relay, contacts, inbox, history, pendingAck, imports, faults, judged, acked>>

\* Mutant: the poll does not look for a pending re-walk.
StartPollAtMark(p) ==
    /\ proc[p] = Idle
    /\ Become(p, [pc |-> "page", rewalk |-> Absent, cursor |-> Absent,
                  readThrough |-> Absent, pages |-> 0, received |-> FALSE,
                  rejected |-> FALSE, batch |-> {}, next |-> Absent])
    /\ UNCHANGED <<relay, store, imports, faults, judged, acked>>

\* The pending re-walk is read, not taken.
StartPoll(p) ==
    /\ proc[p] = Idle
    /\ Become(p, [pc |-> "page", rewalk |-> rewalk, cursor |-> rewalk,
                  readThrough |-> Absent, pages |-> 0, received |-> FALSE,
                  rejected |-> FALSE, batch |-> {}, next |-> Absent])
    /\ UNCHANGED <<relay, store, imports, faults, judged, acked>>

\* Mutant: the relay moves the mark over the page it serves.
PageMarksServed(p) ==
    /\ proc[p].pc = "page"
    /\ \E n \in 1..PageLimit :
          LET moved == Advanced(proc[p].readThrough)
              from == IF proc[p].cursor = Absent THEN moved ELSE proc[p].cursor
          IN  /\ mark' = IF Continuation(from, n) = Absent THEN moved
                         ELSE Advanced(Continuation(from, n))
              /\ Become(p, [proc[p] EXCEPT
                  !.pc = "judge",
                  !.batch = {<<position[e], e>> : e \in FirstAfter(from, n)},
                  !.next = Continuation(from, n)])
    /\ UNCHANGED <<position, next, expired, store, imports, faults, judged, acked>>

\* The read mark moves before the page is selected, and a request without a
\* cursor is served after the mark.  The relay's byte budget cuts a page anywhere.
Page(p) ==
    /\ proc[p].pc = "page"
    /\ mark' = Advanced(proc[p].readThrough)
    /\ \E n \in 1..PageLimit :
          LET from == IF proc[p].cursor = Absent THEN mark' ELSE proc[p].cursor
          IN  Become(p, [proc[p] EXCEPT
                  !.pc = "judge",
                  !.batch = {<<position[e], e>> : e \in FirstAfter(from, n)},
                  !.next = Continuation(from, n)])
    /\ UNCHANGED <<position, next, expired, store, imports, faults, judged, acked>>

Received(e) == inbox[SlotOf(e)] # Absent

\* What acceptOne makes of an envelope: known under its message id with the
\* same body, or new and decrypted.
Acceptable(e) ==
    /\ e \notin expired
    /\ e.sender \in contacts
    /\ IF Received(e) THEN inbox[SlotOf(e)] = e.body ELSE e.genuine

\* Mutant: the history is written whatever the inbox holds.
AcceptAppends(e) ==
    /\ inbox' = [inbox EXCEPT ![SlotOf(e)] = e.body]
    /\ history' = [history EXCEPT ![SlotOf(e)] = @ + 1]
    /\ pendingAck' = pendingAck \cup {e}

\* An accepted envelope goes to the inbox, the history and the pending acks, in
\* one transaction; a refused one leaves no trace.
AcceptOne(e) ==
    /\ inbox' = [inbox EXCEPT ![SlotOf(e)] = e.body]
    /\ history' = [history EXCEPT ![SlotOf(e)] = IF Received(e) THEN @ ELSE @ + 1]
    /\ pendingAck' = pendingAck \cup {e}

\* Mutant: a refused envelope is acknowledged too.
RejectAcks(e) == pendingAck' = pendingAck \cup {e} /\ UNCHANGED <<inbox, history>>

Reject(e) == UNCHANGED <<inbox, history, pendingAck>>

Judge(p) ==
    /\ proc[p].pc = "judge"
    /\ \E x \in proc[p].batch :
          /\ \A y \in proc[p].batch : x[1] <= y[1]
          /\ Become(p, [proc[p] EXCEPT !.batch = @ \ {x},
                                       !.received = @ \/ Acceptable(x[2]),
                                       !.rejected = @ \/ ~Acceptable(x[2])])
          /\ IF Acceptable(x[2]) THEN AcceptOne(x[2]) ELSE Reject(x[2])
          /\ judged' = judged \cup {x[1]}
    /\ UNCHANGED <<relay, contacts, rewalk, imports, faults, acked>>

\* Mutant: a re-walk is over once it has accepted something.
RewalkAfterReceiving(w) ==
    IF w.rewalk = Absent THEN rewalk
    ELSE IF w.received THEN Absent ELSE w.next

\* Mutant: an unfinished re-walk starts again at the head of the mailbox.
RewalkFromHead(w) ==
    IF w.rewalk = Absent THEN rewalk
    ELSE IF w.next = Absent THEN Absent ELSE 0

\* keepMailboxRewalk, or finishMailboxRewalk at the end of the mailbox.
RewalkAfter(w) == IF w.rewalk = Absent THEN rewalk ELSE w.next

\* The page is judged.  The walk goes on while nothing was accepted, the relay
\* has more and the valve is open.  A walk that only refused throws; any other
\* goes on to the acks.
EndPage(p) ==
    LET w == proc[p]
        stops == w.received \/ w.next = Absent \/ w.pages + 1 = MaxPages
    IN  /\ w.pc = "judge"
        /\ w.batch = {}
        /\ rewalk' = RewalkAfter(w)
        /\ Become(p, IF ~stops
                     THEN [w EXCEPT !.pc = "page", !.pages = @ + 1, !.cursor = w.next,
                                    !.readThrough = w.next,
                                    !.rewalk = IF @ = Absent THEN Absent ELSE w.next]
                     ELSE IF ~w.received /\ w.rejected
                     THEN Idle
                     ELSE [pc |-> "ack", ids |-> pendingAck, sent |-> {}])
        /\ UNCHANGED <<relay, contacts, inbox, history, pendingAck, imports, faults, judged, acked>>

\* One ack request; the relay deletes the ids one by one.
AckChunks(ids) ==
    {c \in SUBSET ids : Cardinality(c) = IF Cardinality(ids) < AckChunk
                                         THEN Cardinality(ids) ELSE AckChunk}

Deleted(ids) ==
    /\ position' = [e \in Envelope |-> IF e \in ids THEN 0 ELSE position[e]]
    /\ acked' = acked \cup {e \in ids : position[e] # 0}

AckRequest(p) ==
    /\ proc[p].pc = "ack"
    /\ proc[p].ids # {}
    /\ \E c \in AckChunks(proc[p].ids) :
          /\ Deleted(c)
          /\ Become(p, [proc[p] EXCEPT !.pc = "settle", !.ids = @ \ c, !.sent = c])
    /\ UNCHANGED <<next, mark, expired, store, imports, faults, judged>>

AckSettle(p) ==
    /\ proc[p].pc = "settle"
    /\ pendingAck' = pendingAck \ proc[p].sent
    /\ Become(p, [proc[p] EXCEPT !.pc = "ack", !.sent = {}])
    /\ UNCHANGED <<relay, contacts, rewalk, inbox, history, imports, faults, judged, acked>>

AckDone(p) ==
    /\ proc[p].pc = "ack"
    /\ proc[p].ids = {}
    /\ Become(p, Idle)
    /\ UNCHANGED <<relay, store, imports, faults, judged, acked>>

-----------------------------------------------------------------------------
(* Importing a contact, in two transactions.                               *)

ImportContact(p, s) ==
    /\ proc[p] = Idle
    /\ imports < MaxImports
    /\ imports' = imports + 1
    /\ contacts' = contacts \cup {s}
    /\ Become(p, Importing)
    /\ UNCHANGED <<relay, rewalk, inbox, history, pendingAck, faults, judged, acked>>

RequestMailboxRewalk(p) ==
    /\ proc[p] = Importing
    /\ rewalk' = 0
    /\ Become(p, Idle)
    /\ UNCHANGED <<relay, contacts, inbox, history, pendingAck, imports, faults, judged, acked>>

-----------------------------------------------------------------------------
(* A process that ends early: killed, refused by the store, or with a      *)
(* request that failed.                                                    *)

Ends(p, command) ==
    /\ command \in EndsIn
    /\ faults < MaxFaults
    /\ faults' = faults + 1
    /\ Become(p, Idle)
    /\ UNCHANGED <<next, expired, store, imports, judged>>

PollEnds(p) ==
    /\ proc[p] \notin {Idle, Importing}
    /\ Ends(p, "poll")
    /\ UNCHANGED <<position, mark, acked>>

\* The relay served a request whose answer did not arrive.
PageAnswerLost(p) ==
    /\ proc[p].pc = "page"
    /\ Ends(p, "poll")
    /\ mark' = Advanced(proc[p].readThrough)
    /\ UNCHANGED <<position, acked>>

AckAnswerLost(p) ==
    /\ proc[p].pc = "ack"
    /\ proc[p].ids # {}
    /\ Ends(p, "poll")
    /\ \E c \in AckChunks(proc[p].ids) : \E d \in SUBSET c : Deleted(d)
    /\ UNCHANGED mark

ImportEnds(p) ==
    /\ proc[p] = Importing
    /\ Ends(p, "import")
    /\ UNCHANGED <<position, mark, acked>>

PollStep(p) ==
    \/ StartPoll(p) \/ Page(p) \/ Judge(p) \/ EndPage(p)
    \/ AckRequest(p) \/ AckSettle(p) \/ AckDone(p)

Next ==
    \/ \E e \in Envelope : Send(e) \/ Expire(e)
    \/ \E p \in Proc : PollStep(p) \/ RequestMailboxRewalk(p)
    \/ \E p \in Proc, s \in Sender : ImportContact(p, s)
    \/ \E p \in Proc : PollEnds(p) \/ PageAnswerLost(p) \/ AckAnswerLost(p) \/ ImportEnds(p)

Spec == Init /\ [][Next]_vars

\* The operator polls again and again, and a command that runs makes progress.
FairSpec == Spec /\ \A p \in Proc : WF_vars(PollStep(p)) /\ WF_vars(RequestMailboxRewalk(p))

-----------------------------------------------------------------------------
(* Properties.                                                             *)

\* Waiting to be read: stored, trusted, decryptable and not received yet.
Waiting(e) ==
    /\ position[e] # 0
    /\ e.sender \in contacts
    /\ e.genuine
    /\ ~Received(e)

\* A trusted envelope is never left behind: it is after the read mark, or after
\* the position of a pending re-walk, or the import that trusted its sender is
\* about to ask for one (poll, keepMailboxRewalk and finishMailboxRewalk:
\* "An interruption therefore costs repeated work, never a lost message").
TrustedStaysAhead ==
    \A e \in Envelope : Waiting(e) =>
        \/ position[e] > mark
        \/ rewalk # Absent /\ rewalk < position[e]
        \/ \E p \in Proc : proc[p] = Importing

\* The read mark only ever passes envelopes a walk has judged, whatever requests
\* fail and whichever walks overlap (poll: "what keeps the mark from advancing
\* past an envelope the recipient never read").
MarkOnlyOverJudged ==
    \A e \in Envelope : position[e] \in 1..mark => position[e] \in judged

\* A message enters the history at most once, although its envelope may be
\* offered, accepted, acknowledged and sent again (acceptOne).
HistoryOnce == \A x \in Slot : history[x] <= 1

\* What an ack deletes from the relay is in the profile: the message was
\* received, with this body (acceptOne before ackPending).
AckedIsKept == \A e \in acked : inbox[SlotOf(e)] = e.body

\* A trusted envelope that stays in the mailbox is read in the end, whatever
\* refused envelopes surround it and however the page valve cuts the walks (poll).
TrustedDelivered == \A e \in Envelope : Waiting(e) ~> (Received(e) \/ position[e] = 0)

\* A re-walk reaches the end of the mailbox and is over
\* (finishMailboxRewalk; keepMailboxRewalk moves strictly forward).
RewalkEnds == rewalk # Absent ~> rewalk = Absent

\* An accepted envelope does not stay in the mailbox: its pending ack is sent in
\* the end (poll: "the accepted envelopes must be acknowledged promptly").
AcceptedLeavesMailbox ==
    \A e \in Envelope : e \in pendingAck ~> (e \notin pendingAck \/ position[e] = 0)
=============================================================================
