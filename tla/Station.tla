------------------------------ MODULE Station ------------------------------
(***************************************************************************)
(* The web station (apps/web): a server on the operator's machine that     *)
(* runs the CLI as children and keeps a report of the profile and of the   *)
(* relay, and the page it serves.  The server refreshes its report at      *)
(* start, on a timer, for every status request and after an import; the    *)
(* page receives it in answers and in server-sent events.  A contact is    *)
(* added in two requests: one validates a card and lets the page preview   *)
(* it, one imports the previewed card.  Requests overlap: of several       *)
(* refreshes, validations, history loads or exports only the one started   *)
(* last may have an effect, which the code decides with generation         *)
(* numbers and the model with a flag that a newer request takes away.      *)
(***************************************************************************)
EXTENDS Naturals, Sequences, FiniteSets

CONSTANTS
    Slot,       \* status requests that may overlap
    Card,       \* contact cards; each names one contact
    Trusted,    \* the cards the store trusts when the server starts
    Blank,      \* a text that is no contact card
    None,
    Bare,       \* a profile said to be verified, with nothing a doctor read
    MaxRounds,  \* bound: rounds of the timer and of the poll loop
    MaxGestures,\* bound: what the operator does with the page
    MaxQueue,   \* bound: server-sent events on their way
    MaxPending  \* bound: requests of the page in flight

ASSUME StationAssumption ==
    /\ MaxRounds \in Nat /\ MaxGestures \in Nat
    /\ MaxQueue \in Nat \ {0} /\ MaxPending \in Nat
    /\ Slot \cap Card = {} /\ \A t \in Slot \cup Card : t \notin {"boot", "tick"}
    /\ Trusted \subseteq Card
    /\ Blank \notin Card /\ None \notin Card /\ Blank # None /\ Bare # None

VARIABLES
    book,        \* the contacts the profile store trusts
    refreshes,   \* refreshes of the report in flight
    report,      \* what the server reports of the profile and of the relay: a reading, None or Bare
    floor,       \* all that was true when some refresh that was stored had been asked for
    polling,     \* a poll child is out
    rounds,      \* rounds of the timer and of the poll loop so far
    sse,         \* server-sent events on their way to the page; None without a page
    status,      \* status requests: "idle", "asked", "answered" with a payload
    page,        \* the state of the page
    pending,     \* the other requests of the page
    gestures     \* what the operator did so far

counts == <<rounds, gestures>>
server == <<book, refreshes, report, floor, polling>>
vars == <<server, sse, status, page, pending, counts>>

Kind == {"profile", "relay"}

\* What a refresh is for; that of an import goes by the card.
Task == Slot \cup Card \cup {"boot", "tick"}

\* What a refresh would find now: the trusted contacts only grow.  Of the relay's
\* health only that it was asked is kept.
Truth(k) == IF k = "profile" THEN book ELSE {}

Reading(k) == IF k = "profile" THEN SUBSET Card ELSE {{}}
Refresh == [kind: Kind, task: Task, newest: BOOLEAN, since: SUBSET Card]
SSE == [event: {"status", "contact_added", "new_message", "outbound_sent"}, payload: SUBSET Card]
Status == [state: {"idle", "asked", "answered", "orphan"}, payload: SUBSET Card, imported: BOOLEAN]
Page == [text: Card \cup {Blank}, preview: Card \cup {None}, validated: Card \cup {None},
         validating: BOOLEAN, importing: BOOLEAN, sending: BOOLEAN,
         exporting: BOOLEAN, loading: BOOLEAN,
         contacts: SUBSET Card, selected: Card \cup {None}, history: Card \cup {None}]
Pending == [kind: {"file", "validate", "import", "send", "history", "export"},
            card: Card \cup {Blank, None}, current: BOOLEAN,
            stage: {"asked", "done", "failed", "sent"}]

\* What the CLI bridge makes of a child: success, if the child said so, or if a
\* signal that is not the bridge's own ended it before its answer was complete, an
\* exit code of null counting as 0; failure, if it said so, could not be started,
\* or was killed when its time was over.
Outcome == {"done", "failed"}

TypeOK ==
    /\ book \subseteq Card
    /\ refreshes \subseteq Refresh
    /\ report \in [Kind -> (SUBSET Card) \cup {None, Bare}]
    /\ floor \in [Kind -> SUBSET Card]
    /\ polling \in BOOLEAN
    /\ sse = None \/ (sse \in Seq(SSE) /\ Len(sse) <= MaxQueue)
    /\ status \in [Slot -> Status]
    /\ page \in Page
    /\ pending \subseteq Pending
    /\ rounds \in 0 .. MaxRounds /\ gestures \in 0 .. MaxGestures

\* `imported': the end of an import waits for this answer.
IdleStatus == [state |-> "idle", payload |-> {}, imported |-> FALSE]

FreshPage ==
    [text |-> Blank, preview |-> None, validated |-> None, validating |-> FALSE,
     importing |-> FALSE, sending |-> FALSE, exporting |-> FALSE, loading |-> FALSE,
     contacts |-> {}, selected |-> None, history |-> None]

-----------------------------------------------------------------------------
(* The server's report *)

\* A refresh takes the generation from the one before it.
Begin(rs, k, task) ==
    {IF r.kind = k THEN [r EXCEPT !.newest = FALSE] ELSE r : r \in rs}
    \cup {[kind |-> k, task |-> task, newest |-> TRUE, since |-> Truth(k)]}

Init ==
    /\ book = Trusted
    /\ report = [k \in Kind |-> None] /\ floor = [k \in Kind |-> {}]
    /\ refreshes = {[kind |-> "relay", task |-> "boot", newest |-> TRUE, since |-> {}]}
    /\ polling = FALSE
    /\ sse = None
    /\ status = [s \in Slot |-> IdleStatus]
    /\ page = FreshPage
    /\ pending = {}
    /\ rounds = 0 /\ gestures = 0

\* The doctor reads the store, or the relay's health endpoint answers, at some
\* moment after it was asked.
Found(r) == {x \in Reading(r.kind) : r.since \subseteq x /\ x \subseteq Truth(r.kind)}

\* What a refresh may store: what it found; nothing, after a failure; or, of a
\* doctor that a signal ended, the output that is no answer, taken for a profile.
Ended(r) == Found(r) \cup {None} \cup (IF r.kind = "profile" THEN {Bare} ELSE {})

\* The contacts a status payload carries.
ContactsIn(profile) == IF profile \in {None, Bare} THEN {} ELSE profile
Payload == ContactsIn(report["profile"])

\* An event reaches the page only while its stream is open.
Broadcast(events) ==
    IF sse = None THEN sse' = None
    ELSE Len(sse) + Len(events) <= MaxQueue /\ sse' = sse \o events

StatusEvent(contacts) == [event |-> "status", payload |-> contacts]
Event(e) == [event |-> e, payload |-> {}]

\* Mutant: every refresh is stored, in the order they end.
StoreAnyRefresh(r, reading) ==
    /\ report' = [report EXCEPT ![r.kind] = reading]
    /\ floor' = [floor EXCEPT ![r.kind] = @ \cup r.since]

\* refreshProfile and refreshRelayReachability after their await: only the
\* newest refresh is stored, and one that failed clears what was known.
StoreRefresh(r, reading) ==
    IF r.newest
    THEN /\ report' = [report EXCEPT ![r.kind] = reading]
         /\ floor' = [floor EXCEPT ![r.kind] = @ \cup r.since]
    ELSE UNCHANGED <<report, floor>>

\* What the caller of the refresh does next.
Continue(r) ==
    LET rest == refreshes \ {r}
        contacts == ContactsIn(report'["profile"])
    IN  CASE r.task = "boot" /\ r.kind = "relay" ->
                refreshes' = Begin(rest, "profile", "boot") /\ UNCHANGED <<sse, status, pending>>
          [] r.task = "boot" /\ r.kind = "profile" ->
                refreshes' = rest /\ UNCHANGED <<sse, status, pending>>
          [] r.task = "tick" ->
                refreshes' = rest /\ Broadcast(<<StatusEvent(contacts)>>) /\ UNCHANGED <<status, pending>>
          [] r.task \in Card ->
                /\ refreshes' = rest
                /\ Broadcast(<<Event("contact_added"), StatusEvent(contacts)>>)
                /\ pending' = {IF q.kind = "import" /\ q.stage = "sent" /\ q.card = r.task
                               THEN [q EXCEPT !.stage = "done"] ELSE q : q \in pending}
                /\ UNCHANGED status
          [] r.task \in Slot ->
                /\ refreshes' = rest
                /\ status' = IF \E o \in rest : o.task = r.task THEN status
                             ELSE [status EXCEPT ![r.task] =
                                     IF @.state = "orphan" THEN IdleStatus
                                     ELSE [@ EXCEPT !.state = "answered", !.payload = contacts]]
                /\ UNCHANGED <<sse, pending>>

RefreshEnds(r) ==
    /\ r \in refreshes
    /\ \E reading \in Ended(r) : StoreRefresh(r, reading)
    /\ Continue(r)
    /\ UNCHANGED <<book, polling, page>>

Tick ==
    /\ \A r \in refreshes : r.task # "tick"
    /\ refreshes' = Begin(refreshes, "relay", "tick")
    /\ rounds < MaxRounds /\ rounds' = rounds + 1
    /\ UNCHANGED <<book, report, floor, polling, sse, status, page, pending>>

PollLoop ==
    /\ ~polling
    /\ polling' = TRUE
    /\ rounds < MaxRounds /\ rounds' = rounds + 1
    /\ UNCHANGED <<book, refreshes, report, floor, sse, status, page, pending>>

\* Every outcome is broadcast as a status, and received messages as such.
PollEnds ==
    /\ polling
    /\ polling' = FALSE
    /\ \E received \in BOOLEAN :
          Broadcast(<<StatusEvent(Payload)>> \o IF received THEN <<Event("new_message")>> ELSE <<>>)
    /\ UNCHANGED <<book, refreshes, report, floor, status, page, pending>>

-----------------------------------------------------------------------------
(* The page: its requests *)

Ask(ps, kind, card) == ps \cup {[kind |-> kind, card |-> card, current |-> TRUE, stage |-> "asked"]}

\* A newer request of the same kind, or a reset of the dialog, makes these stale.
Outdate(ps, kinds) == {IF q.kind \in kinds THEN [q EXCEPT !.current = FALSE] ELSE q : q \in ps}

Room == Cardinality(pending) < MaxPending

\* /api/status: two refreshes, and an answer once both are done.
LoadStatus(s, imported) ==
    /\ status[s].state = "idle"
    /\ \A r \in refreshes : r.task # s
    /\ status' = [status EXCEPT ![s] = [state |-> "asked", payload |-> {}, imported |-> imported]]
    /\ refreshes' = Begin(Begin(refreshes, "profile", s), "relay", s)

\* The selection stays with its contact, or falls to some contact, or to none.
NextSelected(contacts, next) ==
    IF page.selected \in contacts THEN next = page.selected
    ELSE IF contacts = {} THEN next = None ELSE next \in contacts

\* loadHistory supersedes the load before it, whose answer no longer matters but
\* to a send that waits for it.
LoadHistory(ps, card) ==
    Ask(Outdate({q \in ps : q.kind = "history" => q.stage = "sent"}, {"history"}), "history", card)

\* applyStatus, and the effect on the selection that loads its history.
ApplyStatus(p, contacts) ==
    \E next \in Card \cup {None} :
        /\ NextSelected(contacts, next)
        /\ page' = [p EXCEPT !.contacts = contacts, !.selected = next,
                                !.history = IF next = None THEN None ELSE @]
        /\ pending' = IF next = None THEN pending ELSE LoadHistory(pending, next)

Untouched == UNCHANGED <<book, report, floor, polling>>

\* The browser loads the page, or loads it again: what the old page had asked
\* for runs on at the server, its answers go nowhere.
OpenPage ==
    \E s \in Slot :
        /\ page' = FreshPage
        /\ pending' = {[q EXCEPT !.current = FALSE] :
                          q \in {o \in pending : o.kind \in {"import", "send"} /\ o.stage = "asked"}}
        /\ sse' = <<StatusEvent(Payload)>>
        /\ status[s].state = "idle" /\ \A r \in refreshes : r.task # s
        /\ status' = [t \in Slot |->
                        IF t = s THEN [IdleStatus EXCEPT !.state = "asked"]
                        ELSE IF status[t].state \in {"asked", "orphan"}
                        THEN [IdleStatus EXCEPT !.state = "orphan"]
                        ELSE IdleStatus]
        /\ refreshes' = Begin(Begin(refreshes, "profile", s), "relay", s)
        /\ Untouched

\* An answer that cannot be read is logged and changes nothing but the spinner.
StatusAnswer(s) ==
    /\ status[s].state = "answered" /\ Room
    /\ status' = [status EXCEPT ![s] = IdleStatus]
    /\ LET loaded == [page EXCEPT !.importing = @ /\ ~status[s].imported]
       IN  \/ ApplyStatus(loaded, status[s].payload)
           \/ page' = loaded /\ UNCHANGED pending
    /\ UNCHANGED <<sse, refreshes>> /\ Untouched

ReceiveEvent ==
    /\ sse # None /\ sse # <<>> /\ Room
    /\ sse' = Tail(sse)
    /\ LET e == Head(sse)
       IN  CASE e.event = "status" -> ApplyStatus(page, e.payload) /\ UNCHANGED <<status, refreshes>>
             [] e.event = "contact_added" ->
                   (\E s \in Slot : LoadStatus(s, FALSE)) /\ UNCHANGED <<page, pending>>
             [] OTHER ->
                   /\ pending' = IF page.selected = None THEN pending
                                 ELSE LoadHistory(pending, page.selected)
                   /\ UNCHANGED <<page, status, refreshes>>
    /\ Untouched

\* The stream breaks; on its return the server sends the current status.
Reconnect ==
    /\ sse # None
    /\ sse' = <<StatusEvent(Payload)>>
    /\ UNCHANGED <<server, status, page, pending>>

SelectContact(c) ==
    /\ c \in page.contacts \ {page.selected} /\ Room
    /\ page' = [page EXCEPT !.selected = c]
    /\ pending' = LoadHistory(pending, c)
    /\ UNCHANGED <<server, sse, status>>

\* Shown only for the contact that is selected, and only by the newest load; the
\* load that follows a send ends the sending in any case.
HistoryAnswer(q) ==
    /\ q.kind = "history"
    /\ \E outcome \in Outcome :
          page' = [page EXCEPT !.history = IF outcome = "done" /\ q.current /\ page.selected = q.card
                                           THEN q.card ELSE @,
                               !.sending = @ /\ q.stage # "sent"]
    /\ pending' = pending \ {q}
    /\ UNCHANGED <<server, sse, status>>

-----------------------------------------------------------------------------
(* The page: sending and exporting *)

HandleSend ==
    /\ page.selected # None /\ ~page.sending /\ Room
    /\ page' = [page EXCEPT !.sending = TRUE]
    /\ pending' = Ask(pending, "send", page.selected)
    /\ UNCHANGED <<server, sse, status>>

\* The server announces what was sent; the page loads the history of the contact
\* it had sent to.
SendAnswer(q) ==
    /\ q.kind = "send"
    /\ \/ /\ Broadcast(<<Event("outbound_sent")>>)
          /\ pending' = IF q.current
                        THEN {o \in pending : o # q /\ o.kind # "history"}
                               \cup {[kind |-> "history", card |-> q.card, current |-> TRUE, stage |-> "sent"]}
                        ELSE pending \ {q}
          /\ UNCHANGED page
       \/ /\ page' = [page EXCEPT !.sending = @ /\ ~q.current]
          /\ pending' = pending \ {q}
          /\ UNCHANGED sse
    /\ UNCHANGED <<server, status>>

HandleExportCard ==
    /\ Room
    /\ page' = [page EXCEPT !.exporting = TRUE, !.loading = TRUE]
    /\ pending' = Ask(Outdate(pending, {"export"}), "export", None)
    /\ UNCHANGED <<server, sse, status>>

CloseExportModal ==
    /\ page.exporting
    /\ page' = [page EXCEPT !.exporting = FALSE]
    /\ pending' = Outdate(pending, {"export"})
    /\ UNCHANGED <<server, sse, status>>

ExportAnswer(q) ==
    /\ q.kind = "export"
    /\ page' = [page EXCEPT !.loading = @ /\ ~q.current]
    /\ pending' = pending \ {q}
    /\ UNCHANGED <<server, sse, status>>

-----------------------------------------------------------------------------
(* The page: importing a contact *)

Preparation == {"file", "validate"}

\* Mutant: the reset leaves the spinner of the validation it cancels.
ResetKeepsSpinner(p) == [p EXCEPT !.preview = None, !.validated = None]

\* resetImportPreparation, which also takes the generation from what is in flight.
ResetImportPreparation(p) ==
    [p EXCEPT !.preview = None, !.validated = None, !.validating = FALSE]

Editable == ~page.importing /\ ~page.validating

HandleImportTextChange(text) ==
    /\ Editable /\ text # page.text
    /\ page' = ResetImportPreparation([page EXCEPT !.text = text])
    /\ pending' = Outdate(pending, Preparation)
    /\ UNCHANGED <<server, sse, status>>

HandleImportFile(text) ==
    /\ Editable /\ Room
    /\ page' = ResetImportPreparation(page)
    /\ pending' = Ask(Outdate(pending, Preparation), "file", text)
    /\ UNCHANGED <<server, sse, status>>

\* Mutant: a file that was read late replaces the text.
FileReadOfAnyGeneration(q) ==
    /\ q.kind = "file"
    /\ page' = [page EXCEPT !.text = q.card]
    /\ pending' = pending \ {q}
    /\ UNCHANGED <<server, sse, status>>

FileRead(q) ==
    /\ q.kind = "file"
    /\ \E ok \in BOOLEAN : page' = IF ok /\ q.current THEN [page EXCEPT !.text = q.card] ELSE page
    /\ pending' = pending \ {q}
    /\ UNCHANGED <<server, sse, status>>

ParseContactCard(text) == text \in Card
IsDuplicateContact(card) == card \in page.contacts

\* A text that is no card, or the card of a listed contact, is not asked about.
HandleValidateImport ==
    LET asks == ParseContactCard(page.text) /\ ~IsDuplicateContact(page.text)
    IN  /\ Editable /\ Room
        /\ page' = [page EXCEPT !.preview = None, !.validated = None, !.validating = asks]
        /\ pending' = IF asks THEN Ask(Outdate(pending, Preparation), "validate", page.text)
                      ELSE Outdate(pending, Preparation)
        /\ UNCHANGED <<server, sse, status>>

\* The server's child verifies the card and is told no at its prompt: an answer
\* of CONTACT_NOT_CONFIRMED is a valid card, and the store stays as it was.
ValidateContact(q) ==
    /\ q.kind = "validate" /\ q.stage = "asked"
    /\ \E stage \in Outcome :
          pending' = (pending \ {q}) \cup {[q EXCEPT !.stage = stage]}
    /\ UNCHANGED <<server, sse, status, page>>

ValidateAnswer(q) ==
    /\ q.kind = "validate" /\ q.stage # "asked"
    /\ page' = IF ~q.current THEN page
               ELSE [page EXCEPT !.validating = FALSE,
                                 !.preview = IF q.stage = "done" THEN q.card ELSE @,
                                 !.validated = IF q.stage = "done" THEN q.card ELSE @]
    /\ pending' = pending \ {q}
    /\ UNCHANGED <<server, sse, status>>

HandleConfirmImport ==
    /\ page.validated # None /\ Editable /\ Room
    /\ ParseContactCard(page.text) /\ page.text = page.validated
    /\ page' = [page EXCEPT !.importing = TRUE]
    /\ pending' = Ask(pending, "import", page.validated)
    /\ UNCHANGED <<server, sse, status>>

\* Mutant: the validation child is told yes.
ValidateContactYes(q) ==
    /\ q.kind \in {"import", "validate"} /\ q.stage = "asked"
    /\ book' = book \cup {q.card}
    /\ UNCHANGED <<refreshes, report, floor, polling, sse, status, page, pending>>

\* The import child records the trust; it may die or be killed after that.
ImportContact(q) ==
    /\ q.kind = "import" /\ q.stage = "asked"
    /\ book' = book \cup {q.card}
    /\ UNCHANGED <<refreshes, report, floor, polling, sse, status, page, pending>>

\* The child ended.  What counts as success, which a child that a signal ended
\* before it recorded the trust does too, refreshes the profile before anything is
\* answered.
ImportReported(q) ==
    /\ q.kind = "import" /\ q.stage = "asked"
    /\ \A r \in refreshes : r.task # q.card
    /\ \/ /\ refreshes' = Begin(refreshes, "profile", q.card)
          /\ pending' = (pending \ {q}) \cup {[q EXCEPT !.stage = "sent"]}
       \/ /\ pending' = (pending \ {q}) \cup {[q EXCEPT !.stage = "failed"]}
          /\ UNCHANGED refreshes
    /\ UNCHANGED <<book, report, floor, polling, sse, status, page>>

\* On success the dialog is emptied and the status loaded before the spinner ends.
ImportAnswer(q) ==
    /\ q.kind = "import" /\ q.stage \in {"done", "failed"}
    /\ IF q.stage = "failed" \/ ~q.current
       THEN /\ page' = IF q.current THEN [page EXCEPT !.importing = FALSE] ELSE page
            /\ pending' = pending \ {q}
            /\ UNCHANGED <<status, refreshes>>
       ELSE /\ page' = [ResetImportPreparation(page) EXCEPT !.text = Blank]
            /\ pending' = Outdate(pending \ {q}, Preparation)
            /\ \E s \in Slot : LoadStatus(s, TRUE)
    /\ UNCHANGED <<book, report, floor, polling, sse>>

CloseImportModal ==
    /\ ~page.importing
    /\ page' = ResetImportPreparation(page)
    /\ pending' = Outdate(pending, Preparation)
    /\ UNCHANGED <<server, sse, status>>

Dialog ==
    \/ \E text \in Card \cup {Blank} : HandleImportTextChange(text) \/ HandleImportFile(text)
    \/ HandleValidateImport \/ HandleConfirmImport \/ CloseImportModal
    \/ HandleExportCard \/ CloseExportModal \/ HandleSend

Answers ==
    \E q \in pending :
        \/ HistoryAnswer(q) \/ SendAnswer(q) \/ ExportAnswer(q) \/ FileRead(q)
        \/ ValidateContact(q) \/ ValidateAnswer(q)
        \/ ImportContact(q) \/ ImportReported(q) \/ ImportAnswer(q)

Gesture == gestures < MaxGestures /\ gestures' = gestures + 1 /\ UNCHANGED rounds

Next ==
    \/ Gesture /\ OpenPage
    \/ Gesture /\ sse # None /\ Dialog
    \/ UNCHANGED counts /\ sse # None /\ (ReceiveEvent \/ Reconnect)
    \/ UNCHANGED counts /\ \E s \in Slot : StatusAnswer(s)
    \/ UNCHANGED counts /\ \E c \in Card : SelectContact(c)
    \/ UNCHANGED counts /\ (Answers \/ PollEnds)
    \/ UNCHANGED counts /\ \E r \in refreshes : RefreshEnds(r)
    \/ UNCHANGED gestures /\ (Tick \/ PollLoop)

Spec == Init /\ [][Next]_vars

-----------------------------------------------------------------------------
(* Properties *)

\* Once a refresh is stored, the server never again reports a reading older than
\* the moment that refresh was asked for, however the refreshes overlap.  Of a
\* doctor that a signal ended it reports no reading at all (Bare): that is a
\* profile without contacts, whatever was known before.
ReportNotOlder ==
    \A k \in Kind : report[k] \notin {None, Bare} => floor[k] \subseteq report[k]

\* What is reported as a verified profile was read by a doctor, and what was read
\* before is cleared when it can no longer be (stationStatus.test.ts:5).  It does
\* not hold, and no run lists it: see the README.
ProfileWasRead == report["profile"] # Bare

\* The preview, the card that a confirmation would import and the text in the
\* dialog are the same card, whatever files and answers arrive late.
PreviewIsCurrent ==
    page.preview # None => page.preview = page.text /\ page.validated = page.text

\* Whatever the page waits for is on its way: no dialog or button stays disabled
\* with no answer coming.
SpinnerHasRequest ==
    /\ page.validating => \E q \in pending : q.kind = "validate" /\ q.current
    /\ page.importing => \/ \E q \in pending : q.kind = "import" /\ q.current
                         \/ \E s \in Slot : status[s].imported
    /\ page.sending => \E q \in pending : (q.kind = "send" /\ q.current) \/ (q.kind = "history" /\ q.stage = "sent")
    /\ page.exporting /\ page.loading => \E q \in pending : q.kind = "export" /\ q.current

\* The card on the screen, and the cards whose import a child may still record.
Shown == IF page.preview = None THEN {} ELSE {page.preview}
Agreed == {q.card : q \in {o \in pending : o.kind = "import" /\ o.stage = "asked"}}

\* The station implements the trust gate: the store comes to trust a card only
\* through the import of a card confirmed while its preview was on the page.
Gate == INSTANCE TrustGate WITH
    Subject <- Card, shown <- Shown, agreed <- Agreed, trusted <- book

GateSpec == Gate!Spec

=============================================================================
