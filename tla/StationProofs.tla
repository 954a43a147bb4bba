--------------------------- MODULE StationProofs ---------------------------
(***************************************************************************)
(* What is proved of the web station for every set of cards and slots and  *)
(* every bound: its types; that the report never goes back; that the       *)
(* preview, the card to import and the text are one card; that the page    *)
(* never waits for an answer that is not coming; and that the station      *)
(* implements the trust gate.  The operations on the page's requests       *)
(* (Outdate, Ask, LoadHistory) are described once, by what they keep and   *)
(* what they may add, and each invariant has a frame lemma that says which *)
(* steps cannot disturb it.                                                *)
(***************************************************************************)
EXTENDS Station, TLAPS

-----------------------------------------------------------------------------
(* Types.                                                                  *)

\* A request of the page carries what its kind is about.
Request ==
    {q \in Pending :
        /\ q.kind \in {"validate", "import", "send", "history"} => q.card \in Card
        /\ q.kind = "file" => q.card \in Card \cup {Blank}}

ServerTyped ==
    /\ book \subseteq Card
    /\ refreshes \subseteq Refresh
    /\ report \in [Kind -> (SUBSET Card) \cup {None, Bare}]
    /\ floor \in [Kind -> SUBSET Card]
    /\ polling \in BOOLEAN

StreamTyped == sse = None \/ (sse \in Seq(SSE) /\ Len(sse) <= MaxQueue)

PageTyped == page \in Page /\ pending \subseteq Request

CoreTyped == ServerTyped /\ StreamTyped /\ status \in [Slot -> Status] /\ PageTyped

TypeInv == CoreTyped /\ rounds \in 0 .. MaxRounds /\ gestures \in 0 .. MaxGestures

\* What a status payload would carry after the step.
Reported == ContactsIn(report'["profile"])

\* The fields of a request of the page.
LEMMA RequestFields ==
  ASSUME NEW q \in Request
  PROVE  /\ q.kind \in {"file", "validate", "import", "send", "history", "export"}
         /\ q.card \in Card \cup {Blank, None} /\ q.current \in BOOLEAN
         /\ q.stage \in {"asked", "done", "failed", "sent"}
         /\ q.kind \in {"validate", "import", "send", "history"} => q.card \in Card
         /\ q.kind = "file" => q.card \in Card \cup {Blank}
BY DEF Request, Pending

\* A request that is outdated, or has got further, is the same in all else.
LEMMA OutdatedRequest ==
  ASSUME NEW q \in Request
  PROVE  LET o == [q EXCEPT !.current = FALSE] IN
         /\ o \in Request /\ o.kind = q.kind /\ o.card = q.card /\ o.stage = q.stage
         /\ o.current = FALSE
BY DEF Request, Pending

LEMMA StagedRequest ==
  ASSUME NEW q \in Request, NEW stage \in {"asked", "done", "failed", "sent"}
  PROVE  LET o == [q EXCEPT !.stage = stage] IN
         /\ o \in Request /\ o.kind = q.kind /\ o.card = q.card /\ o.stage = stage
         /\ o.current = q.current
BY DEF Request, Pending

LEMMA OutdateTyped ==
  ASSUME NEW ps, ps \subseteq Request, NEW kinds
  PROVE  Outdate(ps, kinds) \subseteq Request
BY OutdatedRequest DEF Outdate

LEMMA AskTyped ==
  ASSUME NEW ps, ps \subseteq Request,
         NEW kind \in {"file", "validate", "import", "send", "history", "export"},
         NEW card \in Card \cup {Blank, None},
         kind \in {"validate", "import", "send", "history"} => card \in Card,
         kind = "file" => card \in Card \cup {Blank}
  PROVE  Ask(ps, kind, card) \subseteq Request
<1>1. [kind |-> kind, card |-> card, current |-> TRUE, stage |-> "asked"] \in Request
  BY DEF Request, Pending
<1>2. QED  BY <1>1 DEF Ask

LEMMA LoadHistoryTyped ==
  ASSUME NEW ps, ps \subseteq Request, NEW card \in Card
  PROVE  LoadHistory(ps, card) \subseteq Request
<1> DEFINE kept == {q \in ps : q.kind = "history" => q.stage = "sent"}
<1>1. Outdate(kept, {"history"}) \subseteq Request  BY OutdateTyped
<1>2. QED  BY <1>1, AskTyped DEF LoadHistory

\* A refresh that is overtaken is the same in all else.
LEMMA OvertakenRefresh ==
  ASSUME NEW r \in Refresh
  PROVE  LET o == [r EXCEPT !.newest = FALSE] IN
         /\ o \in Refresh /\ o.kind = r.kind /\ o.task = r.task /\ o.since = r.since
         /\ o.newest = FALSE
BY DEF Refresh

LEMMA BeginTyped ==
  ASSUME book \subseteq Card, NEW rs, rs \subseteq Refresh, NEW k \in Kind, NEW task \in Task
  PROVE  Begin(rs, k, task) \subseteq Refresh
<1>1. [kind |-> k, task |-> task, newest |-> TRUE, since |-> Truth(k)] \in Refresh
  BY DEF Refresh, Truth
<1>2. QED  BY <1>1, OvertakenRefresh DEF Begin

\* A status request starts both refreshes.
LEMMA BeginBothTyped ==
  ASSUME ServerTyped, NEW s \in Slot
  PROVE  Begin(Begin(refreshes, "profile", s), "relay", s) \subseteq Refresh
<1>1. "profile" \in Kind /\ "relay" \in Kind /\ s \in Task  BY DEF Kind, Task
<1>2. Begin(refreshes, "profile", s) \subseteq Refresh  BY <1>1, BeginTyped DEF ServerTyped
<1>3. QED  BY <1>1, <1>2, BeginTyped DEF ServerTyped

LEMMA PageFields ==
  ASSUME page \in Page
  PROVE  /\ page.text \in Card \cup {Blank} /\ page.preview \in Card \cup {None}
         /\ page.validated \in Card \cup {None} /\ page.selected \in Card \cup {None}
         /\ page.history \in Card \cup {None} /\ page.contacts \subseteq Card
         /\ page.validating \in BOOLEAN /\ page.importing \in BOOLEAN /\ page.sending \in BOOLEAN
         /\ page.exporting \in BOOLEAN /\ page.loading \in BOOLEAN
BY DEF Page

LEMMA FreshPageTyped == FreshPage \in Page
BY DEF FreshPage, Page

\* What the dialog does.
LEMMA ResetTyped ==
  ASSUME NEW p \in Page
  PROVE  /\ ResetImportPreparation(p) \in Page
         /\ ResetImportPreparation(p).preview = None /\ ResetImportPreparation(p).validated = None
         /\ ResetImportPreparation(p).validating = FALSE
         /\ ResetImportPreparation(p).text = p.text
         /\ ResetImportPreparation(p).importing = p.importing
         /\ ResetImportPreparation(p).sending = p.sending
         /\ ResetImportPreparation(p).exporting = p.exporting
         /\ ResetImportPreparation(p).loading = p.loading
BY DEF ResetImportPreparation, Page

-----------------------------------------------------------------------------
(* The page's own steps: the server, the stream and the status stay.       *)

LEMMA PageStepTyped ==
  ASSUME CoreTyped, UNCHANGED <<server, sse, status>>, PageTyped'
  PROVE  CoreTyped'
BY DEF CoreTyped, ServerTyped, StreamTyped, server

LEMMA TextChangeTyped ==
  ASSUME CoreTyped, NEW text \in Card \cup {Blank}, HandleImportTextChange(text)
  PROVE  PageTyped'
<1>1. [page EXCEPT !.text = text] \in Page  BY DEF CoreTyped, PageTyped, Page
<1>2. page' \in Page  BY <1>1, ResetTyped DEF HandleImportTextChange
<1>3. pending' \subseteq Request  BY OutdateTyped DEF HandleImportTextChange, CoreTyped, PageTyped
<1>4. QED  BY <1>2, <1>3 DEF PageTyped

LEMMA ImportFileTyped ==
  ASSUME CoreTyped, NEW text \in Card \cup {Blank}, HandleImportFile(text)
  PROVE  PageTyped'
<1>1. page' \in Page  BY ResetTyped DEF HandleImportFile, CoreTyped, PageTyped
<1>2. Outdate(pending, Preparation) \subseteq Request  BY OutdateTyped DEF CoreTyped, PageTyped
<1>3. pending' \subseteq Request  BY <1>2, AskTyped DEF HandleImportFile
<1>4. QED  BY <1>1, <1>3 DEF PageTyped

LEMMA ValidateImportTyped ==
  ASSUME CoreTyped, HandleValidateImport
  PROVE  PageTyped'
<1> DEFINE asks == ParseContactCard(page.text) /\ ~IsDuplicateContact(page.text)
<1>1. asks \in BOOLEAN  BY DEF ParseContactCard, IsDuplicateContact
<1>2. page' = [page EXCEPT !.preview = None, !.validated = None, !.validating = asks]
  BY DEF HandleValidateImport
<1>3. page' \in Page  BY <1>1, <1>2 DEF CoreTyped, PageTyped, Page
<1>4. Outdate(pending, Preparation) \subseteq Request  BY OutdateTyped DEF CoreTyped, PageTyped
<1>5. asks => Ask(Outdate(pending, Preparation), "validate", page.text) \subseteq Request
  BY <1>4, AskTyped DEF ParseContactCard
<1>6. pending' \subseteq Request  BY <1>4, <1>5 DEF HandleValidateImport
<1>7. QED  BY <1>3, <1>6 DEF PageTyped

LEMMA ConfirmTyped ==
  ASSUME CoreTyped, HandleConfirmImport
  PROVE  PageTyped'
<1>1. page' \in Page  BY DEF HandleConfirmImport, CoreTyped, PageTyped, Page
<1>2. page.validated \in Card  BY PageFields DEF HandleConfirmImport, CoreTyped, PageTyped
<1>3. pending' \subseteq Request  BY <1>2, AskTyped DEF HandleConfirmImport, CoreTyped, PageTyped
<1>4. QED  BY <1>1, <1>3 DEF PageTyped

LEMMA ModalsTyped ==
  ASSUME CoreTyped, CloseImportModal \/ HandleExportCard \/ CloseExportModal
  PROVE  PageTyped'
<1>1. page \in Page /\ pending \subseteq Request  BY DEF CoreTyped, PageTyped
<1>2. CASE CloseImportModal  BY <1>1, <1>2, ResetTyped, OutdateTyped DEF CloseImportModal, PageTyped
<1>3. CASE HandleExportCard
  <2>1. page' \in Page  BY <1>1, <1>3 DEF HandleExportCard, Page
  <2>2. Outdate(pending, {"export"}) \subseteq Request  BY <1>1, OutdateTyped
  <2>3. QED  BY <1>3, <2>1, <2>2, AskTyped DEF HandleExportCard, PageTyped
<1>4. CASE CloseExportModal
  <2>1. page' \in Page  BY <1>1, <1>4 DEF CloseExportModal, Page
  <2>2. QED  BY <1>1, <1>4, <2>1, OutdateTyped DEF CloseExportModal, PageTyped
<1>5. QED  BY <1>2, <1>3, <1>4

LEMMA SendTyped ==
  ASSUME CoreTyped, HandleSend
  PROVE  PageTyped'
<1>1. page' \in Page  BY DEF HandleSend, CoreTyped, PageTyped, Page
<1>2. page.selected \in Card  BY PageFields DEF HandleSend, CoreTyped, PageTyped
<1>3. pending' \subseteq Request  BY <1>2, AskTyped DEF HandleSend, CoreTyped, PageTyped
<1>4. QED  BY <1>1, <1>3 DEF PageTyped

LEMMA SelectTyped ==
  ASSUME CoreTyped, NEW c \in Card, SelectContact(c)
  PROVE  PageTyped'
<1>1. page' \in Page  BY DEF SelectContact, CoreTyped, PageTyped, Page
<1>2. pending' \subseteq Request  BY LoadHistoryTyped DEF SelectContact, CoreTyped, PageTyped
<1>3. QED  BY <1>1, <1>2 DEF PageTyped

LEMMA AnswersTyped ==
  ASSUME CoreTyped, NEW q \in pending,
         HistoryAnswer(q) \/ ExportAnswer(q) \/ FileRead(q) \/ ValidateAnswer(q)
  PROVE  PageTyped'
<1>1. page \in Page /\ pending \subseteq Request /\ q \in Request  BY DEF CoreTyped, PageTyped
<1>2. pending' \subseteq Request
  BY <1>1 DEF HistoryAnswer, ExportAnswer, FileRead, ValidateAnswer
<1>3. CASE HistoryAnswer(q)
  <2>1. q.card \in Card  BY <1>1, <1>3, RequestFields DEF HistoryAnswer
  <2>2. PICK outcome \in Outcome :
           page' = [page EXCEPT !.history = IF outcome = "done" /\ q.current /\ page.selected = q.card
                                            THEN q.card ELSE page.history,
                                !.sending = page.sending /\ q.stage # "sent"]
    BY <1>3 DEF HistoryAnswer
  <2>3. (page.sending /\ q.stage # "sent") \in BOOLEAN  OBVIOUS
  <2>4. page' \in Page  BY <1>1, <2>1, <2>2, <2>3 DEF Page
  <2>5. QED  BY <1>2, <2>4 DEF PageTyped
<1>4. CASE ExportAnswer(q)
  <2>1. page' = [page EXCEPT !.loading = page.loading /\ ~q.current]  BY <1>4 DEF ExportAnswer
  <2>2. (page.loading /\ ~q.current) \in BOOLEAN  OBVIOUS
  <2>3. page' \in Page  BY <1>1, <2>1, <2>2 DEF Page
  <2>4. QED  BY <1>2, <2>3 DEF PageTyped
<1>5. CASE FileRead(q)
  <2>1. q.card \in Card \cup {Blank}  BY <1>1, <1>5, RequestFields DEF FileRead
  <2>2. [page EXCEPT !.text = q.card] \in Page  BY <1>1, <2>1 DEF Page
  <2>3. page' \in Page  BY <1>1, <1>5, <2>2 DEF FileRead
  <2>4. QED  BY <1>2, <2>3 DEF PageTyped
<1>6. CASE ValidateAnswer(q)
  <2>1. q.card \in Card  BY <1>1, <1>6, RequestFields DEF ValidateAnswer
  <2>2. page' \in Page  BY <1>1, <1>6, <2>1 DEF ValidateAnswer, Page
  <2>3. QED  BY <1>2, <2>2 DEF PageTyped
<1>7. QED  BY <1>3, <1>4, <1>5, <1>6

LEMMA ValidateContactTyped ==
  ASSUME CoreTyped, NEW q \in pending, ValidateContact(q)
  PROVE  PageTyped'
<1>1. page' \in Page /\ pending \subseteq Request  BY DEF CoreTyped, PageTyped, ValidateContact
<1>2. PICK stage \in Outcome : pending' = (pending \ {q}) \cup {[q EXCEPT !.stage = stage]}
  BY DEF ValidateContact
<1>3. [q EXCEPT !.stage = stage] \in Request  BY <1>1, StagedRequest DEF Outcome
<1>4. QED  BY <1>1, <1>2, <1>3 DEF PageTyped

-----------------------------------------------------------------------------
(* Steps that involve the server.                                          *)

LEMMA PayloadTyped == ASSUME ServerTyped PROVE Payload \in SUBSET Card
<1>1. report["profile"] \in (SUBSET Card) \cup {None, Bare}  BY DEF ServerTyped, Kind
<1>2. QED  BY <1>1 DEF Payload, ContactsIn

LEMMA StatusEventTyped == ASSUME NEW c \in SUBSET Card PROVE StatusEvent(c) \in SSE
BY DEF StatusEvent, SSE

LEMMA EventTyped ==
  ASSUME NEW e \in {"contact_added", "new_message", "outbound_sent"}
  PROVE  Event(e) \in SSE
BY DEF Event, SSE

LEMMA BroadcastTyped ==
  ASSUME StreamTyped, NEW events \in Seq(SSE), Broadcast(events)
  PROVE  StreamTyped'
<1>1. CASE sse = None  BY <1>1 DEF Broadcast, StreamTyped
<1>2. CASE sse # None
  <2>1. sse \in Seq(SSE) /\ sse' = sse \o events /\ Len(sse) + Len(events) <= MaxQueue
    BY <1>2 DEF Broadcast, StreamTyped
  <2>2. sse' \in Seq(SSE) /\ Len(sse') = Len(sse) + Len(events)  BY <2>1
  <2>3. QED  BY <2>1, <2>2 DEF StreamTyped
<1>3. QED  BY <1>1, <1>2

\* The stream starts, or starts again, with the current status.
LEMMA StreamOpens ==
  ASSUME ServerTyped, sse' = <<StatusEvent(Payload)>>
  PROVE  StreamTyped'
<1>1. sse' \in Seq(SSE) /\ Len(sse') = 1  BY PayloadTyped, StatusEventTyped
<1>2. QED  BY <1>1, StationAssumption DEF StreamTyped

LEMMA IdleStatusTyped == IdleStatus \in Status /\ IdleStatus.imported = FALSE
BY DEF IdleStatus, Status

LEMMA LoadStatusTyped ==
  ASSUME CoreTyped, NEW s \in Slot, NEW imported \in BOOLEAN, LoadStatus(s, imported)
  PROVE  refreshes' \subseteq Refresh /\ status' \in [Slot -> Status]
<1>1. [state |-> "asked", payload |-> {}, imported |-> imported] \in Status  BY DEF Status
<1>2. status' \in [Slot -> Status]  BY <1>1 DEF LoadStatus, CoreTyped
<1>3. refreshes' \subseteq Refresh  BY BeginBothTyped DEF LoadStatus, CoreTyped
<1>4. QED  BY <1>2, <1>3

LEMMA ApplyStatusTyped ==
  ASSUME PageTyped, NEW p \in Page, NEW contacts \in SUBSET Card, ApplyStatus(p, contacts)
  PROVE  PageTyped'
<1>1. PICK next \in Card \cup {None} :
         /\ page' = [p EXCEPT !.contacts = contacts, !.selected = next,
                              !.history = IF next = None THEN None ELSE p.history]
         /\ pending' = IF next = None THEN pending ELSE LoadHistory(pending, next)
  BY DEF ApplyStatus
<1>2. page' \in Page  BY <1>1 DEF Page
<1>3. pending' \subseteq Request  BY <1>1, LoadHistoryTyped DEF PageTyped
<1>4. QED  BY <1>2, <1>3 DEF PageTyped

LEMMA OpenPageTyped ==
  ASSUME CoreTyped, OpenPage
  PROVE  CoreTyped'
<1>1. PICK s \in Slot :
        /\ page' = FreshPage
        /\ pending' = {[q EXCEPT !.current = FALSE] :
                          q \in {o \in pending : o.kind \in {"import", "send"} /\ o.stage = "asked"}}
        /\ sse' = <<StatusEvent(Payload)>>
        /\ status' = [t \in Slot |->
                        IF t = s THEN [IdleStatus EXCEPT !.state = "asked"]
                        ELSE IF status[t].state \in {"asked", "orphan"}
                        THEN [IdleStatus EXCEPT !.state = "orphan"]
                        ELSE IdleStatus]
        /\ refreshes' = Begin(Begin(refreshes, "profile", s), "relay", s)
        /\ Untouched
  BY DEF OpenPage
<1>2. pending' \subseteq Request  BY <1>1, OutdatedRequest DEF CoreTyped, PageTyped
<1>3. PageTyped'  BY <1>1, <1>2, FreshPageTyped DEF PageTyped
<1>4. /\ [IdleStatus EXCEPT !.state = "asked"] \in Status
      /\ [IdleStatus EXCEPT !.state = "orphan"] \in Status
  BY DEF IdleStatus, Status
<1>5. status' \in [Slot -> Status]  BY <1>1, <1>4, IdleStatusTyped
<1>6. StreamTyped'  BY <1>1, StreamOpens DEF CoreTyped
<1>7. refreshes' \subseteq Refresh  BY <1>1, BeginBothTyped DEF CoreTyped
<1>8. ServerTyped'  BY <1>1, <1>7 DEF CoreTyped, ServerTyped, Untouched
<1>9. QED  BY <1>3, <1>5, <1>6, <1>8 DEF CoreTyped

LEMMA StatusAnswerTyped ==
  ASSUME CoreTyped, NEW s \in Slot, StatusAnswer(s)
  PROVE  CoreTyped'
<1>1. PICK loaded : loaded = [page EXCEPT !.importing = page.importing /\ ~status[s].imported]
  OBVIOUS
<1>2. /\ status' = [status EXCEPT ![s] = IdleStatus]
      /\ ApplyStatus(loaded, status[s].payload) \/ (page' = loaded /\ UNCHANGED pending)
      /\ UNCHANGED <<sse, refreshes>> /\ Untouched
  BY <1>1 DEF StatusAnswer
<1>3. (page.importing /\ ~status[s].imported) \in BOOLEAN  OBVIOUS
<1>4. loaded \in Page  BY <1>1, <1>3 DEF CoreTyped, PageTyped, Page
<1>5. status[s].payload \in SUBSET Card  BY DEF CoreTyped, Status
<1>6. PageTyped'
  <2>1. CASE ApplyStatus(loaded, status[s].payload)
    BY <1>4, <1>5, <2>1, ApplyStatusTyped DEF CoreTyped
  <2>2. CASE page' = loaded /\ UNCHANGED pending  BY <1>4, <2>2 DEF CoreTyped, PageTyped
  <2>3. QED  BY <1>2, <2>1, <2>2
<1>7. status' \in [Slot -> Status]  BY <1>2, IdleStatusTyped DEF CoreTyped
<1>8. ServerTyped' /\ StreamTyped'
  BY <1>2 DEF CoreTyped, ServerTyped, StreamTyped, Untouched
<1>9. QED  BY <1>6, <1>7, <1>8 DEF CoreTyped

LEMMA ReceiveEventTyped ==
  ASSUME CoreTyped, ReceiveEvent
  PROVE  CoreTyped'
<1>1. PICK e : e = Head(sse)  OBVIOUS
<1>2. sse \in Seq(SSE) /\ sse # <<>> /\ Len(sse) <= MaxQueue /\ sse' = Tail(sse)
  BY DEF ReceiveEvent, CoreTyped, StreamTyped
<1>3. e \in SSE  BY <1>1, <1>2
<1>4. sse' \in Seq(SSE) /\ Len(sse') = Len(sse) - 1  BY <1>2
<1>5. StreamTyped'  BY <1>2, <1>4, StationAssumption DEF StreamTyped
<1>6. Untouched  BY DEF ReceiveEvent
<1>7. e.event \in {"status", "contact_added", "new_message", "outbound_sent"} /\ e.payload \in SUBSET Card
  BY <1>3 DEF SSE
<1>8. refreshes' \subseteq Refresh /\ status' \in [Slot -> Status] /\ PageTyped'
  <2>1. CASE e.event = "status"
    <3>1. ApplyStatus(page, e.payload) /\ UNCHANGED <<status, refreshes>>
      BY <1>1, <2>1 DEF ReceiveEvent
    <3>2. PageTyped'  BY <1>7, <3>1, ApplyStatusTyped DEF CoreTyped, PageTyped
    <3>3. QED  BY <3>1, <3>2 DEF CoreTyped, ServerTyped
  <2>2. CASE e.event = "contact_added"
    <3>1. (\E s \in Slot : LoadStatus(s, FALSE)) /\ UNCHANGED <<page, pending>>
      BY <1>1, <2>2 DEF ReceiveEvent
    <3>2. QED  BY <3>1, LoadStatusTyped DEF CoreTyped, PageTyped
  <2>3. CASE e.event \notin {"status", "contact_added"}
    <3>1. /\ pending' = IF page.selected = None THEN pending ELSE LoadHistory(pending, page.selected)
          /\ UNCHANGED <<page, status, refreshes>>
      BY <1>1, <2>3 DEF ReceiveEvent
    <3>2. page.selected # None => page.selected \in Card  BY PageFields DEF CoreTyped, PageTyped
    <3>3. pending' \subseteq Request  BY <3>1, <3>2, LoadHistoryTyped DEF CoreTyped, PageTyped
    <3>4. QED  BY <3>1, <3>3 DEF CoreTyped, PageTyped, ServerTyped
  <2>4. QED  BY <2>1, <2>2, <2>3
<1>9. ServerTyped'  BY <1>6, <1>8 DEF CoreTyped, ServerTyped, Untouched
<1>10. QED  BY <1>5, <1>8, <1>9 DEF CoreTyped

LEMMA SendAnswerTyped ==
  ASSUME CoreTyped, NEW q \in pending, SendAnswer(q)
  PROVE  CoreTyped'
<1>1. q.kind = "send" /\ UNCHANGED <<server, status>>  BY DEF SendAnswer
<1>2. page \in Page /\ pending \subseteq Request /\ q \in Request  BY DEF CoreTyped, PageTyped
<1>3. q.card \in Card  BY <1>1, <1>2, RequestFields
<1>4. [kind |-> "history", card |-> q.card, current |-> TRUE, stage |-> "sent"] \in Request
  BY <1>3 DEF Request, Pending
<1>5. pending' \subseteq Request  BY <1>2, <1>4 DEF SendAnswer
<1>6. page' \in Page
  <2>1. (page.sending /\ ~q.current) \in BOOLEAN  OBVIOUS
  <2>2. [page EXCEPT !.sending = page.sending /\ ~q.current] \in Page  BY <1>2, <2>1 DEF Page
  <2>3. QED  BY <1>2, <2>2 DEF SendAnswer
<1>7. StreamTyped'
  <2>1. <<Event("outbound_sent")>> \in Seq(SSE)  BY EventTyped
  <2>2. QED  BY <2>1, BroadcastTyped DEF SendAnswer, CoreTyped, StreamTyped
<1>8. QED  BY <1>1, <1>5, <1>6, <1>7 DEF CoreTyped, ServerTyped, PageTyped, server

LEMMA ImportTyped ==
  ASSUME CoreTyped, NEW q \in pending, ImportContact(q) \/ ImportReported(q) \/ ImportAnswer(q)
  PROVE  CoreTyped'
<1>1. page \in Page /\ pending \subseteq Request /\ q \in Request  BY DEF CoreTyped, PageTyped
<1>2. q.card \in Card  BY <1>1, RequestFields DEF ImportContact, ImportReported, ImportAnswer
<1>3. CASE ImportContact(q)
  BY <1>2, <1>3 DEF ImportContact, CoreTyped, ServerTyped, StreamTyped, PageTyped
<1>4. CASE ImportReported(q)
  <2>1. [q EXCEPT !.stage = "sent"] \in Request /\ [q EXCEPT !.stage = "failed"] \in Request
    BY <1>1, StagedRequest
  <2>2. pending' \subseteq Request  BY <1>1, <1>4, <2>1 DEF ImportReported
  <2>3. Begin(refreshes, "profile", q.card) \subseteq Refresh
    BY <1>2, BeginTyped DEF CoreTyped, ServerTyped, Kind, Task
  <2>4. refreshes' \subseteq Refresh  BY <1>4, <2>3 DEF ImportReported, CoreTyped, ServerTyped
  <2>5. QED
    BY <1>4, <2>2, <2>4 DEF ImportReported, CoreTyped, ServerTyped, StreamTyped, PageTyped
<1>5. CASE ImportAnswer(q)
  <2>1. ServerTyped' /\ status' \in [Slot -> Status]
    <3>1. refreshes' \subseteq Refresh /\ status' \in [Slot -> Status]
      BY <1>5, LoadStatusTyped DEF ImportAnswer, CoreTyped, ServerTyped
    <3>2. QED  BY <1>5, <3>1 DEF ImportAnswer, CoreTyped, ServerTyped
  <2>2. PageTyped'
    <3>1. [page EXCEPT !.importing = FALSE] \in Page  BY <1>1 DEF Page
    <3>2. ResetImportPreparation(page) \in Page  BY <1>1, ResetTyped
    <3>3. [ResetImportPreparation(page) EXCEPT !.text = Blank] \in Page  BY <3>2 DEF Page
    <3>4. Outdate(pending \ {q}, Preparation) \subseteq Request  BY <1>1, OutdateTyped
    <3>5. QED  BY <1>1, <1>5, <3>1, <3>3, <3>4 DEF ImportAnswer, PageTyped
  <2>3. StreamTyped'  BY <1>5 DEF ImportAnswer, CoreTyped, StreamTyped
  <2>4. QED  BY <2>1, <2>2, <2>3 DEF CoreTyped
<1>6. QED  BY <1>3, <1>4, <1>5

LEMMA StoreTyped ==
  ASSUME CoreTyped, NEW r \in refreshes, NEW reading \in Ended(r), StoreRefresh(r, reading)
  PROVE  report' \in [Kind -> (SUBSET Card) \cup {None, Bare}] /\ floor' \in [Kind -> SUBSET Card]
<1>1. r \in Refresh  BY DEF CoreTyped, ServerTyped
<1>2. r.kind \in Kind /\ r.since \in SUBSET Card  BY <1>1 DEF Refresh
<1>3. reading \in (SUBSET Card) \cup {None, Bare}
  <2>1. Reading(r.kind) \subseteq SUBSET Card  BY DEF Reading
  <2>2. Found(r) \subseteq SUBSET Card  BY <2>1 DEF Found
  <2>3. QED  BY <2>2 DEF Ended
<1>4. CASE r.newest
  <2>1. /\ report' = [report EXCEPT ![r.kind] = reading]
        /\ floor' = [floor EXCEPT ![r.kind] = floor[r.kind] \cup r.since]
    BY <1>4 DEF StoreRefresh
  <2>2. floor[r.kind] \cup r.since \in SUBSET Card  BY <1>2 DEF CoreTyped, ServerTyped
  <2>3. QED  BY <1>2, <1>3, <2>1, <2>2 DEF CoreTyped, ServerTyped
<1>5. CASE ~r.newest  BY <1>5 DEF StoreRefresh, CoreTyped, ServerTyped
<1>6. QED  BY <1>4, <1>5

\* What the caller of a refresh does, by its task.
LEMMA ContinueCases ==
  ASSUME CoreTyped, NEW r \in refreshes, Continue(r)
  PROVE  \/ /\ r.task = "boot" /\ r.kind = "relay"
            /\ refreshes' = Begin(refreshes \ {r}, "profile", "boot") /\ UNCHANGED <<sse, status, pending>>
         \/ /\ r.task = "boot" /\ r.kind = "profile"
            /\ refreshes' = refreshes \ {r} /\ UNCHANGED <<sse, status, pending>>
         \/ /\ r.task = "tick" /\ refreshes' = refreshes \ {r}
            /\ Broadcast(<<StatusEvent(Reported)>>) /\ UNCHANGED <<status, pending>>
         \/ /\ r.task \in Card /\ refreshes' = refreshes \ {r}
            /\ Broadcast(<<Event("contact_added"), StatusEvent(Reported)>>)
            /\ pending' = {IF q.kind = "import" /\ q.stage = "sent" /\ q.card = r.task
                           THEN [q EXCEPT !.stage = "done"] ELSE q : q \in pending}
            /\ UNCHANGED status
         \/ /\ r.task \in Slot /\ refreshes' = refreshes \ {r}
            /\ status' = IF \E o \in refreshes \ {r} : o.task = r.task THEN status
                         ELSE [status EXCEPT ![r.task] =
                                 IF status[r.task].state = "orphan" THEN IdleStatus
                                 ELSE [status[r.task] EXCEPT !.state = "answered", !.payload = Reported]]
            /\ UNCHANGED <<sse, pending>>
<1>1. r \in Refresh  BY DEF CoreTyped, ServerTyped
<1>2. r.kind \in {"profile", "relay"} /\ r.task \in Slot \cup Card \cup {"boot", "tick"}
  BY <1>1 DEF Refresh, Kind, Task
<1>3. CASE r.task = "boot"  BY <1>2, <1>3, StationAssumption DEF Continue
<1>4. CASE r.task = "tick"  BY <1>2, <1>4, StationAssumption DEF Continue, Reported
<1>5. CASE r.task \in Card  BY <1>2, <1>5, StationAssumption DEF Continue, Reported
<1>6. CASE r.task \in Slot  BY <1>2, <1>6, StationAssumption DEF Continue, Reported
<1>7. QED  BY <1>2, <1>3, <1>4, <1>5, <1>6

LEMMA RefreshEndsTyped ==
  ASSUME CoreTyped, NEW r \in refreshes, RefreshEnds(r)
  PROVE  CoreTyped'
<1>1. /\ report' \in [Kind -> (SUBSET Card) \cup {None, Bare}] /\ floor' \in [Kind -> SUBSET Card]
      /\ Continue(r) /\ UNCHANGED <<book, polling, page>>
  BY StoreTyped DEF RefreshEnds
<1>2. Reported \in SUBSET Card
  <2>1. report'["profile"] \in (SUBSET Card) \cup {None, Bare}  BY <1>1 DEF Kind
  <2>2. QED  BY <2>1 DEF Reported, ContactsIn
<1>3. refreshes' \subseteq Refresh
  <2>1. refreshes \ {r} \subseteq Refresh /\ book \subseteq Card  BY DEF CoreTyped, ServerTyped
  <2>2. Begin(refreshes \ {r}, "profile", "boot") \subseteq Refresh
    BY <2>1, BeginTyped DEF Kind, Task
  <2>3. refreshes' \in {refreshes \ {r}, Begin(refreshes \ {r}, "profile", "boot")}
    BY <1>1, ContinueCases
  <2>4. QED  BY <2>1, <2>2, <2>3
<1>4. StreamTyped'
  <2>1. <<StatusEvent(Reported)>> \in Seq(SSE)  BY <1>2, StatusEventTyped
  <2>2. <<Event("contact_added"), StatusEvent(Reported)>> \in Seq(SSE)
    BY <1>2, StatusEventTyped, EventTyped
  <2>3. \/ sse' = sse
        \/ Broadcast(<<StatusEvent(Reported)>>)
        \/ Broadcast(<<Event("contact_added"), StatusEvent(Reported)>>)
    BY <1>1, ContinueCases
  <2>4. StreamTyped  BY DEF CoreTyped
  <2>5. QED  BY <2>1, <2>2, <2>3, <2>4, BroadcastTyped DEF StreamTyped
<1>5. pending' \subseteq Request
  <2>1. \A q \in pending : q \in Request /\ [q EXCEPT !.stage = "done"] \in Request
    BY StagedRequest DEF CoreTyped, PageTyped
  <2>2. {IF q.kind = "import" /\ q.stage = "sent" /\ q.card = r.task
         THEN [q EXCEPT !.stage = "done"] ELSE q : q \in pending} \subseteq Request
    BY <2>1
  <2>3. pending' \in {pending, {IF q.kind = "import" /\ q.stage = "sent" /\ q.card = r.task
                                THEN [q EXCEPT !.stage = "done"] ELSE q : q \in pending}}
    BY <1>1, ContinueCases
  <2>4. QED  BY <2>1, <2>2, <2>3
<1>6. status' \in [Slot -> Status]
  <2>1. CASE r.task \in Slot
    <3>1. status[r.task] \in Status  BY <2>1 DEF CoreTyped
    <3>2. [status[r.task] EXCEPT !.state = "answered", !.payload = Reported] \in Status
      BY <1>2, <3>1 DEF Status
    <3>3. \/ status' = status
          \/ status' = [status EXCEPT ![r.task] =
                          IF status[r.task].state = "orphan" THEN IdleStatus
                          ELSE [status[r.task] EXCEPT !.state = "answered", !.payload = Reported]]
      BY <1>1, ContinueCases
    <3>4. QED  BY <2>1, <3>2, <3>3, IdleStatusTyped DEF CoreTyped
  <2>2. CASE r.task \notin Slot  BY <1>1, <2>2, ContinueCases DEF CoreTyped
  <2>3. QED  BY <2>1, <2>2
<1>7. QED  BY <1>1, <1>3, <1>4, <1>5, <1>6 DEF CoreTyped, ServerTyped, PageTyped

LEMMA LoopsTyped ==
  ASSUME CoreTyped, Tick \/ PollLoop \/ PollEnds \/ (sse # None /\ Reconnect)
  PROVE  CoreTyped'
<1>1. CASE Tick
  <2>1. Begin(refreshes, "relay", "tick") \subseteq Refresh
    BY BeginTyped DEF CoreTyped, ServerTyped, Kind, Task
  <2>2. QED  BY <1>1, <2>1 DEF Tick, CoreTyped, ServerTyped, StreamTyped, PageTyped
<1>2. CASE PollLoop
  BY <1>2 DEF PollLoop, CoreTyped, ServerTyped, StreamTyped, PageTyped
<1>3. CASE PollEnds
  <2>1. PICK received \in BOOLEAN :
          Broadcast(<<StatusEvent(Payload)>> \o IF received THEN <<Event("new_message")>> ELSE <<>>)
    BY <1>3 DEF PollEnds
  <2>2. StatusEvent(Payload) \in SSE /\ Event("new_message") \in SSE
    BY PayloadTyped, StatusEventTyped, EventTyped DEF CoreTyped
  <2>3. <<StatusEvent(Payload)>> \in Seq(SSE)  BY <2>2
  <2>4. (IF received THEN <<Event("new_message")>> ELSE <<>>) \in Seq(SSE)  BY <2>2
  <2>5. <<StatusEvent(Payload)>> \o (IF received THEN <<Event("new_message")>> ELSE <<>>) \in Seq(SSE)
    BY <2>3, <2>4
  <2>6. StreamTyped'  BY <2>1, <2>5, BroadcastTyped DEF CoreTyped
  <2>7. QED  BY <1>3, <2>6 DEF PollEnds, CoreTyped, ServerTyped, PageTyped
<1>4. CASE sse # None /\ Reconnect
  <2>1. StreamTyped'  BY <1>4, StreamOpens DEF Reconnect, CoreTyped
  <2>2. QED  BY <1>4, <2>1 DEF Reconnect, CoreTyped, ServerTyped, PageTyped, server
<1>5. QED  BY <1>1, <1>2, <1>3, <1>4

LEMMA DialogTyped == ASSUME CoreTyped, Dialog PROVE CoreTyped'
<1>1. UNCHANGED <<server, sse, status>>
  BY DEF Dialog, HandleImportTextChange, HandleImportFile, HandleValidateImport,
     HandleConfirmImport, CloseImportModal, HandleExportCard, CloseExportModal, HandleSend
<1>2. PageTyped'
  BY TextChangeTyped, ImportFileTyped, ValidateImportTyped, ConfirmTyped, ModalsTyped, SendTyped
     DEF Dialog
<1>3. QED  BY <1>1, <1>2, PageStepTyped

LEMMA AllAnswersTyped == ASSUME CoreTyped, Answers PROVE CoreTyped'
<1>1. PICK q \in pending :
        \/ HistoryAnswer(q) \/ SendAnswer(q) \/ ExportAnswer(q) \/ FileRead(q)
        \/ ValidateContact(q) \/ ValidateAnswer(q)
        \/ ImportContact(q) \/ ImportReported(q) \/ ImportAnswer(q)
  BY DEF Answers
<1>2. CASE HistoryAnswer(q) \/ ExportAnswer(q) \/ FileRead(q) \/ ValidateAnswer(q)
  <2>1. UNCHANGED <<server, sse, status>>
    BY <1>2 DEF HistoryAnswer, ExportAnswer, FileRead, ValidateAnswer
  <2>2. QED  BY <1>2, <2>1, AnswersTyped, PageStepTyped
<1>3. CASE ValidateContact(q)
  <2>1. UNCHANGED <<server, sse, status>>  BY <1>3 DEF ValidateContact
  <2>2. QED  BY <1>3, <2>1, ValidateContactTyped, PageStepTyped
<1>4. QED  BY <1>1, <1>2, <1>3, SendAnswerTyped, ImportTyped

LEMMA CoreStep == ASSUME CoreTyped, [Next]_vars PROVE CoreTyped'
<1>1. CASE UNCHANGED vars
  BY <1>1 DEF vars, server, CoreTyped, ServerTyped, StreamTyped, PageTyped
<1>2. ASSUME NEW c \in Card, SelectContact(c) PROVE CoreTyped'
  <2>1. UNCHANGED <<server, sse, status>>  BY <1>2 DEF SelectContact
  <2>2. QED  BY <1>2, <2>1, SelectTyped, PageStepTyped
<1>3. QED
  BY <1>1, <1>2, OpenPageTyped, DialogTyped, ReceiveEventTyped, StatusAnswerTyped,
     AllAnswersTyped, RefreshEndsTyped, LoopsTyped DEF Next

LEMMA InitTyped == Init => TypeInv
<1> SUFFICES ASSUME Init PROVE TypeInv  OBVIOUS
<1>1. [kind |-> "relay", task |-> "boot", newest |-> TRUE, since |-> {}] \in Refresh
  BY DEF Refresh, Kind, Task
<1>2. ServerTyped  BY <1>1, StationAssumption DEF Init, ServerTyped
<1>3. CoreTyped
  BY <1>2, IdleStatusTyped, FreshPageTyped DEF Init, CoreTyped, StreamTyped, PageTyped
<1>4. QED  BY <1>3, StationAssumption DEF Init, TypeInv

LEMMA TypeStep == ASSUME TypeInv, [Next]_vars PROVE TypeInv'
<1>1. CoreTyped'  BY CoreStep DEF TypeInv
<1>2. rounds' \in 0 .. MaxRounds /\ gestures' \in 0 .. MaxGestures
  <2>1. CASE UNCHANGED vars  BY <2>1 DEF vars, counts, TypeInv
  <2>2. CASE Gesture  BY <2>2, StationAssumption DEF Gesture, TypeInv
  <2>3. CASE UNCHANGED counts  BY <2>3 DEF counts, TypeInv
  <2>4. CASE UNCHANGED gestures /\ (Tick \/ PollLoop)
    BY <2>4, StationAssumption DEF Tick, PollLoop, TypeInv
  <2>5. QED  BY <2>1, <2>2, <2>3, <2>4 DEF Next
<1>3. QED  BY <1>1, <1>2 DEF TypeInv

\* Every state of the station has its type.
THEOREM StationTyped == Spec => []TypeInv
BY InitTyped, TypeStep, PTL DEF Spec

-----------------------------------------------------------------------------
(* The report never goes back.                                             *)

\* A refresh in flight began with what was true then.  The newest of a kind began
\* after whatever is stored had been asked for, and is the only one.
InFlight(rs, fl) ==
    /\ \A r \in rs : r.since \subseteq Truth(r.kind)
    /\ \A r \in rs : r.newest => fl[r.kind] \subseteq r.since
    /\ \A r, o \in rs : r.newest /\ o.newest /\ r.kind = o.kind => r = o

Floored(fl) == \A k \in Kind : fl[k] \subseteq Truth(k)

ReportInv == InFlight(refreshes, floor) /\ Floored(floor) /\ ReportNotOlder

LEMMA BeginInFlight ==
  ASSUME NEW rs, rs \subseteq Refresh, NEW fl, Floored(fl), InFlight(rs, fl),
         NEW k \in Kind, NEW task
  PROVE  InFlight(Begin(rs, k, task), fl)
<1> DEFINE new == [kind |-> k, task |-> task, newest |-> TRUE, since |-> Truth(k)]
<1>1. ASSUME NEW r \in Begin(rs, k, task)
      PROVE  \/ r = new
             \/ r \in rs /\ r.kind # k
             \/ ~r.newest /\ r.since \subseteq Truth(r.kind)
  <2>1. CASE r = new  BY <2>1
  <2>2. CASE r # new
    <3>1. PICK o \in rs : r = IF o.kind = k THEN [o EXCEPT !.newest = FALSE] ELSE o
      BY <2>2 DEF Begin
    <3>2. CASE o.kind = k
      <4>1. r.kind = o.kind /\ r.since = o.since /\ r.newest = FALSE
        BY <3>1, <3>2, OvertakenRefresh
      <4>2. QED  BY <4>1 DEF InFlight
    <3>3. CASE o.kind # k  BY <3>1, <3>3
    <3>4. QED  BY <3>2, <3>3
  <2>3. QED  BY <2>1, <2>2
<1>2. new.kind = k /\ new.newest = TRUE /\ new.since = Truth(k)  OBVIOUS
<1> HIDE DEF new
<1>3. \A r \in Begin(rs, k, task) : r.since \subseteq Truth(r.kind)  BY <1>1, <1>2 DEF InFlight
<1>4. \A r \in Begin(rs, k, task) : r.newest => fl[r.kind] \subseteq r.since
  BY <1>1, <1>2 DEF InFlight, Floored
<1>5. \A r, o \in Begin(rs, k, task) : r.newest /\ o.newest /\ r.kind = o.kind => r = o
  BY <1>1, <1>2 DEF InFlight
<1>6. QED  BY <1>3, <1>4, <1>5 DEF InFlight

\* Nothing is stored.
LEMMA ReportFrame ==
  ASSUME ReportInv, UNCHANGED <<book, report, floor>>, InFlight(refreshes', floor)
  PROVE  ReportInv'
BY DEF ReportInv, InFlight, Floored, ReportNotOlder, Truth

LEMMA BeginBothInFlight ==
  ASSUME CoreTyped, ReportInv, NEW s \in Slot
  PROVE  InFlight(Begin(Begin(refreshes, "profile", s), "relay", s), floor)
<1>1. "profile" \in Kind /\ "relay" \in Kind /\ s \in Task  BY DEF Kind, Task
<1>2. refreshes \subseteq Refresh /\ book \subseteq Card  BY DEF CoreTyped, ServerTyped
<1>3. InFlight(Begin(refreshes, "profile", s), floor)
  BY <1>1, <1>2, BeginInFlight DEF ReportInv
<1>4. Begin(refreshes, "profile", s) \subseteq Refresh  BY <1>1, <1>2, BeginTyped
<1>5. QED  BY <1>1, <1>3, <1>4, BeginInFlight DEF ReportInv

LEMMA RefreshEndsReport ==
  ASSUME CoreTyped, ReportInv, NEW r \in refreshes, RefreshEnds(r)
  PROVE  ReportInv'
<1>1. PICK reading \in Ended(r) : StoreRefresh(r, reading)  BY DEF RefreshEnds
<1>2. Continue(r) /\ book' = book  BY DEF RefreshEnds
<1>3. r \in Refresh /\ r.kind \in Kind  BY DEF CoreTyped, ServerTyped, Refresh
<1>4. report \in [Kind -> (SUBSET Card) \cup {None, Bare}] /\ floor \in [Kind -> SUBSET Card]
  BY DEF CoreTyped, ServerTyped
<1>5. reading \notin {None, Bare} => r.since \subseteq reading  BY DEF Ended, Found
<1>6. InFlight(refreshes \ {r}, floor') /\ Floored(floor') /\ ReportNotOlder'
  <2>1. CASE r.newest
    <3>1. /\ report' = [report EXCEPT ![r.kind] = reading]
          /\ floor' = [floor EXCEPT ![r.kind] = floor[r.kind] \cup r.since]
      BY <1>1, <2>1 DEF StoreRefresh
    <3>2. floor[r.kind] \subseteq r.since /\ r.since \subseteq Truth(r.kind)
      BY <2>1 DEF ReportInv, InFlight
    <3>3. Floored(floor')  BY <1>3, <1>4, <3>1, <3>2 DEF ReportInv, Floored
    <3>4. \A o \in refreshes \ {r} : o.newest => o.kind # r.kind  BY <2>1 DEF ReportInv, InFlight
    <3>5. \A o \in refreshes : o.kind \in Kind  BY DEF CoreTyped, ServerTyped, Refresh
    <3>6. \A o \in refreshes \ {r} : o.newest => floor'[o.kind] \subseteq o.since
      BY <1>4, <3>1, <3>4, <3>5 DEF ReportInv, InFlight
    <3>7. InFlight(refreshes \ {r}, floor')  BY <3>6 DEF ReportInv, InFlight
    <3>8. ReportNotOlder'
      BY <1>3, <1>4, <1>5, <3>1, <3>2 DEF ReportInv, ReportNotOlder
    <3>9. QED  BY <3>3, <3>7, <3>8
  <2>2. CASE ~r.newest
    <3>1. UNCHANGED <<report, floor>>  BY <1>1, <2>2 DEF StoreRefresh
    <3>2. QED  BY <3>1 DEF ReportInv, InFlight, Floored, ReportNotOlder
  <2>3. QED  BY <2>1, <2>2
<1>7. InFlight(refreshes', floor')
  <2>1. refreshes \ {r} \subseteq Refresh  BY DEF CoreTyped, ServerTyped
  <2>2. PICK fl : fl = floor'  OBVIOUS
  <2>3. InFlight(Begin(refreshes \ {r}, "profile", "boot"), fl)
    BY <1>6, <2>1, <2>2, BeginInFlight DEF Kind
  <2>4. refreshes' \in {refreshes \ {r}, Begin(refreshes \ {r}, "profile", "boot")}
    BY <1>2, ContinueCases
  <2>5. QED  BY <1>6, <2>2, <2>3, <2>4
<1>8. InFlight(refreshes, floor)' /\ Floored(floor)'
  BY <1>2, <1>6, <1>7 DEF InFlight, Floored, Truth
<1>9. QED  BY <1>6, <1>8 DEF ReportInv

LEMMA ReportStep ==
  ASSUME CoreTyped, ReportInv, [Next]_vars
  PROVE  ReportInv'
<1>1. CASE UNCHANGED <<book, report, floor, refreshes>>
  BY <1>1, ReportFrame DEF ReportInv
<1>2. ASSUME NEW s \in Slot, UNCHANGED <<book, report, floor>>,
             refreshes' = Begin(Begin(refreshes, "profile", s), "relay", s)
      PROVE  ReportInv'
  BY <1>2, BeginBothInFlight, ReportFrame
<1>3. CASE OpenPage  BY <1>2, <1>3 DEF OpenPage, Untouched
<1>4. CASE ReceiveEvent
  <2>1. UNCHANGED <<book, report, floor>>  BY <1>4 DEF ReceiveEvent, Untouched
  <2>2. CASE UNCHANGED refreshes  BY <1>1, <2>1, <2>2
  <2>3. CASE \E s \in Slot : LoadStatus(s, FALSE)  BY <1>2, <2>1, <2>3 DEF LoadStatus
  <2>4. QED
    <3>1. CASE Head(sse).event = "status"  BY <1>4, <2>2, <3>1 DEF ReceiveEvent
    <3>2. CASE Head(sse).event = "contact_added"  BY <1>4, <2>3, <3>2 DEF ReceiveEvent
    <3>3. CASE Head(sse).event \notin {"status", "contact_added"}
      BY <1>4, <2>2, <3>3 DEF ReceiveEvent
    <3>4. QED  BY <3>1, <3>2, <3>3
<1>5. ASSUME NEW q \in pending, ImportAnswer(q) PROVE ReportInv'
  <2>1. UNCHANGED <<book, report, floor>>  BY <1>5 DEF ImportAnswer
  <2>2. UNCHANGED refreshes \/ \E s \in Slot : LoadStatus(s, TRUE)  BY <1>5 DEF ImportAnswer
  <2>3. QED  BY <1>1, <1>2, <2>1, <2>2 DEF LoadStatus
<1>6. ASSUME NEW q \in pending, ImportReported(q) PROVE ReportInv'
  <2>1. InFlight(Begin(refreshes, "profile", q.card), floor)
    BY BeginInFlight DEF ReportInv, CoreTyped, ServerTyped, Kind
  <2>2. UNCHANGED <<book, report, floor>>  BY <1>6 DEF ImportReported
  <2>3. refreshes' \in {refreshes, Begin(refreshes, "profile", q.card)}  BY <1>6 DEF ImportReported
  <2>4. QED  BY <2>1, <2>2, <2>3, ReportFrame DEF ReportInv
<1>7. ASSUME NEW q \in pending, ImportContact(q) PROVE ReportInv'
  <2>1. book \subseteq book' /\ UNCHANGED <<refreshes, report, floor>>  BY <1>7 DEF ImportContact
  <2>2. \A k : Truth(k) \subseteq Truth(k)'  BY <2>1 DEF Truth
  <2>3. QED  BY <2>1, <2>2 DEF ReportInv, InFlight, Floored, ReportNotOlder
<1>8. CASE Tick
  <2>1. InFlight(Begin(refreshes, "relay", "tick"), floor)
    BY BeginInFlight DEF ReportInv, CoreTyped, ServerTyped, Kind
  <2>2. QED  BY <1>8, <2>1, ReportFrame DEF Tick
<1>9. CASE Dialog
  BY <1>1, <1>9 DEF Dialog, HandleImportTextChange, HandleImportFile, HandleValidateImport,
     HandleConfirmImport, CloseImportModal, HandleExportCard, CloseExportModal, HandleSend, server
<1>10. CASE Reconnect \/ PollEnds \/ PollLoop \/ UNCHANGED vars
  BY <1>1, <1>10 DEF Reconnect, PollEnds, PollLoop, vars, server
<1>11. ASSUME NEW s \in Slot, StatusAnswer(s) PROVE ReportInv'
  BY <1>1, <1>11 DEF StatusAnswer, Untouched
<1>12. ASSUME NEW c \in Card, SelectContact(c) PROVE ReportInv'
  BY <1>1, <1>12 DEF SelectContact, server
<1>13. ASSUME NEW q \in pending,
              \/ HistoryAnswer(q) \/ SendAnswer(q) \/ ExportAnswer(q) \/ FileRead(q)
              \/ ValidateContact(q) \/ ValidateAnswer(q)
       PROVE  ReportInv'
  BY <1>1, <1>13 DEF HistoryAnswer, SendAnswer, ExportAnswer, FileRead, ValidateContact,
     ValidateAnswer, server
<1>14. QED
  BY <1>3, <1>4, <1>5, <1>6, <1>7, <1>8, <1>9, <1>10, <1>11, <1>12, <1>13, RefreshEndsReport
     DEF Next, Answers

\* However refreshes overlap, fail and overtake each other, what the server reports
\* holds at least everything that was true when a refresh it has stored was asked
\* for (refreshProfile, refreshRelayReachability).
THEOREM ReportNeverGoesBack == Spec => []ReportNotOlder
<1>1. Init => ReportInv
  <2> SUFFICES ASSUME Init PROVE ReportInv  OBVIOUS
  <2>1. \A k \in Kind : floor[k] = {} /\ report[k] = None  BY DEF Init
  <2>2. \A r \in refreshes : r.kind = "relay" /\ r.since = {}  BY DEF Init
  <2>3. \A r, o \in refreshes : r = o  BY DEF Init
  <2>4. QED  BY <2>1, <2>2, <2>3 DEF ReportInv, InFlight, Floored, ReportNotOlder, Kind
<1>2. ReportInv => ReportNotOlder  BY DEF ReportInv
<1>3. TypeInv => CoreTyped  BY DEF TypeInv
<1>4. QED  BY <1>1, <1>2, <1>3, StationTyped, ReportStep, PTL DEF Spec

-----------------------------------------------------------------------------
(* What operations on the pending requests leave of them.                  *)

LEMMA OutdateMembers ==
  ASSUME NEW ps, ps \subseteq Request, NEW kinds, NEW q \in Outdate(ps, kinds)
  PROVE  \/ q \in ps /\ q.kind \notin kinds
         \/ ~q.current /\ q.kind \in kinds
                       /\ \E o \in ps : q.kind = o.kind /\ q.card = o.card /\ q.stage = o.stage
<1>1. PICK o \in ps : q = IF o.kind \in kinds THEN [o EXCEPT !.current = FALSE] ELSE o
  BY DEF Outdate
<1>2. QED  BY <1>1, OutdatedRequest

LEMMA OutdateKeeps ==
  ASSUME NEW ps, ps \subseteq Request, NEW kinds, NEW q \in ps
  PROVE  /\ q.kind \notin kinds => q \in Outdate(ps, kinds)
         /\ \E o \in Outdate(ps, kinds) : o.kind = q.kind /\ o.card = q.card /\ o.stage = q.stage
<1>1. (IF q.kind \in kinds THEN [q EXCEPT !.current = FALSE] ELSE q) \in Outdate(ps, kinds)
  BY DEF Outdate
<1>2. CASE q.kind \in kinds  BY <1>1, <1>2, OutdatedRequest
<1>3. CASE q.kind \notin kinds  BY <1>1, <1>3
<1>4. QED  BY <1>2, <1>3

LEMMA AskMembers ==
  ASSUME NEW ps, NEW kind, NEW card, NEW q \in Ask(ps, kind, card)
  PROVE  q \in ps \/ (q.kind = kind /\ q.card = card /\ q.current /\ q.stage = "asked")
BY DEF Ask

LEMMA AskKeeps ==
  ASSUME NEW ps, NEW kind, NEW card
  PROVE  /\ ps \subseteq Ask(ps, kind, card)
         /\ \E q \in Ask(ps, kind, card) :
               q.kind = kind /\ q.card = card /\ q.current /\ q.stage = "asked"
<1> DEFINE new == [kind |-> kind, card |-> card, current |-> TRUE, stage |-> "asked"]
<1>1. new.kind = kind /\ new.card = card /\ new.current = TRUE /\ new.stage = "asked"  OBVIOUS
<1>2. Ask(ps, kind, card) = ps \cup {new}  BY DEF Ask
<1> HIDE DEF new
<1>3. QED  BY <1>1, <1>2

LEMMA LoadHistoryMembers ==
  ASSUME NEW ps, ps \subseteq Request, NEW card, NEW q \in LoadHistory(ps, card)
  PROVE  q \in ps \/ q.kind = "history"
<1> DEFINE kept == {o \in ps : o.kind = "history" => o.stage = "sent"}
<1>1. q \in Outdate(kept, {"history"}) \/ q.kind = "history"  BY AskMembers DEF LoadHistory
<1>2. q \in Outdate(kept, {"history"}) => q \in ps \/ q.kind = "history"  BY OutdateMembers
<1>3. QED  BY <1>1, <1>2

LEMMA LoadHistoryKeeps ==
  ASSUME NEW ps, ps \subseteq Request, NEW card, NEW q \in ps
  PROVE  /\ q.kind # "history" => q \in LoadHistory(ps, card)
         /\ q.kind = "history" /\ q.stage = "sent" =>
               \E o \in LoadHistory(ps, card) : o.kind = "history" /\ o.stage = "sent"
<1> DEFINE kept == {o \in ps : o.kind = "history" => o.stage = "sent"}
<1>1. kept \subseteq Request  OBVIOUS
<1>2. Outdate(kept, {"history"}) \subseteq LoadHistory(ps, card)  BY AskKeeps DEF LoadHistory
<1>3. (q.kind # "history" \/ q.stage = "sent") => q \in kept  OBVIOUS
<1> HIDE DEF kept
<1>4. q \in kept =>
         /\ q.kind # "history" => q \in Outdate(kept, {"history"})
         /\ \E o \in Outdate(kept, {"history"}) : o.kind = q.kind /\ o.stage = q.stage
  BY <1>1, OutdateKeeps
<1>5. QED  BY <1>2, <1>3, <1>4

-----------------------------------------------------------------------------
(* The preview is the text.                                                *)

\* While a file is read nothing is previewed or validated, and the validation
\* whose answer counts is the one of the text.
DialogOK(p, ps) ==
    /\ p.preview = p.validated
    /\ p.preview # None => p.preview = p.text
    /\ \A q \in ps : q.current =>
          /\ q.kind = "file" => p.preview = None /\ ~p.validating
          /\ q.kind = "validate" => q.card = p.text /\ p.validating
    /\ \A q, o \in ps : q.kind = "validate" /\ o.kind = "validate" /\ q.current /\ o.current => q = o

\* Nothing that prepares an import is new.
LEMMA DialogFrame ==
  ASSUME NEW p, NEW ps, DialogOK(p, ps), NEW v, NEW vs,
         v.preview = p.preview, v.validated = p.validated, v.text = p.text,
         v.validating = p.validating,
         \A q \in vs : q.kind \in Preparation /\ q.current => q \in ps
  PROVE  DialogOK(v, vs)
BY DEF DialogOK, Preparation

LEMMA DialogReset ==
  ASSUME NEW v, NEW vs, v.preview = None, v.validated = None, ~v.validating,
         \A q \in vs : q.kind \in Preparation => ~q.current
  PROVE  DialogOK(v, vs)
BY DEF DialogOK, Preparation

LEMMA NothingPrepared ==
  ASSUME NEW ps, ps \subseteq Request, NEW q \in Outdate(ps, Preparation)
  PROVE  q.kind \in Preparation => ~q.current
BY OutdateMembers

LEMMA EditDialog ==
  ASSUME PageTyped, DialogOK(page, pending),
         \/ \E text \in Card \cup {Blank} : HandleImportTextChange(text) \/ HandleImportFile(text)
         \/ CloseImportModal
  PROVE  DialogOK(page', pending')
<1>1. page \in Page /\ pending \subseteq Request  BY DEF PageTyped
<1>2. ASSUME NEW text \in Card \cup {Blank}, HandleImportTextChange(text)
      PROVE  DialogOK(page', pending')
  <2>1. [page EXCEPT !.text = text] \in Page  BY <1>1 DEF Page
  <2>2. page'.preview = None /\ page'.validated = None /\ page'.validating = FALSE
    BY <1>2, <2>1, ResetTyped DEF HandleImportTextChange
  <2>3. \A q \in pending' : q.kind \in Preparation => ~q.current
    BY <1>1, <1>2, NothingPrepared DEF HandleImportTextChange
  <2>4. QED  BY <2>2, <2>3, DialogReset
<1>3. ASSUME NEW text \in Card \cup {Blank}, HandleImportFile(text)
      PROVE  DialogOK(page', pending')
  <2>1. page'.preview = None /\ page'.validated = None /\ page'.validating = FALSE
    BY <1>1, <1>3, ResetTyped DEF HandleImportFile
  <2>2. \A q \in pending' : q.kind \in Preparation /\ q.current => q.kind = "file"
    BY <1>1, <1>3, NothingPrepared, AskMembers DEF HandleImportFile
  <2>3. QED  BY <2>1, <2>2 DEF DialogOK, Preparation
<1>4. ASSUME CloseImportModal PROVE DialogOK(page', pending')
  <2>1. page'.preview = None /\ page'.validated = None /\ page'.validating = FALSE
    BY <1>1, <1>4, ResetTyped DEF CloseImportModal
  <2>2. \A q \in pending' : q.kind \in Preparation => ~q.current
    BY <1>1, <1>4, NothingPrepared DEF CloseImportModal
  <2>3. QED  BY <2>1, <2>2, DialogReset
<1>5. QED  BY <1>2, <1>3, <1>4

LEMMA ValidateDialog ==
  ASSUME PageTyped, DialogOK(page, pending), HandleValidateImport
  PROVE  DialogOK(page', pending')
<1> DEFINE asks == ParseContactCard(page.text) /\ ~IsDuplicateContact(page.text)
<1>1. page \in Page /\ pending \subseteq Request  BY DEF PageTyped
<1>2. page' = [page EXCEPT !.preview = None, !.validated = None, !.validating = asks]
  BY DEF HandleValidateImport
<1>3. page'.preview = None /\ page'.validated = None /\ page'.validating = asks /\ page'.text = page.text
  BY <1>1, <1>2 DEF Page
<1>4. CASE asks
  <2>1. pending' = Ask(Outdate(pending, Preparation), "validate", page.text)
    BY <1>4 DEF HandleValidateImport
  <2> DEFINE new == [kind |-> "validate", card |-> page.text, current |-> TRUE, stage |-> "asked"]
  <2>2. \A q \in pending' : q.kind \in Preparation /\ q.current => q = new
    BY <1>1, <2>1, NothingPrepared DEF Ask
  <2>3. new.kind = "validate" /\ new.card = page.text  OBVIOUS
  <2> HIDE DEF new
  <2>4. QED  BY <1>3, <1>4, <2>2, <2>3 DEF DialogOK, Preparation
<1>5. CASE ~asks
  <2>1. \A q \in pending' : q.kind \in Preparation => ~q.current
    BY <1>1, <1>5, NothingPrepared DEF HandleValidateImport
  <2>2. QED  BY <1>3, <1>5, <2>1, DialogReset
<1>6. QED  BY <1>4, <1>5

LEMMA PrepareAnswers ==
  ASSUME PageTyped, DialogOK(page, pending), NEW q \in pending,
         FileRead(q) \/ ValidateContact(q) \/ ValidateAnswer(q)
  PROVE  DialogOK(page', pending')
<1>1. page \in Page /\ pending \subseteq Request /\ q \in Request  BY DEF PageTyped
<1>2. CASE FileRead(q)
  <2>1. q.kind = "file" /\ pending' = pending \ {q}  BY <1>2 DEF FileRead
  <2>2. CASE page' = page  BY <2>1, <2>2, DialogFrame
  <2>3. CASE q.current /\ page' = [page EXCEPT !.text = q.card]
    <3>1. page'.preview = page.preview /\ page'.validated = page.validated /\ page'.validating = page.validating
      BY <1>1, <2>3 DEF Page
    <3>2. page.preview = None /\ ~page.validating  BY <2>1, <2>3 DEF DialogOK
    <3>3. \A o \in pending' : o.current => o.kind # "validate"  BY <2>1, <3>2 DEF DialogOK
    <3>4. QED  BY <2>1, <3>1, <3>2, <3>3 DEF DialogOK
  <2>4. QED  BY <1>2, <2>2, <2>3 DEF FileRead
<1>3. CASE ValidateContact(q)
  <2>1. PICK stage \in Outcome : pending' = (pending \ {q}) \cup {[q EXCEPT !.stage = stage]}
    BY <1>3 DEF ValidateContact
  <2>2. PICK r : r = [q EXCEPT !.stage = stage]  OBVIOUS
  <2>3. r.kind = q.kind /\ r.card = q.card /\ r.current = q.current
    BY <1>1, <2>2, StagedRequest DEF Outcome
  <2>4. page' = page  BY <1>3 DEF ValidateContact
  <2>5. pending' = (pending \ {q}) \cup {r}  BY <2>1, <2>2
  <2>6. \A o \in pending' : o = r \/ (o \in pending /\ o # q)  BY <2>5
  <2>7. QED  BY <2>3, <2>4, <2>6 DEF DialogOK
<1>4. CASE ValidateAnswer(q)
  <2>1. q.kind = "validate" /\ pending' = pending \ {q}  BY <1>4 DEF ValidateAnswer
  <2>2. CASE ~q.current
    <3>1. page' = page  BY <1>4, <2>2 DEF ValidateAnswer
    <3>2. QED  BY <2>1, <3>1, DialogFrame
  <2>3. CASE q.current
    <3>1. page' = [page EXCEPT !.validating = FALSE,
                               !.preview = IF q.stage = "done" THEN q.card ELSE page.preview,
                               !.validated = IF q.stage = "done" THEN q.card ELSE page.validated]
      BY <1>4, <2>3 DEF ValidateAnswer
    <3>2. /\ page'.validating = FALSE /\ page'.text = page.text
          /\ page'.preview = IF q.stage = "done" THEN q.card ELSE page.preview
          /\ page'.validated = IF q.stage = "done" THEN q.card ELSE page.validated
      BY <1>1, <3>1 DEF Page
    <3>3. q.card = page.text /\ page.validating  BY <2>1, <2>3 DEF DialogOK
    <3>4. \A o \in pending' : o.current => o.kind # "validate" /\ o.kind # "file"
      BY <2>1, <2>3, <3>3 DEF DialogOK
    <3>5. QED  BY <3>2, <3>3, <3>4 DEF DialogOK
  <2>4. QED  BY <2>2, <2>3
<1>5. QED  BY <1>2, <1>3, <1>4

\* What a status leaves alone.
LEMMA ApplyStatusKeeps ==
  ASSUME PageTyped, NEW p \in Page, NEW contacts \in SUBSET Card, ApplyStatus(p, contacts)
  PROVE  /\ page'.preview = p.preview /\ page'.validated = p.validated /\ page'.text = p.text
         /\ page'.validating = p.validating /\ page'.importing = p.importing
         /\ page'.sending = p.sending /\ page'.exporting = p.exporting /\ page'.loading = p.loading
         /\ pending' = pending \/ \E c \in Card : pending' = LoadHistory(pending, c)
<1>1. PICK next \in Card \cup {None} :
         /\ page' = [p EXCEPT !.contacts = contacts, !.selected = next,
                              !.history = IF next = None THEN None ELSE p.history]
         /\ pending' = IF next = None THEN pending ELSE LoadHistory(pending, next)
  BY DEF ApplyStatus
<1>2. QED  BY <1>1 DEF Page

\* A step that touches neither the dialog nor what it waits for.
LEMMA DialogUntouched ==
  ASSUME PageTyped, DialogOK(page, pending),
         page'.preview = page.preview, page'.validated = page.validated, page'.text = page.text,
         page'.validating = page.validating,
         \/ pending' = pending
         \/ \E c \in Card : pending' = LoadHistory(pending, c)
  PROVE  DialogOK(page', pending')
<1>1. pending \subseteq Request  BY DEF PageTyped
<1>2. \A q \in pending' : q.kind \in Preparation /\ q.current => q \in pending
  BY <1>1, LoadHistoryMembers DEF Preparation
<1>3. QED  BY <1>2, DialogFrame

LEMMA OtherAnswersDialog ==
  ASSUME CoreTyped, DialogOK(page, pending), NEW q \in pending,
         \/ HistoryAnswer(q) \/ SendAnswer(q) \/ ExportAnswer(q)
         \/ ImportContact(q) \/ ImportReported(q) \/ ImportAnswer(q)
  PROVE  DialogOK(page', pending')
<1>1. page \in Page /\ pending \subseteq Request /\ q \in Request  BY DEF CoreTyped, PageTyped
<1>2. CASE HistoryAnswer(q) \/ SendAnswer(q) \/ ExportAnswer(q)
  <2>1. \A o \in pending' : o.kind \in Preparation /\ o.current => o \in pending
    <3>1. PICK h : h = [kind |-> "history", card |-> q.card, current |-> TRUE, stage |-> "sent"]
      OBVIOUS
    <3>2. h.kind = "history"  BY <3>1
    <3>3. pending' \subseteq pending \cup {h}
      BY <1>2, <3>1 DEF HistoryAnswer, SendAnswer, ExportAnswer
    <3>4. QED  BY <3>2, <3>3 DEF Preparation
  <2>2. \/ page' = page
        \/ \E h, b \in {page.history, q.card} \cup BOOLEAN :
              page' = [page EXCEPT !.history = h, !.sending = b]
        \/ \E b \in BOOLEAN : page' = [page EXCEPT !.sending = b]
        \/ \E b \in BOOLEAN : page' = [page EXCEPT !.loading = b]
    <3>1. (page.sending /\ q.stage # "sent") \in BOOLEAN /\ (page.sending /\ ~q.current) \in BOOLEAN
          /\ (page.loading /\ ~q.current) \in BOOLEAN
      OBVIOUS
    <3>2. CASE HistoryAnswer(q)
      <4>1. PICK outcome \in Outcome :
              page' = [page EXCEPT !.history = IF outcome = "done" /\ q.current /\ page.selected = q.card
                                               THEN q.card ELSE page.history,
                                   !.sending = page.sending /\ q.stage # "sent"]
        BY <3>2 DEF HistoryAnswer
      <4>2. PICK h, b : /\ h = IF outcome = "done" /\ q.current /\ page.selected = q.card
                               THEN q.card ELSE page.history
                        /\ b = (page.sending /\ q.stage # "sent")
        OBVIOUS
      <4>3. h \in {page.history, q.card} \cup BOOLEAN /\ b \in {page.history, q.card} \cup BOOLEAN
        BY <3>1, <4>2
      <4>4. page' = [page EXCEPT !.history = h, !.sending = b]  BY <4>1, <4>2
      <4>5. QED  BY <4>3, <4>4
    <3>3. CASE SendAnswer(q)
      <4>1. page' = page \/ page' = [page EXCEPT !.sending = page.sending /\ ~q.current]
        BY <3>3 DEF SendAnswer
      <4>2. QED  BY <3>1, <4>1
    <3>4. CASE ExportAnswer(q)
      <4>1. page' = [page EXCEPT !.loading = page.loading /\ ~q.current]  BY <3>4 DEF ExportAnswer
      <4>2. QED  BY <3>1, <4>1
    <3>5. QED  BY <1>2, <3>2, <3>3, <3>4
  <2>3. /\ page'.preview = page.preview /\ page'.validated = page.validated /\ page'.text = page.text
        /\ page'.validating = page.validating
    BY <1>1, <2>2 DEF Page
  <2>4. QED  BY <2>1, <2>3, DialogFrame
<1>3. CASE ImportContact(q)  BY <1>3, DialogFrame DEF ImportContact
<1>4. CASE ImportReported(q)
  <2>1. page' = page /\ q.kind = "import"  BY <1>4 DEF ImportReported
  <2>2. \A o \in pending' : o \in pending \/ o.kind = "import"
    <3>1. PICK a, b : a = [q EXCEPT !.stage = "sent"] /\ b = [q EXCEPT !.stage = "failed"]
      OBVIOUS
    <3>2. a.kind = "import" /\ b.kind = "import"  BY <1>1, <2>1, <3>1, StagedRequest
    <3>3. pending' \subseteq pending \cup {a, b}  BY <1>4, <3>1 DEF ImportReported
    <3>4. QED  BY <3>2, <3>3
  <2>3. QED  BY <2>1, <2>2, DialogFrame DEF Preparation
<1>5. CASE ImportAnswer(q)
  <2>1. CASE q.stage = "failed" \/ ~q.current
    <3>1. pending' = pending \ {q} /\ page' \in {page, [page EXCEPT !.importing = FALSE]}
      BY <1>5, <2>1 DEF ImportAnswer
    <3>2. /\ page'.preview = page.preview /\ page'.validated = page.validated /\ page'.text = page.text
          /\ page'.validating = page.validating
      BY <1>1, <3>1 DEF Page
    <3>3. QED  BY <3>1, <3>2, DialogFrame
  <2>2. CASE ~(q.stage = "failed" \/ ~q.current)
    <3>1. /\ page' = [ResetImportPreparation(page) EXCEPT !.text = Blank]
          /\ pending' = Outdate(pending \ {q}, Preparation)
      BY <1>5, <2>2 DEF ImportAnswer
    <3>2. page'.preview = None /\ page'.validated = None /\ page'.validating = FALSE
      BY <1>1, <3>1, ResetTyped DEF Page
    <3>3. \A o \in pending' : o.kind \in Preparation => ~o.current
      BY <1>1, <3>1, NothingPrepared
    <3>4. QED  BY <3>2, <3>3, DialogReset
  <2>3. QED  BY <2>1, <2>2
<1>6. QED  BY <1>2, <1>3, <1>4, <1>5

LEMMA OtherGesturesDialog ==
  ASSUME PageTyped, DialogOK(page, pending),
         \/ HandleConfirmImport \/ HandleExportCard \/ CloseExportModal \/ HandleSend
         \/ \E c \in Card : SelectContact(c)
  PROVE  DialogOK(page', pending')
<1>1. page \in Page /\ pending \subseteq Request  BY DEF PageTyped
<1>2. /\ page'.preview = page.preview /\ page'.validated = page.validated /\ page'.text = page.text
      /\ page'.validating = page.validating
  BY <1>1 DEF HandleConfirmImport, HandleExportCard, CloseExportModal, HandleSend, SelectContact, Page
<1>3. ASSUME NEW q \in pending', q.kind \in Preparation, q.current PROVE q \in pending
  <2>1. q.kind \notin {"import", "send", "export", "history"}  BY <1>3 DEF Preparation
  <2>2. CASE HandleConfirmImport  BY <2>1, <2>2, AskMembers DEF HandleConfirmImport
  <2>3. CASE HandleExportCard
    BY <1>1, <1>3, <2>1, <2>3, AskMembers, OutdateMembers DEF HandleExportCard
  <2>4. CASE CloseExportModal  BY <1>1, <1>3, <2>1, <2>4, OutdateMembers DEF CloseExportModal
  <2>5. CASE HandleSend  BY <2>1, <2>5, AskMembers DEF HandleSend
  <2>6. CASE \E c \in Card : SelectContact(c)
    BY <1>1, <2>1, <2>6, LoadHistoryMembers DEF SelectContact
  <2>7. QED  BY <2>2, <2>3, <2>4, <2>5, <2>6
<1>4. QED  BY <1>2, <1>3, DialogFrame

LEMMA DialogStep ==
  ASSUME CoreTyped, DialogOK(page, pending), [Next]_vars
  PROVE  DialogOK(page', pending')
<1>1. PageTyped  BY DEF CoreTyped
<1>2. CASE UNCHANGED <<page, pending>>  BY <1>2
<1>3. CASE OpenPage
  <2>1. page' = FreshPage /\ \A q \in pending' : q.kind \notin Preparation
    <3>1. /\ page' = FreshPage
          /\ pending' = {[q EXCEPT !.current = FALSE] :
                          q \in {o \in pending : o.kind \in {"import", "send"} /\ o.stage = "asked"}}
      BY <1>3 DEF OpenPage
    <3>2. QED  BY <1>1, <3>1, OutdatedRequest DEF PageTyped, Preparation
  <2>2. page'.preview = None /\ page'.validated = None /\ page'.validating = FALSE
    BY <2>1 DEF FreshPage
  <2>3. QED  BY <2>1, <2>2, DialogReset
<1>4. CASE Dialog  BY <1>1, <1>4, EditDialog, ValidateDialog, OtherGesturesDialog DEF Dialog
<1>5. CASE ReceiveEvent
  <2>1. PICK e : e = Head(sse)  OBVIOUS
  <2>2. e \in SSE  BY <1>5, <2>1 DEF ReceiveEvent, CoreTyped, StreamTyped
  <2>3. CASE e.event = "status"
    <3>1. ApplyStatus(page, e.payload)  BY <1>5, <2>1, <2>3 DEF ReceiveEvent
    <3>2. e.payload \in SUBSET Card  BY <2>2 DEF SSE
    <3>3. QED  BY <1>1, <3>1, <3>2, ApplyStatusKeeps, DialogUntouched DEF PageTyped
  <2>4. CASE e.event = "contact_added"  BY <1>2, <1>5, <2>1, <2>4 DEF ReceiveEvent
  <2>5. CASE e.event \notin {"status", "contact_added"}
    <3>1. /\ pending' = IF page.selected = None THEN pending ELSE LoadHistory(pending, page.selected)
          /\ page' = page
      BY <1>5, <2>1, <2>5 DEF ReceiveEvent
    <3>2. page.selected \in Card \cup {None}  BY <1>1, PageFields DEF PageTyped
    <3>3. QED  BY <1>1, <3>1, <3>2, DialogUntouched
  <2>6. QED  BY <2>3, <2>4, <2>5
<1>6. ASSUME NEW s \in Slot, StatusAnswer(s) PROVE DialogOK(page', pending')
  <2>1. PICK loaded : loaded = [page EXCEPT !.importing = page.importing /\ ~status[s].imported]
    OBVIOUS
  <2>2. (page.importing /\ ~status[s].imported) \in BOOLEAN  OBVIOUS
  <2>3. /\ loaded \in Page /\ loaded.preview = page.preview /\ loaded.validated = page.validated
        /\ loaded.text = page.text /\ loaded.validating = page.validating
    BY <1>1, <2>1, <2>2 DEF PageTyped, Page
  <2>4. status[s].payload \in SUBSET Card  BY DEF CoreTyped, Status
  <2>5. ApplyStatus(loaded, status[s].payload) \/ (page' = loaded /\ UNCHANGED pending)
    BY <1>6, <2>1 DEF StatusAnswer
  <2>6. QED  BY <1>1, <2>3, <2>4, <2>5, ApplyStatusKeeps, DialogUntouched
<1>7. CASE \E c \in Card : SelectContact(c)  BY <1>1, <1>7, OtherGesturesDialog
<1>8. CASE Answers  BY <1>1, <1>8, PrepareAnswers, OtherAnswersDialog DEF Answers
<1>9. CASE Reconnect \/ PollEnds \/ Tick \/ PollLoop \/ UNCHANGED vars
  BY <1>2, <1>9 DEF Reconnect, PollEnds, Tick, PollLoop, vars
<1>10. ASSUME NEW r \in refreshes, RefreshEnds(r) PROVE DialogOK(page', pending')
  <2>1. page' = page /\ Continue(r)  BY <1>10 DEF RefreshEnds
  <2>2. pending' \in {pending, {IF q.kind = "import" /\ q.stage = "sent" /\ q.card = r.task
                                THEN [q EXCEPT !.stage = "done"] ELSE q : q \in pending}}
    BY <2>1, ContinueCases
  <2>3. \A q \in pending' : q \in pending \/ q.kind = "import"
    <3> SUFFICES ASSUME NEW q \in pending', q \notin pending PROVE q.kind = "import"  OBVIOUS
    <3>1. PICK o \in pending : q = IF o.kind = "import" /\ o.stage = "sent" /\ o.card = r.task
                                   THEN [o EXCEPT !.stage = "done"] ELSE o
      BY <2>2
    <3>2. o.kind = "import" /\ q = [o EXCEPT !.stage = "done"]  BY <3>1
    <3>3. QED  BY <1>1, <3>2, StagedRequest DEF PageTyped
  <2>4. QED  BY <2>1, <2>3, DialogFrame DEF Preparation
<1>11. QED
  BY <1>3, <1>4, <1>5, <1>6, <1>7, <1>8, <1>9, <1>10 DEF Next

LEMMA DialogInitially == Init => DialogOK(page, pending)
BY DEF Init, DialogOK, FreshPage

\* Whatever files are read late and whatever validations answer out of order, the
\* preview, the card a confirmation would import and the text of the dialog are one
\* card (handleImportFile, handleValidateImport and their generations).
THEOREM PreviewFollowsText == Spec => []PreviewIsCurrent
<1>1. Init => DialogOK(page, pending)  BY DialogInitially
<1>2. CoreTyped /\ DialogOK(page, pending) /\ [Next]_vars => DialogOK(page, pending)'
  BY DialogStep DEF DialogOK
<1>3. DialogOK(page, pending) => PreviewIsCurrent  BY DEF DialogOK, PreviewIsCurrent
<1>4. TypeInv => CoreTyped  BY DEF TypeInv
<1>5. QED  BY <1>1, <1>2, <1>3, <1>4, StationTyped, PTL DEF Spec

-----------------------------------------------------------------------------
(* The station implements the trust gate.                                  *)

\* An import its child may still record.
Asked(q) == q.kind = "import" /\ q.stage = "asked"

LEMMA AgreedSame ==
  ASSUME \A q \in pending : Asked(q) => q \in pending',
         \A q \in pending' : Asked(q) => q \in pending
  PROVE  Agreed' = Agreed
BY DEF Agreed, Asked

\* The screen shows what it showed, or nothing, and nothing else happened.
LEMMA GateQuiet ==
  ASSUME Agreed' = Agreed, book' = book, page'.preview \in {page.preview, None}
  PROVE  [Gate!Next]_<<Shown, Agreed, book>>
<1>1. Shown' = Shown \/ Shown' = {}  BY DEF Shown
<1>2. QED  BY <1>1 DEF Gate!Next, Gate!Withdraw

LEMMA QuietRequests ==
  ASSUME PageTyped,
         \/ pending' = pending
         \/ \E c : pending' = LoadHistory(pending, c)
         \/ \E kinds, kind, c : /\ "import" \notin kinds /\ kind # "import"
                                /\ pending' = Ask(Outdate(pending, kinds), kind, c)
         \/ \E kind, c : kind # "import" /\ pending' = Ask(pending, kind, c)
         \/ \E kinds : "import" \notin kinds /\ pending' = Outdate(pending, kinds)
         \/ \E q \in pending : ~Asked(q) /\ pending' = pending \ {q}
         \/ \E q \in pending : \E kinds :
               /\ ~Asked(q) /\ "import" \notin kinds
               /\ pending' = Outdate(pending \ {q}, kinds)
  PROVE  Agreed' = Agreed
<1>1. pending \subseteq Request  BY DEF PageTyped
<1>2. ASSUME NEW c, pending' = LoadHistory(pending, c) PROVE Agreed' = Agreed
  <2>1. \A q \in pending : Asked(q) => q \in pending'  BY <1>1, <1>2, LoadHistoryKeeps DEF Asked
  <2>2. \A q \in pending' : Asked(q) => q \in pending  BY <1>1, <1>2, LoadHistoryMembers DEF Asked
  <2>3. QED  BY <2>1, <2>2, AgreedSame
<1>3. ASSUME NEW ps \in SUBSET pending, \A q \in pending : Asked(q) => q \in ps,
             NEW kinds, "import" \notin kinds,
             \/ pending' = Outdate(ps, kinds)
             \/ \E kind, c : kind # "import" /\ pending' = Ask(Outdate(ps, kinds), kind, c)
      PROVE  Agreed' = Agreed
  <2>1. ps \subseteq Request  BY <1>1
  <2>2. \A q \in ps : Asked(q) => q \in Outdate(ps, kinds)  BY <1>3, <2>1, OutdateKeeps DEF Asked
  <2>3. \A q \in Outdate(ps, kinds) : Asked(q) => q \in ps  BY <1>3, <2>1, OutdateMembers DEF Asked
  <2>4. \A q \in pending' : Asked(q) => q \in Outdate(ps, kinds)  BY <1>3, AskMembers DEF Asked
  <2>5. Outdate(ps, kinds) \subseteq pending'  BY <1>3, AskKeeps
  <2>6. QED  BY <1>3, <2>2, <2>3, <2>4, <2>5, AgreedSame
<1>4. ASSUME NEW kind, NEW c, kind # "import", pending' = Ask(pending, kind, c)
      PROVE  Agreed' = Agreed
  <2>1. \A q \in pending' : Asked(q) => q \in pending  BY <1>4, AskMembers DEF Asked
  <2>2. QED  BY <1>4, <2>1, AskKeeps, AgreedSame
<1>5. ASSUME NEW q \in pending, ~Asked(q), pending' = pending \ {q} PROVE Agreed' = Agreed
  BY <1>5, AgreedSame
<1>6. CASE pending' = pending  BY <1>6 DEF Agreed
<1>7. CASE \E kinds, kind, c : /\ "import" \notin kinds /\ kind # "import"
                               /\ pending' = Ask(Outdate(pending, kinds), kind, c)
  BY <1>3, <1>7
<1>8. CASE \E kinds : "import" \notin kinds /\ pending' = Outdate(pending, kinds)  BY <1>3, <1>8
<1>9. CASE \E q \in pending : \E kinds : /\ ~Asked(q) /\ "import" \notin kinds
                                          /\ pending' = Outdate(pending \ {q}, kinds)
  BY <1>3, <1>9
<1>10. QED  BY <1>2, <1>4, <1>5, <1>6, <1>7, <1>8, <1>9

LEMMA ConfirmGate ==
  ASSUME CoreTyped, DialogOK(page, pending), HandleConfirmImport
  PROVE  [Gate!Next]_<<Shown, Agreed, book>>
<1>1. PICK c : c = page.validated  OBVIOUS
<1>2. page \in Page /\ pending \subseteq Request  BY DEF CoreTyped, PageTyped
<1>3. c \in Card /\ c # None  BY <1>1, <1>2, PageFields DEF HandleConfirmImport
<1>4. page.preview = c  BY <1>1 DEF DialogOK
<1>5. page'.preview = c  BY <1>2, <1>4 DEF HandleConfirmImport, Page
<1>6. c \in Shown /\ Shown' = Shown  BY <1>3, <1>4, <1>5 DEF Shown
<1>7. Agreed' = Agreed \cup {c}
  <2>1. PICK n : n = [kind |-> "import", card |-> c, current |-> TRUE, stage |-> "asked"]  OBVIOUS
  <2>2. n.card = c /\ n.kind = "import" /\ n.stage = "asked"  BY <2>1
  <2>3. pending' = pending \cup {n}  BY <1>1, <2>1 DEF HandleConfirmImport, Ask
  <2>4. QED  BY <2>2, <2>3 DEF Agreed
<1>8. book' = book  BY DEF HandleConfirmImport, server
<1>9. Gate!Agree(c)  BY <1>6, <1>7, <1>8 DEF Gate!Agree
<1>10. QED  BY <1>3, <1>9 DEF Gate!Next

LEMMA ValidateAnswerGate ==
  ASSUME CoreTyped, NEW q \in pending, ValidateAnswer(q)
  PROVE  [Gate!Next]_<<Shown, Agreed, book>>
<1>1. page \in Page /\ q \in Request /\ q.kind = "validate" /\ PageTyped
  BY DEF CoreTyped, PageTyped, ValidateAnswer
<1>2. q.card \in Card /\ q.card # None  BY <1>1, RequestFields, StationAssumption
<1>3. Agreed' = Agreed  BY <1>1, QuietRequests DEF ValidateAnswer, Asked
<1>4. book' = book  BY DEF ValidateAnswer, server
<1>5. page'.preview \in {page.preview, q.card}  BY <1>1 DEF ValidateAnswer, Page
<1>6. CASE page'.preview = page.preview  BY <1>3, <1>4, <1>6, GateQuiet
<1>7. CASE page'.preview = q.card
  <2>1. Shown' = {q.card}  BY <1>2, <1>7 DEF Shown
  <2>2. PICK c : c = q.card  OBVIOUS
  <2>3. Gate!Present(c)  BY <1>3, <1>4, <2>1, <2>2 DEF Gate!Present
  <2>4. QED  BY <1>2, <2>2, <2>3 DEF Gate!Next
<1>8. QED  BY <1>5, <1>6, <1>7

LEMMA ImportGate ==
  ASSUME CoreTyped, NEW q \in pending, ImportContact(q) \/ ImportReported(q) \/ ImportAnswer(q)
  PROVE  [Gate!Next]_<<Shown, Agreed, book>>
<1>1. page \in Page /\ pending \subseteq Request /\ q \in Request /\ q.kind = "import" /\ PageTyped
  BY DEF CoreTyped, PageTyped, ImportContact, ImportReported, ImportAnswer
<1>2. PICK c : c = q.card  OBVIOUS
<1>3. c \in Card  BY <1>1, <1>2, RequestFields
<1>4. CASE ImportContact(q)
  <2>1. c \in Agreed  BY <1>2, <1>4 DEF ImportContact, Agreed
  <2>2. book' = book \cup {c} /\ Agreed' = Agreed /\ Shown' = Shown
    BY <1>2, <1>4 DEF ImportContact, Agreed, Shown
  <2>3. Gate!Trust(c)  BY <2>1, <2>2 DEF Gate!Trust
  <2>4. QED  BY <1>3, <2>3 DEF Gate!Next
<1>5. CASE ImportReported(q)
  <2>1. c \in Agreed /\ book' = book /\ Shown' = Shown
    BY <1>2, <1>5 DEF ImportReported, Agreed, Shown
  <2>2. PICK r : r.stage # "asked" /\ pending' = (pending \ {q}) \cup {r}
    BY <1>1, <1>5, StagedRequest DEF ImportReported
  <2>3. Agreed' \subseteq Agreed  BY <2>2 DEF Agreed
  <2>4. Agreed \subseteq Agreed' \cup {c}  BY <1>2, <2>2 DEF Agreed
  <2>5. CASE c \in Agreed'
    <3>1. Agreed' = Agreed  BY <2>3, <2>4, <2>5
    <3>2. QED  BY <2>1, <3>1
  <2>6. CASE c \notin Agreed'
    <3>1. Agreed' = Agreed \ {c}  BY <2>3, <2>4, <2>6
    <3>2. Gate!Drop(c)  BY <2>1, <3>1 DEF Gate!Drop
    <3>3. QED  BY <1>3, <3>2 DEF Gate!Next
  <2>7. QED  BY <2>5, <2>6
<1>6. CASE ImportAnswer(q)
  <2>1. ~Asked(q) /\ book' = book  BY <1>6 DEF ImportAnswer, Asked
  <2>2. pending' \in {pending \ {q}, Outdate(pending \ {q}, Preparation)}  BY <1>6 DEF ImportAnswer
  <2>3. Agreed' = Agreed  BY <1>1, <2>1, <2>2, QuietRequests DEF Preparation
  <2>4. page'.preview \in {page.preview, None}
    <3>1. [page EXCEPT !.importing = FALSE].preview = page.preview  BY <1>1 DEF Page
    <3>2. [ResetImportPreparation(page) EXCEPT !.text = Blank].preview = None
      BY <1>1, ResetTyped DEF Page
    <3>3. QED  BY <1>6, <3>1, <3>2 DEF ImportAnswer
  <2>5. QED  BY <2>1, <2>3, <2>4, GateQuiet
<1>7. QED  BY <1>4, <1>5, <1>6

\* The child of an import runs on when the page is loaded again.
LEMMA OpenPageGate ==
  ASSUME CoreTyped, OpenPage
  PROVE  [Gate!Next]_<<Shown, Agreed, book>>
<1>1. /\ page' = FreshPage /\ book' = book
      /\ pending' = {[q EXCEPT !.current = FALSE] :
                       q \in {o \in pending : o.kind \in {"import", "send"} /\ o.stage = "asked"}}
  BY DEF OpenPage, Untouched
<1>2. pending \subseteq Request  BY DEF CoreTyped, PageTyped
<1>3. Agreed' \subseteq Agreed
  <2> SUFFICES ASSUME NEW n \in pending', Asked(n) PROVE n.card \in Agreed  BY DEF Agreed, Asked
  <2>1. PICK q \in pending : q.stage = "asked" /\ n = [q EXCEPT !.current = FALSE]  BY <1>1
  <2>2. n.kind = q.kind /\ n.card = q.card /\ n.stage = q.stage  BY <1>2, <2>1, OutdatedRequest
  <2>3. QED  BY <2>1, <2>2 DEF Agreed, Asked
<1>4. Agreed \subseteq Agreed'
  <2> SUFFICES ASSUME NEW q \in pending, Asked(q) PROVE q.card \in Agreed'  BY DEF Agreed, Asked
  <2>1. PICK n : n = [q EXCEPT !.current = FALSE]  OBVIOUS
  <2>2. n.kind = q.kind /\ n.card = q.card /\ n.stage = q.stage  BY <1>2, <2>1, OutdatedRequest
  <2>3. n \in pending'  BY <1>1, <2>1 DEF Asked
  <2>4. QED  BY <2>2, <2>3 DEF Agreed, Asked
<1>5. page'.preview = None  BY <1>1 DEF FreshPage
<1>6. QED  BY <1>1, <1>3, <1>4, <1>5, GateQuiet

LEMMA DialogGate ==
  ASSUME CoreTyped, DialogOK(page, pending), Dialog
  PROVE  [Gate!Next]_<<Shown, Agreed, book>>
<1>1. page \in Page /\ PageTyped  BY DEF CoreTyped, PageTyped
<1>2. "import" \notin Preparation  BY DEF Preparation
<1>3. ASSUME NEW text \in Card \cup {Blank}, HandleImportTextChange(text)
      PROVE  [Gate!Next]_<<Shown, Agreed, book>>
  <2>1. Agreed' = Agreed  BY <1>1, <1>2, <1>3, QuietRequests DEF HandleImportTextChange
  <2>2. [page EXCEPT !.text = text] \in Page  BY <1>1 DEF Page
  <2>3. page'.preview = None  BY <1>3, <2>2, ResetTyped DEF HandleImportTextChange
  <2>4. QED  BY <1>3, <2>1, <2>3, GateQuiet DEF HandleImportTextChange, server
<1>4. ASSUME NEW text \in Card \cup {Blank}, HandleImportFile(text)
      PROVE  [Gate!Next]_<<Shown, Agreed, book>>
  <2>1. pending' = Ask(Outdate(pending, Preparation), "file", text)  BY <1>4 DEF HandleImportFile
  <2>2. Agreed' = Agreed  BY <1>1, <1>2, <2>1, QuietRequests
  <2>3. page'.preview = None  BY <1>1, <1>4, ResetTyped DEF HandleImportFile
  <2>4. QED  BY <1>4, <2>2, <2>3, GateQuiet DEF HandleImportFile, server
<1>5. CASE HandleValidateImport
  <2>1. \/ pending' = Ask(Outdate(pending, Preparation), "validate", page.text)
        \/ pending' = Outdate(pending, Preparation)
    BY <1>5 DEF HandleValidateImport
  <2>2. Agreed' = Agreed  BY <1>1, <1>2, <2>1, QuietRequests
  <2>3. page'.preview = None  BY <1>1, <1>5 DEF HandleValidateImport, Page
  <2>4. QED  BY <1>5, <2>2, <2>3, GateQuiet DEF HandleValidateImport, server
<1>6. CASE CloseImportModal
  <2>1. Agreed' = Agreed  BY <1>1, <1>2, <1>6, QuietRequests DEF CloseImportModal
  <2>2. page'.preview = None  BY <1>1, <1>6, ResetTyped DEF CloseImportModal
  <2>3. QED  BY <1>6, <2>1, <2>2, GateQuiet DEF CloseImportModal, server
<1>7. CASE HandleExportCard \/ CloseExportModal \/ HandleSend
  <2>1. \/ pending' = Ask(Outdate(pending, {"export"}), "export", None)
        \/ pending' = Outdate(pending, {"export"})
        \/ pending' = Ask(pending, "send", page.selected)
    BY <1>7 DEF HandleExportCard, CloseExportModal, HandleSend
  <2>2. Agreed' = Agreed  BY <1>1, <2>1, QuietRequests
  <2>3. page'.preview = page.preview
    BY <1>1, <1>7 DEF HandleExportCard, CloseExportModal, HandleSend, Page
  <2>4. QED
    BY <1>7, <2>2, <2>3, GateQuiet DEF HandleExportCard, CloseExportModal, HandleSend, server
<1>8. QED  BY <1>3, <1>4, <1>5, <1>6, <1>7, ConfirmGate DEF Dialog

\* The answers that have nothing to do with a contact's import.
LEMMA OtherAnswersGate ==
  ASSUME CoreTyped, NEW q \in pending,
         HistoryAnswer(q) \/ SendAnswer(q) \/ ExportAnswer(q) \/ FileRead(q) \/ ValidateContact(q)
  PROVE  [Gate!Next]_<<Shown, Agreed, book>>
<1>1. page \in Page /\ pending \subseteq Request /\ q \in Request /\ PageTyped
  BY DEF CoreTyped, PageTyped
<1>2. book' = book /\ ~Asked(q)
  BY DEF HistoryAnswer, SendAnswer, ExportAnswer, FileRead, ValidateContact, server, Asked
<1>3. page'.preview = page.preview
  <2>1. (page.sending /\ q.stage # "sent") \in BOOLEAN /\ (page.sending /\ ~q.current) \in BOOLEAN
        /\ (page.loading /\ ~q.current) \in BOOLEAN
    OBVIOUS
  <2>2. CASE HistoryAnswer(q)
    <3>1. PICK h, b : page' = [page EXCEPT !.history = h, !.sending = b]  BY <2>2 DEF HistoryAnswer
    <3>2. QED  BY <1>1, <3>1 DEF Page
  <2>3. CASE SendAnswer(q)
    <3>1. page' = page \/ \E b : page' = [page EXCEPT !.sending = b]  BY <2>3 DEF SendAnswer
    <3>2. QED  BY <1>1, <3>1 DEF Page
  <2>4. CASE ExportAnswer(q)
    <3>1. PICK b : page' = [page EXCEPT !.loading = b]  BY <2>4 DEF ExportAnswer
    <3>2. QED  BY <1>1, <3>1 DEF Page
  <2>5. CASE FileRead(q)  BY <1>1, <2>5 DEF FileRead, Page
  <2>6. CASE ValidateContact(q)  BY <2>6 DEF ValidateContact
  <2>7. QED  BY <2>2, <2>3, <2>4, <2>5, <2>6
<1>4. Agreed' = Agreed
  <2>1. PICK h : h = [kind |-> "history", card |-> q.card, current |-> TRUE, stage |-> "sent"]
    OBVIOUS
  <2>2. ~Asked(h)  BY <2>1 DEF Asked
  <2>3. CASE pending' = pending \ {q}  BY <1>1, <1>2, <2>3, QuietRequests
  <2>4. CASE pending' = {o \in pending : o # q /\ o.kind # "history"} \cup {h}
    BY <1>2, <2>2, <2>4, AgreedSame DEF Asked
  <2>5. CASE ValidateContact(q)
    <3>1. PICK stage \in Outcome : pending' = (pending \ {q}) \cup {[q EXCEPT !.stage = stage]}
      BY <2>5 DEF ValidateContact
    <3>2. PICK r : r = [q EXCEPT !.stage = stage]  OBVIOUS
    <3>3. r.kind = "validate"  BY <1>1, <2>5, <3>2, StagedRequest DEF ValidateContact, Outcome
    <3>4. pending' = (pending \ {q}) \cup {r}  BY <3>1, <3>2
    <3>5. QED  BY <1>2, <3>3, <3>4, AgreedSame DEF Asked
  <2>6. QED
    BY <2>1, <2>3, <2>4, <2>5 DEF HistoryAnswer, SendAnswer, ExportAnswer, FileRead
<1>5. QED  BY <1>2, <1>3, <1>4, GateQuiet

\* A status, an event, a selection.
LEMMA StatusGate ==
  ASSUME CoreTyped,
         \/ ReceiveEvent \/ \E s \in Slot : StatusAnswer(s)
         \/ \E c \in Card : SelectContact(c)
  PROVE  [Gate!Next]_<<Shown, Agreed, book>>
<1>1. page \in Page /\ PageTyped  BY DEF CoreTyped, PageTyped
<1>2. book' = book  BY DEF ReceiveEvent, StatusAnswer, SelectContact, Untouched, server
<1>3. /\ page'.preview = page.preview
      /\ pending' = pending \/ \E c : pending' = LoadHistory(pending, c)
  <2>1. CASE ReceiveEvent
    <3>1. PICK e : e = Head(sse)  OBVIOUS
    <3>2. e \in SSE  BY <2>1, <3>1 DEF ReceiveEvent, CoreTyped, StreamTyped
    <3>3. CASE e.event = "status"
      <4>1. ApplyStatus(page, e.payload)  BY <2>1, <3>1, <3>3 DEF ReceiveEvent
      <4>2. e.payload \in SUBSET Card  BY <3>2 DEF SSE
      <4>3. QED  BY <1>1, <4>1, <4>2, ApplyStatusKeeps
    <3>4. CASE e.event # "status"  BY <2>1, <3>1, <3>4 DEF ReceiveEvent
    <3>5. QED  BY <3>3, <3>4
  <2>2. ASSUME NEW s \in Slot, StatusAnswer(s)
        PROVE  /\ page'.preview = page.preview
               /\ pending' = pending \/ \E c : pending' = LoadHistory(pending, c)
    <3>1. PICK loaded : loaded = [page EXCEPT !.importing = page.importing /\ ~status[s].imported]
      OBVIOUS
    <3>2. (page.importing /\ ~status[s].imported) \in BOOLEAN  OBVIOUS
    <3>3. loaded \in Page /\ loaded.preview = page.preview  BY <1>1, <3>1, <3>2 DEF Page
    <3>4. status[s].payload \in SUBSET Card  BY DEF CoreTyped, Status
    <3>5. ApplyStatus(loaded, status[s].payload) \/ (page' = loaded /\ UNCHANGED pending)
      BY <2>2, <3>1 DEF StatusAnswer
    <3>6. QED  BY <1>1, <3>3, <3>4, <3>5, ApplyStatusKeeps
  <2>3. CASE \E c \in Card : SelectContact(c)  BY <1>1, <2>3 DEF SelectContact, Page
  <2>4. QED  BY <2>1, <2>2, <2>3
<1>4. Agreed' = Agreed  BY <1>1, <1>3, QuietRequests
<1>5. QED  BY <1>2, <1>3, <1>4, GateQuiet

LEMMA RefreshGate ==
  ASSUME CoreTyped, NEW r \in refreshes, RefreshEnds(r)
  PROVE  [Gate!Next]_<<Shown, Agreed, book>>
<1>1. page' = page /\ book' = book /\ Continue(r)  BY DEF RefreshEnds
<1>2. pending \subseteq Request  BY DEF CoreTyped, PageTyped
<1>3. CASE pending' = pending  BY <1>1, <1>3, GateQuiet DEF Agreed
<1>4. CASE pending' = {IF q.kind = "import" /\ q.stage = "sent" /\ q.card = r.task
                       THEN [q EXCEPT !.stage = "done"] ELSE q : q \in pending}
  <2>1. ASSUME NEW q \in pending, Asked(q) PROVE q \in pending'
    <3>1. ~(q.kind = "import" /\ q.stage = "sent" /\ q.card = r.task)  BY <2>1 DEF Asked
    <3>2. QED  BY <1>4, <3>1
  <2>2. ASSUME NEW n \in pending', Asked(n) PROVE n \in pending
    <3>1. PICK q \in pending : n = IF q.kind = "import" /\ q.stage = "sent" /\ q.card = r.task
                                   THEN [q EXCEPT !.stage = "done"] ELSE q
      BY <1>4
    <3>2. [q EXCEPT !.stage = "done"].stage = "done"  BY <1>2, StagedRequest
    <3>3. QED  BY <2>2, <3>1, <3>2 DEF Asked
  <2>3. QED  BY <1>1, <2>1, <2>2, AgreedSame, GateQuiet
<1>5. QED  BY <1>1, <1>3, <1>4, ContinueCases

LEMMA GateStep ==
  ASSUME CoreTyped, DialogOK(page, pending), [Next]_vars
  PROVE  [Gate!Next]_<<Shown, Agreed, book>>
<1>1. CASE Reconnect \/ PollEnds \/ Tick \/ PollLoop \/ UNCHANGED vars
  <2>1. UNCHANGED <<page, pending, book>>
    BY <1>1 DEF Reconnect, PollEnds, Tick, PollLoop, vars, server
  <2>2. QED  BY <2>1 DEF Shown, Agreed
<1>2. CASE Answers  BY <1>2, OtherAnswersGate, ValidateAnswerGate, ImportGate DEF Answers
<1>3. QED
  BY <1>1, <1>2, OpenPageGate, DialogGate, StatusGate, RefreshGate DEF Next

\* The station implements the trust gate: whatever the requests, answers, page
\* loads and children do, the store comes to trust a card only through the import
\* of a card that the operator confirmed while its preview was on the page
\* (handleConfirmImport and the server's import route).
THEOREM StationImplementsGate == Spec => GateSpec
<1>1. Init => Gate!Init
  BY StationAssumption DEF Init, FreshPage, Shown, Agreed, Gate!Init
<1>2. Init => DialogOK(page, pending)  BY DialogInitially
<1>3. CoreTyped /\ DialogOK(page, pending) /\ [Next]_vars => DialogOK(page, pending)'
  BY DialogStep DEF DialogOK
<1>4. CoreTyped /\ DialogOK(page, pending) /\ [Next]_vars => [Gate!Next]_<<Shown, Agreed, book>>
  BY GateStep
<1>5. TypeInv => CoreTyped  BY DEF TypeInv
<1>6. QED  BY <1>1, <1>2, <1>3, <1>4, <1>5, StationTyped, PTL DEF Spec, GateSpec, Gate!Spec

-----------------------------------------------------------------------------
(* What the page waits for is on its way.                                  *)

\* A request whose answer ends a wait of the page.
WaitedFor(q) ==
    \/ q.kind \in {"validate", "import", "send", "export"} /\ q.current
    \/ q.kind = "history" /\ q.stage = "sent"

Has(ps, kinds) == \E q \in ps : q.kind \in kinds /\ WaitedFor(q)

Waits(p, ps, st) ==
    /\ p.validating => Has(ps, {"validate"})
    /\ p.importing => Has(ps, {"import"}) \/ \E s \in Slot : st[s].imported
    /\ p.sending => Has(ps, {"send", "history"})
    /\ p.exporting /\ p.loading => Has(ps, {"export"})

\* An import waits only for a status that is asked or answered.
IdleEndsNothing(st) == \A s \in Slot : st[s].state \in {"idle", "orphan"} => ~st[s].imported

\* The requests of these kinds that are waited for are still there, perhaps further.
Kept(ps, vs, kinds) == \A q \in ps : q.kind \in kinds /\ WaitedFor(q) => Has(vs, {q.kind})

Waited == {"validate", "import", "send", "history", "export"}

\* A wait that goes on keeps its request.
LEMMA WaitsFrame ==
  ASSUME NEW p, NEW ps, NEW st, Waits(p, ps, st), NEW v, NEW vs, NEW tt,
         v.validating => p.validating /\ Kept(ps, vs, {"validate"}),
         v.importing => p.importing /\ Kept(ps, vs, {"import"}),
         v.sending => p.sending /\ Kept(ps, vs, {"send", "history"}),
         v.exporting /\ v.loading => p.exporting /\ p.loading /\ Kept(ps, vs, {"export"}),
         (\E s \in Slot : st[s].imported) => \E s \in Slot : tt[s].imported
  PROVE  Waits(v, vs, tt)
<1>1. \A kind : Has(ps, {kind}) /\ Kept(ps, vs, {kind}) => Has(vs, {kind})  BY DEF Has, Kept
<1>2. Has(ps, {"send", "history"}) /\ Kept(ps, vs, {"send", "history"}) => Has(vs, {"send", "history"})
  BY DEF Has, Kept
<1>3. v.validating => Has(vs, {"validate"})  BY <1>1 DEF Waits
<1>4. v.importing => Has(vs, {"import"}) \/ \E s \in Slot : tt[s].imported  BY <1>1 DEF Waits
<1>5. v.sending => Has(vs, {"send", "history"})  BY <1>2 DEF Waits
<1>6. v.exporting /\ v.loading => Has(vs, {"export"})  BY <1>1 DEF Waits
<1>7. QED  BY <1>3, <1>4, <1>5, <1>6 DEF Waits

LEMMA KeptSubset ==
  ASSUME NEW ps, NEW vs, NEW kinds, \A q \in ps : q.kind \in kinds /\ WaitedFor(q) => q \in vs
  PROVE  Kept(ps, vs, kinds)
BY DEF Kept, Has

LEMMA KeptPart ==
  ASSUME NEW ps, NEW vs, NEW kinds, NEW some \in SUBSET kinds, Kept(ps, vs, kinds)
  PROVE  Kept(ps, vs, some)
BY DEF Kept

LEMMA KeptByOutdate ==
  ASSUME NEW ps, ps \subseteq Request, NEW kinds, NEW others, kinds \cap others = {}
  PROVE  Kept(ps, Outdate(ps, kinds), others)
<1>1. \A q \in ps : q.kind \in others => q \in Outdate(ps, kinds)  BY OutdateKeeps
<1>2. QED  BY <1>1, KeptSubset

LEMMA KeptByAsk ==
  ASSUME NEW ps, NEW vs, NEW kinds, Kept(ps, vs, kinds), NEW kind, NEW card
  PROVE  Kept(ps, Ask(vs, kind, card), kinds)
BY AskKeeps DEF Kept, Has

LEMMA KeptByLoadHistory ==
  ASSUME NEW ps, ps \subseteq Request, NEW card, NEW kinds
  PROVE  Kept(ps, LoadHistory(ps, card), kinds)
<1> SUFFICES ASSUME NEW q \in ps, WaitedFor(q) PROVE Has(LoadHistory(ps, card), {q.kind})
  BY DEF Kept
<1>1. CASE q.kind # "history"
  <2>1. q \in LoadHistory(ps, card)  BY <1>1, LoadHistoryKeeps
  <2>2. QED  BY <2>1 DEF Has
<1>2. CASE q.kind = "history"
  <2>1. q.stage = "sent"  BY <1>2 DEF WaitedFor
  <2>2. PICK o \in LoadHistory(ps, card) : o.kind = "history" /\ o.stage = "sent"
    BY <1>2, <2>1, LoadHistoryKeeps
  <2>3. QED  BY <1>2, <2>2 DEF Has, WaitedFor
<1>3. QED  BY <1>1, <1>2

LEMMA AskedIsWaitedFor ==
  ASSUME NEW ps, NEW kind \in {"validate", "import", "send", "export"}, NEW card
  PROVE  Has(Ask(ps, kind, card), {kind})
BY AskKeeps DEF Has, WaitedFor

\* A request that only gets further is still waited for.
LEMMA KeptByStage ==
  ASSUME NEW ps, ps \subseteq Request, NEW q \in ps, q.kind # "history",
         NEW stage \in {"asked", "done", "failed", "sent"}, NEW kinds
  PROVE  Kept(ps, (ps \ {q}) \cup {[q EXCEPT !.stage = stage]}, kinds)
<1>1. PICK r : r = [q EXCEPT !.stage = stage]  OBVIOUS
<1>2. r.kind = q.kind /\ r.current = q.current  BY <1>1, StagedRequest
<1>3. PICK vs : vs = (ps \ {q}) \cup {r}  OBVIOUS
<1>4. WaitedFor(q) => Has(vs, {q.kind})  BY <1>2, <1>3 DEF Has, WaitedFor
<1>5. \A o \in ps : o # q => o \in vs  BY <1>3
<1>6. Kept(ps, vs, kinds)  BY <1>4, <1>5 DEF Kept, Has
<1>7. QED  BY <1>1, <1>3, <1>6

\* Nobody waited for an answer that goes away.
LEMMA KeptWithout ==
  ASSUME NEW ps, NEW q, NEW kinds, q.kind \in kinds => ~WaitedFor(q)
  PROVE  Kept(ps, ps \ {q}, kinds)
BY DEF Kept, Has

LEMMA EditWaits ==
  ASSUME PageTyped, Waits(page, pending, status),
         \/ \E text \in Card \cup {Blank} : HandleImportTextChange(text) \/ HandleImportFile(text)
         \/ CloseImportModal
  PROVE  Waits(page', pending', status')
<1>1. page \in Page /\ pending \subseteq Request  BY DEF PageTyped
<1>2. status' = status  BY DEF HandleImportTextChange, HandleImportFile, CloseImportModal
<1>3. /\ page'.validating = FALSE /\ page'.importing = page.importing
      /\ page'.sending = page.sending /\ page'.exporting = page.exporting /\ page'.loading = page.loading
  <2>1. CASE \E text \in Card \cup {Blank} : HandleImportTextChange(text)
    <3>1. PICK text \in Card \cup {Blank} : page' = ResetImportPreparation([page EXCEPT !.text = text])
      BY <2>1 DEF HandleImportTextChange
    <3>2. PICK p : p = [page EXCEPT !.text = text]  OBVIOUS
    <3>3. /\ p \in Page /\ p.importing = page.importing /\ p.sending = page.sending
          /\ p.exporting = page.exporting /\ p.loading = page.loading
      BY <1>1, <3>2 DEF Page
    <3>4. page' = ResetImportPreparation(p)  BY <3>1, <3>2
    <3>5. QED  BY <3>3, <3>4, ResetTyped
  <2>2. CASE page' = ResetImportPreparation(page)  BY <1>1, <2>2, ResetTyped
  <2>3. QED  BY <2>1, <2>2 DEF HandleImportFile, CloseImportModal
<1>4. Kept(pending, pending', {"import", "send", "history", "export"})
  <2>1. Kept(pending, Outdate(pending, Preparation), {"import", "send", "history", "export"})
    BY <1>1, KeptByOutdate DEF Preparation
  <2>2. \/ pending' = Outdate(pending, Preparation)
        \/ \E card : pending' = Ask(Outdate(pending, Preparation), "file", card)
    BY DEF HandleImportTextChange, HandleImportFile, CloseImportModal
  <2>3. QED  BY <2>1, <2>2, KeptByAsk
<1>5. QED  BY <1>2, <1>3, <1>4, KeptPart, WaitsFrame

LEMMA ValidateWaits ==
  ASSUME PageTyped, Waits(page, pending, status), HandleValidateImport
  PROVE  Waits(page', pending', status')
<1>1. page \in Page /\ pending \subseteq Request /\ status' = status
  BY DEF PageTyped, HandleValidateImport
<1> DEFINE asks == ParseContactCard(page.text) /\ ~IsDuplicateContact(page.text)
<1>2. asks \in BOOLEAN  OBVIOUS
<1>3. /\ page' = [page EXCEPT !.preview = None, !.validated = None, !.validating = asks]
      /\ pending' = IF asks THEN Ask(Outdate(pending, Preparation), "validate", page.text)
                    ELSE Outdate(pending, Preparation)
  BY DEF HandleValidateImport
<1> HIDE DEF asks
<1>4. /\ page'.validating = asks /\ page'.importing = page.importing
      /\ page'.sending = page.sending /\ page'.exporting = page.exporting /\ page'.loading = page.loading
  BY <1>1, <1>2, <1>3 DEF Page
<1>5. PICK v : v = [page' EXCEPT !.validating = FALSE]  OBVIOUS
<1>6. /\ v.validating = FALSE /\ v.importing = page.importing
      /\ v.sending = page.sending /\ v.exporting = page.exporting /\ v.loading = page.loading
  BY <1>1, <1>2, <1>3, <1>5 DEF Page
<1>7. Kept(pending, pending', {"import", "send", "history", "export"})
  <2>1. Kept(pending, Outdate(pending, Preparation), {"import", "send", "history", "export"})
    BY <1>1, KeptByOutdate DEF Preparation
  <2>2. QED  BY <1>3, <2>1, KeptByAsk
<1>8. Waits(v, pending', status')  BY <1>1, <1>6, <1>7, KeptPart, WaitsFrame
<1>9. asks => Has(pending', {"validate"})  BY <1>3, AskedIsWaitedFor
<1>10. QED  BY <1>4, <1>6, <1>8, <1>9 DEF Waits

\* The gestures that start a wait, or give one up.
LEMMA GesturesWait ==
  ASSUME PageTyped, Waits(page, pending, status),
         HandleConfirmImport \/ HandleExportCard \/ CloseExportModal \/ HandleSend
  PROVE  Waits(page', pending', status')
<1>1. page \in Page /\ pending \subseteq Request /\ status' = status
  BY DEF PageTyped, HandleConfirmImport, HandleExportCard, CloseExportModal, HandleSend
<1>2. Kept(pending, pending, Waited)  BY KeptSubset
<1>3. Kept(pending, Outdate(pending, {"export"}), {"validate", "import", "send", "history"})
  BY <1>1, KeptByOutdate
<1>4. CASE HandleConfirmImport
  <2>1. /\ page'.validating = page.validating
        /\ page'.sending = page.sending /\ page'.exporting = page.exporting /\ page'.loading = page.loading
    BY <1>1, <1>4 DEF HandleConfirmImport, Page
  <2>2. pending' = Ask(pending, "import", page.validated)  BY <1>4 DEF HandleConfirmImport
  <2>3. Kept(pending, pending', Waited)  BY <1>2, <2>2, KeptByAsk
  <2>4. Has(pending', {"import"})  BY <2>2, AskedIsWaitedFor
  <2>5. QED  BY <1>1, <2>1, <2>3, <2>4 DEF Waits, Kept, Has, Waited
<1>5. CASE HandleSend
  <2>1. /\ page'.validating = page.validating /\ page'.importing = page.importing
        /\ page'.exporting = page.exporting /\ page'.loading = page.loading
    BY <1>1, <1>5 DEF HandleSend, Page
  <2>2. pending' = Ask(pending, "send", page.selected)  BY <1>5 DEF HandleSend
  <2>3. Kept(pending, pending', Waited)  BY <1>2, <2>2, KeptByAsk
  <2>4. Has(pending', {"send"})  BY <2>2, AskedIsWaitedFor
  <2>5. QED  BY <1>1, <2>1, <2>3, <2>4 DEF Waits, Kept, Has, Waited
<1>6. CASE HandleExportCard
  <2>1. /\ page'.validating = page.validating /\ page'.importing = page.importing
        /\ page'.sending = page.sending
    BY <1>1, <1>6 DEF HandleExportCard, Page
  <2>2. pending' = Ask(Outdate(pending, {"export"}), "export", None)  BY <1>6 DEF HandleExportCard
  <2>3. Kept(pending, pending', {"validate", "import", "send", "history"})
    BY <1>3, <2>2, KeptByAsk
  <2>4. Has(pending', {"export"})  BY <2>2, AskedIsWaitedFor
  <2>5. QED  BY <1>1, <2>1, <2>3, <2>4 DEF Waits, Kept, Has
<1>7. CASE CloseExportModal
  <2>1. /\ page'.validating = page.validating /\ page'.importing = page.importing
        /\ page'.sending = page.sending /\ page'.exporting = FALSE
    BY <1>1, <1>7 DEF CloseExportModal, Page
  <2>2. Kept(pending, pending', {"validate", "import", "send", "history"})
    BY <1>3, <1>7 DEF CloseExportModal
  <2>3. QED  BY <1>1, <2>1, <2>2, KeptPart, WaitsFrame
<1>8. QED  BY <1>4, <1>5, <1>6, <1>7

\* A status, an event or a selection loads at most a history.
LEMMA StatusWaits ==
  ASSUME CoreTyped, Waits(page, pending, status), IdleEndsNothing(status),
         \/ ReceiveEvent \/ \E s \in Slot : StatusAnswer(s)
         \/ \E c \in Card : SelectContact(c)
  PROVE  Waits(page', pending', status') /\ IdleEndsNothing(status')
<1>1. page \in Page /\ pending \subseteq Request /\ PageTyped /\ status \in [Slot -> Status]
  BY DEF CoreTyped, PageTyped
<1>2. ASSUME pending' = pending \/ \E c : pending' = LoadHistory(pending, c), NEW kinds
      PROVE  Kept(pending, pending', kinds)
  BY <1>1, <1>2, KeptByLoadHistory, KeptSubset
<1>3. CASE ReceiveEvent
  <2>1. PICK e : e = Head(sse)  OBVIOUS
  <2>2. e \in SSE  BY <1>3, <2>1 DEF ReceiveEvent, CoreTyped, StreamTyped
  <2>3. CASE e.event = "status"
    <3>1. ApplyStatus(page, e.payload) /\ status' = status  BY <1>3, <2>1, <2>3 DEF ReceiveEvent
    <3>2. e.payload \in SUBSET Card  BY <2>2 DEF SSE
    <3>3. QED  BY <1>1, <1>2, <3>1, <3>2, ApplyStatusKeeps, WaitsFrame
  <2>4. CASE e.event = "contact_added"
    <3>1. page' = page /\ pending' = pending /\ \E s \in Slot : LoadStatus(s, FALSE)
      BY <1>3, <2>1, <2>4 DEF ReceiveEvent
    <3>2. PICK s \in Slot : LoadStatus(s, FALSE)  BY <3>1
    <3>3. /\ status[s].state = "idle"
          /\ status' = [status EXCEPT ![s] = [state |-> "asked", payload |-> {}, imported |-> FALSE]]
      BY <3>2 DEF LoadStatus
    <3>4. \A t \in Slot : t # s => status'[t] = status[t]  BY <1>1, <3>3
    <3>5. status'[s].state = "asked" /\ ~status[s].imported  BY <1>1, <3>3 DEF IdleEndsNothing
    <3>6. QED  BY <1>2, <3>1, <3>4, <3>5, WaitsFrame DEF IdleEndsNothing
  <2>5. CASE e.event \notin {"status", "contact_added"}
    <3>1. /\ pending' = pending \/ \E c : pending' = LoadHistory(pending, c)
          /\ page' = page /\ status' = status
      BY <1>3, <2>1, <2>5 DEF ReceiveEvent
    <3>2. QED  BY <1>2, <3>1, WaitsFrame
  <2>6. QED  BY <2>3, <2>4, <2>5
<1>4. ASSUME NEW s \in Slot, StatusAnswer(s)
      PROVE  Waits(page', pending', status') /\ IdleEndsNothing(status')
  <2>1. PICK loaded : loaded = [page EXCEPT !.importing = page.importing /\ ~status[s].imported]
    OBVIOUS
  <2>2. (page.importing /\ ~status[s].imported) \in BOOLEAN  OBVIOUS
  <2>3. /\ loaded \in Page /\ loaded.validating = page.validating
        /\ loaded.importing = (page.importing /\ ~status[s].imported)
        /\ loaded.sending = page.sending /\ loaded.exporting = page.exporting
        /\ loaded.loading = page.loading
    BY <1>1, <2>1, <2>2 DEF Page
  <2>4. status[s].payload \in SUBSET Card  BY <1>1 DEF Status
  <2>5. ApplyStatus(loaded, status[s].payload) \/ (page' = loaded /\ UNCHANGED pending)
    BY <1>4, <2>1 DEF StatusAnswer
  <2>6. /\ page'.validating = page.validating
        /\ page'.importing = (page.importing /\ ~status[s].imported)
        /\ page'.sending = page.sending /\ page'.exporting = page.exporting
        /\ page'.loading = page.loading
        /\ pending' = pending \/ \E c : pending' = LoadHistory(pending, c)
    BY <1>1, <2>3, <2>4, <2>5, ApplyStatusKeeps
  <2>7. status' = [status EXCEPT ![s] = IdleStatus]  BY <1>4 DEF StatusAnswer
  <2>8. status'[s] = IdleStatus /\ \A t \in Slot : t # s => status'[t] = status[t]  BY <1>1, <2>7
  <2>9. IdleEndsNothing(status')  BY <2>8, IdleStatusTyped DEF IdleEndsNothing
  <2>10. Kept(pending, pending', {"validate"}) /\ Kept(pending, pending', {"import"})
         /\ Kept(pending, pending', {"send", "history"}) /\ Kept(pending, pending', {"export"})
    BY <1>2, <2>6
  <2>11. CASE status[s].imported
    <3>1. \A kind : Has(pending, {kind}) /\ Kept(pending, pending', {kind}) => Has(pending', {kind})
      BY DEF Has, Kept
    <3>2. Has(pending, {"send", "history"}) => Has(pending', {"send", "history"})
      BY <2>10 DEF Has, Kept
    <3>3. QED  BY <2>6, <2>9, <2>10, <2>11, <3>1, <3>2 DEF Waits
  <2>12. CASE ~status[s].imported
    <3>1. (\E t \in Slot : status[t].imported) => \E t \in Slot : status'[t].imported
      BY <2>8, <2>12
    <3>2. QED  BY <2>6, <2>9, <2>10, <3>1, WaitsFrame
  <2>13. QED  BY <2>9, <2>11, <2>12
<1>5. ASSUME NEW c \in Card, SelectContact(c)
      PROVE  Waits(page', pending', status') /\ IdleEndsNothing(status')
  <2>1. /\ page'.validating = page.validating /\ page'.importing = page.importing
        /\ page'.sending = page.sending /\ page'.exporting = page.exporting
        /\ page'.loading = page.loading
    BY <1>1, <1>5 DEF SelectContact, Page
  <2>2. pending' = LoadHistory(pending, c) /\ status' = status  BY <1>5 DEF SelectContact
  <2>3. QED  BY <1>2, <2>1, <2>2, WaitsFrame
<1>6. QED  BY <1>3, <1>4, <1>5

\* The answers that end a wait, or that nobody waits for.
LEMMA AnswersWait ==
  ASSUME CoreTyped, Waits(page, pending, status), NEW q \in pending,
         HistoryAnswer(q) \/ SendAnswer(q) \/ ExportAnswer(q) \/ FileRead(q)
  PROVE  Waits(page', pending', status') /\ status' = status
<1>1. page \in Page /\ pending \subseteq Request /\ q \in Request
  BY DEF CoreTyped, PageTyped
<1>2. status' = status  BY DEF HistoryAnswer, SendAnswer, ExportAnswer, FileRead
<1>3. (page.sending /\ q.stage # "sent") \in BOOLEAN /\ (page.sending /\ ~q.current) \in BOOLEAN
      /\ (page.loading /\ ~q.current) \in BOOLEAN
  OBVIOUS
<1>4. CASE HistoryAnswer(q)
  <2>1. PICK h, b : /\ page' = [page EXCEPT !.history = h, !.sending = b]
                    /\ b = (page.sending /\ q.stage # "sent")
    BY <1>4 DEF HistoryAnswer
  <2>2. /\ page'.sending = (page.sending /\ q.stage # "sent")
        /\ page'.validating = page.validating /\ page'.importing = page.importing
        /\ page'.exporting = page.exporting /\ page'.loading = page.loading
    BY <1>1, <2>1 DEF Page
  <2>3. pending' = pending \ {q} /\ q.kind = "history"  BY <1>4 DEF HistoryAnswer
  <2>4. \A kinds : "history" \notin kinds => Kept(pending, pending', kinds)  BY <2>3, KeptWithout
  <2>5. q.stage # "sent" => Kept(pending, pending', {"send", "history"})
    BY <2>3, KeptWithout DEF WaitedFor
  <2>6. QED  BY <1>2, <2>2, <2>4, <2>5, WaitsFrame
<1>5. CASE SendAnswer(q)
  <2>1. q.kind = "send"  BY <1>5 DEF SendAnswer
  <2>2. ASSUME page' = page, q.current,
               pending' = {o \in pending : o # q /\ o.kind # "history"}
                            \cup {[kind |-> "history", card |-> q.card, current |-> TRUE, stage |-> "sent"]}
        PROVE  Waits(page', pending', status')
    <3>1. PICK h : h = [kind |-> "history", card |-> q.card, current |-> TRUE, stage |-> "sent"]
      OBVIOUS
    <3>2. h.kind = "history" /\ WaitedFor(h)  BY <3>1 DEF WaitedFor
    <3>3. pending' = {o \in pending : o # q /\ o.kind # "history"} \cup {h}  BY <2>2, <3>1
    <3>4. Has(pending', {"send", "history"})  BY <3>2, <3>3 DEF Has
    <3>5. \A o \in pending : o.kind \in {"validate", "import", "export"} => o \in pending'
      BY <2>1, <3>3
    <3>6. Kept(pending, pending', {"validate", "import", "export"})  BY <3>5, KeptSubset
    <3>7. QED  BY <1>2, <2>2, <3>4, <3>6 DEF Waits, Kept, Has
  <2>3. ASSUME page' = page, ~q.current, pending' = pending \ {q}
        PROVE  Waits(page', pending', status')
    <3>1. \A kinds : Kept(pending, pending', kinds)  BY <2>1, <2>3, KeptWithout DEF WaitedFor
    <3>2. QED  BY <1>2, <2>3, <3>1, WaitsFrame
  <2>4. ASSUME page' = [page EXCEPT !.sending = page.sending /\ ~q.current], pending' = pending \ {q}
        PROVE  Waits(page', pending', status')
    <3>1. /\ page'.sending = (page.sending /\ ~q.current)
          /\ page'.validating = page.validating /\ page'.importing = page.importing
          /\ page'.exporting = page.exporting /\ page'.loading = page.loading
      BY <1>1, <1>3, <2>4 DEF Page
    <3>2. \A kinds : "send" \notin kinds \/ ~q.current => Kept(pending, pending', kinds)
      BY <2>1, <2>4, KeptWithout DEF WaitedFor
    <3>3. QED  BY <1>2, <3>1, <3>2, WaitsFrame
  <2>5. QED  BY <1>2, <1>5, <2>2, <2>3, <2>4 DEF SendAnswer
<1>6. CASE ExportAnswer(q)
  <2>1. page' = [page EXCEPT !.loading = page.loading /\ ~q.current]  BY <1>6 DEF ExportAnswer
  <2>2. /\ page'.loading = (page.loading /\ ~q.current)
        /\ page'.validating = page.validating /\ page'.importing = page.importing
        /\ page'.exporting = page.exporting /\ page'.sending = page.sending
    BY <1>1, <1>3, <2>1 DEF Page
  <2>3. pending' = pending \ {q} /\ q.kind = "export"  BY <1>6 DEF ExportAnswer
  <2>4. \A kinds : "export" \notin kinds \/ ~q.current => Kept(pending, pending', kinds)
    BY <2>3, KeptWithout DEF WaitedFor
  <2>5. QED  BY <1>2, <2>2, <2>4, WaitsFrame
<1>7. CASE FileRead(q)
  <2>1. pending' = pending \ {q} /\ q.kind = "file"  BY <1>7 DEF FileRead
  <2>2. \A kinds : Kept(pending, pending', kinds)  BY <2>1, KeptWithout DEF WaitedFor
  <2>3. /\ page'.validating = page.validating /\ page'.importing = page.importing
        /\ page'.sending = page.sending
        /\ page'.exporting = page.exporting /\ page'.loading = page.loading
    BY <1>1, <1>7 DEF FileRead, Page
  <2>4. QED  BY <1>2, <2>2, <2>3, WaitsFrame
<1>8. QED  BY <1>2, <1>4, <1>5, <1>6, <1>7

LEMMA ValidationWaits ==
  ASSUME CoreTyped, Waits(page, pending, status), NEW q \in pending,
         ValidateContact(q) \/ ValidateAnswer(q)
  PROVE  Waits(page', pending', status') /\ status' = status
<1>1. /\ page \in Page /\ pending \subseteq Request /\ q \in Request
      /\ status' = status /\ q.kind = "validate"
  BY DEF CoreTyped, PageTyped, ValidateContact, ValidateAnswer
<1>2. CASE ValidateContact(q)
  <2>1. PICK stage \in Outcome : pending' = (pending \ {q}) \cup {[q EXCEPT !.stage = stage]}
    BY <1>2 DEF ValidateContact
  <2>2. \A kinds : Kept(pending, pending', kinds)  BY <1>1, <2>1, KeptByStage DEF Outcome
  <2>3. QED  BY <1>1, <1>2, <2>2, WaitsFrame DEF ValidateContact
<1>3. CASE ValidateAnswer(q)
  <2>1. /\ page'.validating = (page.validating /\ ~q.current) /\ page'.importing = page.importing
        /\ page'.sending = page.sending
        /\ page'.exporting = page.exporting /\ page'.loading = page.loading
    BY <1>1, <1>3 DEF ValidateAnswer, Page
  <2>2. pending' = pending \ {q}  BY <1>3 DEF ValidateAnswer
  <2>3. \A kinds : "validate" \notin kinds \/ ~q.current => Kept(pending, pending', kinds)
    BY <1>1, <2>2, KeptWithout DEF WaitedFor
  <2>4. QED  BY <1>1, <2>1, <2>3, WaitsFrame
<1>4. QED  BY <1>2, <1>3

\* An import that succeeded hands its wait to the status it asks for.
LEMMA ImportWaits ==
  ASSUME CoreTyped, Waits(page, pending, status), IdleEndsNothing(status), NEW q \in pending,
         ImportContact(q) \/ ImportReported(q) \/ ImportAnswer(q)
  PROVE  Waits(page', pending', status') /\ IdleEndsNothing(status')
<1>1. /\ page \in Page /\ pending \subseteq Request /\ q \in Request
      /\ q.kind = "import" /\ status \in [Slot -> Status]
  BY DEF CoreTyped, PageTyped, ImportContact, ImportReported, ImportAnswer
<1>2. CASE ImportContact(q)  BY <1>2 DEF ImportContact
<1>3. CASE ImportReported(q)
  <2>1. PICK stage \in {"sent", "failed"} : pending' = (pending \ {q}) \cup {[q EXCEPT !.stage = stage]}
    BY <1>3 DEF ImportReported
  <2>2. \A kinds : Kept(pending, pending', kinds)  BY <1>1, <2>1, KeptByStage
  <2>3. QED  BY <1>1, <1>3, <2>2, WaitsFrame DEF ImportReported
<1>4. CASE ImportAnswer(q) /\ (q.stage = "failed" \/ ~q.current)
  <2>1. /\ pending' = pending \ {q} /\ status' = status
        /\ page' = IF q.current THEN [page EXCEPT !.importing = FALSE] ELSE page
    BY <1>4 DEF ImportAnswer
  <2>2. /\ page'.validating = page.validating /\ page'.importing = (page.importing /\ ~q.current)
        /\ page'.sending = page.sending
        /\ page'.exporting = page.exporting /\ page'.loading = page.loading
    BY <1>1, <2>1 DEF Page
  <2>3. \A kinds : "import" \notin kinds \/ ~q.current => Kept(pending, pending', kinds)
    BY <1>1, <2>1, KeptWithout DEF WaitedFor
  <2>4. QED  BY <2>1, <2>2, <2>3, WaitsFrame
<1>5. CASE ImportAnswer(q) /\ ~(q.stage = "failed" \/ ~q.current)
  <2>1. /\ page' = [ResetImportPreparation(page) EXCEPT !.text = Blank]
        /\ pending' = Outdate(pending \ {q}, Preparation)
        /\ \E s \in Slot : LoadStatus(s, TRUE)
    BY <1>5 DEF ImportAnswer
  <2>2. PICK p : p = ResetImportPreparation(page)  OBVIOUS
  <2>3. /\ p \in Page /\ p.validating = FALSE /\ p.sending = page.sending
        /\ p.exporting = page.exporting /\ p.loading = page.loading
    BY <1>1, <2>2, ResetTyped
  <2>4. page' = [p EXCEPT !.text = Blank]  BY <2>1, <2>2
  <2>5. /\ page'.validating = FALSE /\ page'.sending = page.sending
        /\ page'.exporting = page.exporting /\ page'.loading = page.loading
    BY <2>3, <2>4 DEF Page
  <2>6. PICK s \in Slot :
          status' = [status EXCEPT ![s] = [state |-> "asked", payload |-> {}, imported |-> TRUE]]
    BY <2>1 DEF LoadStatus
  <2>7. /\ status'[s].state = "asked" /\ status'[s].imported
        /\ \A t \in Slot : t # s => status'[t] = status[t]
    BY <1>1, <2>6
  <2>8. Kept(pending, pending', {"send", "history", "export"})
    <3>1. \A o \in pending : o.kind \in {"send", "history", "export"} => o \in pending'
      BY <1>1, <2>1, OutdateKeeps DEF Preparation
    <3>2. QED  BY <3>1, KeptSubset
  <2>9. Waits(page', pending', status')  BY <2>5, <2>7, <2>8 DEF Waits, Kept, Has
  <2>10. QED  BY <2>7, <2>9 DEF IdleEndsNothing
<1>6. QED  BY <1>2, <1>3, <1>4, <1>5

LEMMA RefreshWaits ==
  ASSUME CoreTyped, Waits(page, pending, status), IdleEndsNothing(status),
         NEW r \in refreshes, RefreshEnds(r)
  PROVE  Waits(page', pending', status') /\ IdleEndsNothing(status')
<1>1. page' = page /\ Continue(r)  BY DEF RefreshEnds
<1>2. pending \subseteq Request /\ status \in [Slot -> Status]  BY DEF CoreTyped, PageTyped
<1>3. CASE UNCHANGED <<status, pending>>  BY <1>1, <1>3
<1>4. CASE /\ status' = status
           /\ pending' = {IF q.kind = "import" /\ q.stage = "sent" /\ q.card = r.task
                          THEN [q EXCEPT !.stage = "done"] ELSE q : q \in pending}
  <2>1. ASSUME NEW q \in pending, WaitedFor(q) PROVE Has(pending', {q.kind})
    <3>1. PICK n : n = IF q.kind = "import" /\ q.stage = "sent" /\ q.card = r.task
                       THEN [q EXCEPT !.stage = "done"] ELSE q
      OBVIOUS
    <3>2. n \in pending'  BY <1>4, <3>1
    <3>3. n.kind = q.kind /\ (n = q \/ (q.kind = "import" /\ n.current = q.current))
      BY <1>2, <3>1, StagedRequest
    <3>4. QED  BY <2>1, <3>2, <3>3 DEF Has, WaitedFor
  <2>2. \A kinds : Kept(pending, pending', kinds)  BY <2>1 DEF Kept
  <2>3. QED  BY <1>1, <1>4, <2>2, WaitsFrame
<1>5. CASE /\ r.task \in Slot /\ pending' = pending
           /\ status' = [status EXCEPT ![r.task] =
                           IF status[r.task].state = "orphan" THEN IdleStatus
                           ELSE [status[r.task] EXCEPT !.state = "answered", !.payload = Reported]]
  <2>1. PICK s : s = r.task  OBVIOUS
  <2>2. PICK n : n = IF status[s].state = "orphan" THEN IdleStatus
                     ELSE [status[s] EXCEPT !.state = "answered", !.payload = Reported]
    OBVIOUS
  <2>3. status'[s] = n /\ \A t \in Slot : t # s => status'[t] = status[t]
    BY <1>2, <1>5, <2>1, <2>2
  <2>4. s \in Slot /\ status[s] \in Status  BY <1>2, <1>5, <2>1
  <2>5. status[s].state = "orphan" => ~status[s].imported /\ ~n.imported
    BY <2>2, <2>4, IdleStatusTyped DEF IdleEndsNothing
  <2>6. status[s].state # "orphan" => n.imported = status[s].imported /\ n.state = "answered"
    BY <2>2, <2>4 DEF Status
  <2>7. \A t \in Slot : status'[t].imported <=> status[t].imported
    BY <2>3, <2>4, <2>5, <2>6
  <2>8. IdleEndsNothing(status')  BY <2>3, <2>4, <2>5, <2>6 DEF IdleEndsNothing
  <2>9. \A kinds : Kept(pending, pending', kinds)  BY <1>5, KeptSubset
  <2>10. QED  BY <1>1, <2>7, <2>8, <2>9, WaitsFrame
<1>6. QED  BY <1>1, <1>3, <1>4, <1>5, ContinueCases

LEMMA OpenPageWaits ==
  ASSUME OpenPage
  PROVE  Waits(page', pending', status') /\ IdleEndsNothing(status')
<1>1. page' = FreshPage  BY DEF OpenPage
<1>2. /\ page'.validating = FALSE /\ page'.importing = FALSE /\ page'.sending = FALSE
      /\ page'.exporting = FALSE
  BY <1>1 DEF FreshPage
<1>3. PICK s \in Slot :
        status' = [t \in Slot |->
                     IF t = s THEN [IdleStatus EXCEPT !.state = "asked"]
                     ELSE IF status[t].state \in {"asked", "orphan"}
                          THEN [IdleStatus EXCEPT !.state = "orphan"]
                     ELSE IdleStatus]
  BY DEF OpenPage
<1>4. PICK a, o : a = [IdleStatus EXCEPT !.state = "asked"] /\ o = [IdleStatus EXCEPT !.state = "orphan"]
  OBVIOUS
<1>5. ~a.imported /\ ~o.imported /\ ~IdleStatus.imported  BY <1>4 DEF IdleStatus
<1>6. \A t \in Slot : status'[t] \in {a, o, IdleStatus}  BY <1>3, <1>4
<1>7. QED  BY <1>2, <1>5, <1>6 DEF Waits, IdleEndsNothing

LEMMA WaitsStep ==
  ASSUME CoreTyped, Waits(page, pending, status), IdleEndsNothing(status), [Next]_vars
  PROVE  Waits(page', pending', status') /\ IdleEndsNothing(status')
<1>1. PageTyped  BY DEF CoreTyped
<1>2. CASE Reconnect \/ PollEnds \/ Tick \/ PollLoop \/ UNCHANGED vars
  BY <1>2 DEF Reconnect, PollEnds, Tick, PollLoop, vars
<1>3. CASE Dialog
  <2>1. status' = status
    BY <1>3 DEF Dialog, HandleImportTextChange, HandleImportFile, HandleValidateImport,
       HandleConfirmImport, CloseImportModal, HandleExportCard, CloseExportModal, HandleSend
  <2>2. QED  BY <1>1, <1>3, <2>1, EditWaits, ValidateWaits, GesturesWait DEF Dialog
<1>4. CASE Answers  BY <1>4, AnswersWait, ValidationWaits, ImportWaits DEF Answers
<1>5. QED  BY <1>2, <1>3, <1>4, OpenPageWaits, StatusWaits, RefreshWaits DEF Next

\* However requests, answers, events and page loads overlap, the page never waits
\* for an answer that is not coming: each disabled dialog or button has a request,
\* or the status its import asked for, on the way.
THEOREM NoWaitWithoutRequest == Spec => []SpinnerHasRequest
<1> DEFINE Inv == Waits(page, pending, status) /\ IdleEndsNothing(status)
<1>1. Init => Inv
  <2> SUFFICES ASSUME Init PROVE Inv  OBVIOUS
  <2>1. \A s \in Slot : ~status[s].imported  BY IdleStatusTyped DEF Init
  <2>2. ~page.validating /\ ~page.importing /\ ~page.sending /\ ~page.exporting
    BY DEF Init, FreshPage
  <2>3. QED  BY <2>1, <2>2 DEF Waits, IdleEndsNothing
<1>2. CoreTyped /\ Inv /\ [Next]_vars => Inv'  BY WaitsStep DEF Waits, IdleEndsNothing, Has
<1>3. Inv => SpinnerHasRequest  BY DEF Waits, Has, WaitedFor, SpinnerHasRequest
<1>4. TypeInv => CoreTyped  BY DEF TypeInv
<1> HIDE DEF Inv
<1>5. QED  BY <1>1, <1>2, <1>3, <1>4, StationTyped, PTL DEF Spec
=============================================================================
