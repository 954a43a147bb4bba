--------------------------- MODULE ConsoleProofs ---------------------------
(***************************************************************************)
(* What is proved of the terminal console for every set of profiles and    *)
(* cards and every bound: its types; that the modal and the input row      *)
(* exclude each other; that it is busy exactly while its one child lives;  *)
(* that a waiting child can be answered; that the roster is trusted; and   *)
(* that it implements the trust gate.  The invariant says what the shell   *)
(* knows of its child in each of its phases; the reducer is described once *)
(* (Quiet, Ran, Answered), and the steps of the keys rest on that.         *)
(***************************************************************************)
EXTENDS Console, FiniteSetTheorems, SequenceTheorems, TLAPS

-----------------------------------------------------------------------------
(* The inductive invariant.                                                *)

\* A child at its prompt that nobody has answered.
Waits(ch) == ch.phase = "prompt" /\ ch.answer = "none"

IsImport(ch) == ch.request.command = "contact import" /\ ch.request.card \in Card

\* What the shell knows of its child.
ChildOK(ch) ==
    /\ ch.phase = "started" => ch.answer = "none" /\ awaiting = None
    /\ ch.phase = "prompt" => IsImport(ch)
    /\ (ch.phase = "committed" /\ ch.request.command = "contact import") =>
           ch.answer = "yes" /\ ch.request.card \in store[ch.request.profile].trusted
    /\ ch.answer = "yes" =>
           IsImport(ch) /\ confirmed # None /\ confirmed.card = ch.request.card
    /\ IF Waits(ch)
       THEN /\ awaiting = ch.id
            /\ cur.modal # None
            /\ cur.modal.profile = ch.request.profile
            /\ cur.modal.card = ch.request.card
       ELSE cur.modal = None

OneChild ==
    \/ children = {} /\ ~cur.busy /\ awaiting = None
    \/ \E ch \in Child : children = {ch} /\ cur.busy /\ ChildOK(ch)

\* An input row is open only in an idle console without a modal.
RowAlone == cur.input # None => cur.modal = None /\ ~cur.busy

IInv == TypeOK /\ OneChild /\ RowAlone /\ RosterTrusted

-----------------------------------------------------------------------------
(* Keys.                                                                   *)

LEMMA Profiles == Cardinality(Profile) \in Nat /\ Cardinality(Profile) >= 1 /\ 1 \in Profile
<1>1. Cardinality(Profile) \in Nat  BY ConsoleAssumption, FS_CardinalityType
<1>2. QED  BY <1>1, ConsoleAssumption

LEMMA RequestTyped ==
  ASSUME NEW p \in Profile
  PROVE  /\ \A c \in Command : Request(c, p) \in CliRequest
         /\ \A from \in Card \cup {Filled} : ImportRequest(p, from) \in CliRequest
BY DEF Request, ImportRequest, CliRequest, Command

LEMMA StateFields ==
  ASSUME NEW st \in OperatorState
  PROVE  /\ st.profiles \in [Profile -> ProfileView] /\ st.active \in Profile
         /\ st.contacts \in Seq(Card) /\ st.selected \in Card \cup {None} /\ st.pane \in Pane
         /\ st.modal \in Modal \cup {None} /\ st.busy \in BOOLEAN /\ st.input \in Row \cup {None}
BY DEF OperatorState

LEMMA RunIntentKind ==
  ASSUME NEW r
  PROVE  RunIntent(r).kind = "run" /\ RunIntent(r).request = r
BY DEF RunIntent

LEMMA OpenIntentKind ==
  ASSUME NEW f
  PROVE  OpenIntent(f).kind = "input-open" /\ OpenIntent(f).field = f
BY DEF OpenIntent

\* What a key outside a modal and an input row may mean.
Plain(i) ==
    \/ i.kind = "run" /\ i.request \in CliRequest
    \/ i.kind = "input-open" /\ i.field \in InputField
    \/ i.kind = "select-contact" /\ i.card \in Card
    \/ i.kind = "select-profile" /\ i.index \in Profile
    \/ i.kind = "select-pane" /\ i.pane \in Pane
    \/ i.kind \in {"quit", "toggle-help"}

LEMMA PlainRun ==
  ASSUME NEW r \in CliRequest
  PROVE  Plain(RunIntent(r))
BY RunIntentKind DEF Plain

LEMMA PlainOpen ==
  ASSUME NEW f \in InputField
  PROVE  Plain(OpenIntent(f))
BY OpenIntentKind DEF Plain

LEMMA OneOfFive ==
  ASSUME NEW s \in 1 .. 5, NEW a, NEW b, NEW c, NEW d, NEW e
  PROVE  (CASE s = 1 -> a [] s = 2 -> b [] s = 3 -> c [] s = 4 -> d [] s = 5 -> e)
            \in {a, b, c, d, e}
OBVIOUS

LEMMA SetupIntents ==
  ASSUME NEW view, NEW p \in Profile, NEW i \in SetupStepIntent(view, p)
  PROVE  Plain(i)
<1>1. PICK first : first = IF view.relayUrl THEN RunIntent(Request("init", p))
                                            ELSE OpenIntent("relay-url")
  OBVIOUS
<1>2. PICK s \in NextSetupStep(view, p) :
          i = CASE s = 1 -> first
                [] s = 2 -> RunIntent(Request("relay publish", p))
                [] s = 3 -> OpenIntent("export-path")
                [] s = 4 -> OpenIntent("card-path")
                [] s = 5 -> RunIntent(Request("doctor", p))
  BY <1>1 DEF SetupStepIntent
<1>3. s \in 1 .. 5  BY DEF NextSetupStep
<1>4. i \in {first, RunIntent(Request("relay publish", p)), OpenIntent("export-path"),
             OpenIntent("card-path"), RunIntent(Request("doctor", p))}
  BY <1>2, <1>3, OneOfFive
<1>5. /\ \A c \in {"init", "relay publish", "doctor"} : Plain(RunIntent(Request(c, p)))
      /\ \A f \in {"relay-url", "export-path", "card-path"} : Plain(OpenIntent(f))
  BY RequestTyped, PlainRun, PlainOpen DEF Command, InputField
<1>6. Plain(first)  BY <1>1, <1>5
<1>7. QED  BY <1>4, <1>5, <1>6

LEMMA NextContactTyped ==
  ASSUME NEW st \in OperatorState
  PROVE  NextContact(st) \subseteq Card
<1>1. st.contacts \in Seq(Card)  BY StateFields
<1>2. PICK n : n = Len(st.contacts)  OBVIOUS
<1>3. PICK at : at = {i \in 1 .. n : st.contacts[i] = st.selected}  OBVIOUS
<1>4. PICK k : k = IF at = {} THEN 0 ELSE CHOOSE i \in at : TRUE  OBVIOUS
<1>5. n \in Nat /\ k \in Nat  BY <1>1, <1>2, <1>3, <1>4
<1>6. NextContact(st) = IF n = 0 THEN {} ELSE {st.contacts[(k % n) + 1]}
  BY <1>2, <1>3, <1>4 DEF NextContact
<1>7. CASE n # 0
  <2>1. (k % n) + 1 \in 1 .. n  BY <1>5, <1>7
  <2>2. QED  BY <1>1, <1>2, <1>6, <1>7, <2>1
<1>8. QED  BY <1>6, <1>7

LEMMA PaneIntents ==
  ASSUME NEW st \in OperatorState, NEW i \in PaneKeyIntent(st)
  PROVE  Plain(i)
<1>1. st.active \in Profile /\ LaunchCard[st.active] \in Card \cup {None}
  BY StateFields, ConsoleAssumption
<1>2. CASE \E c \in {"poll", "doctor", "relay publish", "history"} :
              i = RunIntent(Request(c, st.active))
  BY <1>1, <1>2, RequestTyped, PlainRun DEF Command
<1>3. CASE LaunchCard[st.active] # None /\ i = RunIntent(ImportRequest(st.active, LaunchCard[st.active]))
  BY <1>1, <1>3, RequestTyped, PlainRun
<1>4. CASE i = OpenIntent("message")  BY <1>4, PlainOpen DEF InputField
<1>5. CASE i \in SetupStepIntent(st.profiles[st.active], st.active)  BY <1>1, <1>5, SetupIntents
<1>6. CASE i \in {[kind |-> "select-contact", card |-> c] : c \in NextContact(st)}
  BY <1>6, NextContactTyped DEF Plain
<1>7. CASE i = [kind |-> "select-profile", index |-> (st.active % Cardinality(Profile)) + 1]
  <2>1. (st.active % Cardinality(Profile)) + 1 \in 1 .. Cardinality(Profile)
    <3>1. PICK n : n = Cardinality(Profile)  OBVIOUS
    <3>2. n \in Nat /\ n >= 1 /\ st.active \in 1 .. n
      BY <1>1, <3>1, Profiles, ConsoleAssumption
    <3>3. (st.active % n) + 1 \in 1 .. n  BY <3>2
    <3>4. QED  BY <3>1, <3>3
  <2>2. QED  BY <1>7, <2>1, ConsoleAssumption DEF Plain
<1>8. QED  BY <1>2, <1>3, <1>4, <1>5, <1>6, <1>7 DEF PaneKeyIntent, When

LEMMA KeyIntents ==
  ASSUME NEW st \in OperatorState, NEW i \in MapKey(st)
  PROVE  \/ st.modal # None /\ i.kind \in {"quit", "trust-confirm", "trust-cancel"}
         \/ /\ st.modal = None /\ st.input # None
            /\ \/ i.kind \in {"quit", "input-cancel", "input-submit"}
               \/ i.kind = "input-edit" /\ i.buffer \in Buffer
         \/ st.modal = None /\ st.input = None /\ Plain(i)
<1>1. CASE st.modal # None  BY <1>1 DEF MapKey, ModalIntent, Kind
<1>2. CASE st.modal = None /\ st.input # None
  <2>1. i \in InputKey(st.input.field)  BY <1>2 DEF MapKey
  <2>2. QED  BY <1>2, <2>1 DEF InputKey, Kind, Buffer
<1>3. CASE st.modal = None /\ st.input = None
  <2>1. CASE i \in PaneKeyIntent(st)  BY <1>3, <2>1, PaneIntents
  <2>2. CASE i \in {Kind("quit"), Kind("toggle-help")}  BY <1>3, <2>2 DEF Kind, Plain
  <2>3. CASE i \in {[kind |-> "select-pane", pane |-> pane] : pane \in Pane}
    BY <1>3, <2>3 DEF Plain
  <2>4. QED  BY <1>3, <2>1, <2>2, <2>3 DEF MapKey
<1>4. QED  BY <1>1, <1>2, <1>3

-----------------------------------------------------------------------------
(* The reducer.                                                            *)

\* A step that changes neither the modal nor the command in flight.
Quiet(st, n, effect) ==
    /\ n \in OperatorState
    /\ n.busy = st.busy /\ n.modal = st.modal /\ n.contacts = st.contacts
    /\ n.input # None => st.modal = None /\ ~st.busy
    /\ effect.kind \in {"none", "quit"}

\* A step of an idle console that begins a command.
Ran(st, n, effect) ==
    /\ n \in OperatorState
    /\ ~st.busy /\ st.modal = None
    /\ n.busy /\ n.modal = None /\ n.input = None /\ n.contacts = st.contacts
    /\ \E r \in CliRequest : effect = RunCli(r)

\* A step that closes the modal with an answer, yes only to a modal that a frame
\* has shown complete.
Answered(st, n, effect) ==
    /\ n \in OperatorState
    /\ st.modal # None
    /\ n.busy = st.busy /\ n.modal = None /\ n.contacts = st.contacts /\ n.input = None
    /\ \/ effect = Answer(FALSE)
       \/ effect = Answer(TRUE) /\ st.modal.rendered /\ st.modal.complete

Reduced(st, step) ==
    \/ Quiet(st, step.state, step.effect)
    \/ Ran(st, step.state, step.effect)
    \/ Answered(st, step.state, step.effect)

LEMMA StepFields ==
  ASSUME NEW n, NEW effect
  PROVE  Step(n, effect).state = n /\ Step(n, effect).effect = effect
BY DEF Step

\* What the reducer finds in the state: an input row only without a modal and
\* without a command in flight.
Settled(st) == st \in OperatorState /\ (st.input # None => st.modal = None /\ ~st.busy)

LEMMA RefuseReduced ==
  ASSUME NEW st, NEW n \in OperatorState,
         n.busy = st.busy, n.modal = st.modal, n.contacts = st.contacts,
         n.input # None => st.modal = None /\ ~st.busy
  PROVE  Reduced(st, Refuse(n))
<1>1. Refuse(n).state = n /\ Refuse(n).effect = NoEffect  BY StepFields DEF Refuse
<1>2. NoEffect.kind = "none"  BY DEF NoEffect, Kind
<1>3. QED  BY <1>1, <1>2 DEF Reduced, Quiet

LEMMA RefuseSame ==
  ASSUME NEW st, Settled(st)
  PROVE  Reduced(st, Refuse(st))
BY RefuseReduced DEF Settled

LEMMA RunReduced ==
  ASSUME NEW st, Settled(st), st.modal = None, st.input = None, NEW r \in CliRequest
  PROVE  Reduced(st, Run(st, r))
<1>1. CASE st.busy  BY <1>1, RefuseSame DEF Run
<1>2. CASE ~st.busy
  <2>1. PICK n : n = [st EXCEPT !.busy = TRUE]  OBVIOUS
  <2>2. /\ n \in OperatorState /\ n.busy = TRUE /\ n.modal = st.modal
        /\ n.input = st.input /\ n.contacts = st.contacts
    BY <2>1 DEF Settled, OperatorState
  <2>3. Run(st, r) = Step(n, RunCli(r))  BY <1>2, <2>1 DEF Run
  <2>4. Ran(st, n, RunCli(r))  BY <1>2, <2>2 DEF Ran
  <2>5. QED  BY <2>3, <2>4, StepFields DEF Reduced
<1>3. QED  BY <1>1, <1>2

LEMMA AnswerReduced ==
  ASSUME NEW st, Settled(st), st.modal # None, NEW yes \in BOOLEAN,
         yes => st.modal.rendered /\ st.modal.complete
  PROVE  Reduced(st, Step([st EXCEPT !.modal = None], Answer(yes)))
<1>1. PICK n : n = [st EXCEPT !.modal = None]  OBVIOUS
<1>2. /\ n \in OperatorState /\ n.busy = st.busy /\ n.modal = None
      /\ n.input = st.input /\ n.contacts = st.contacts
  BY <1>1 DEF Settled, OperatorState
<1>3. Answered(st, n, Answer(yes))  BY <1>2 DEF Answered, Settled
<1>4. QED  BY <1>1, <1>3, StepFields DEF Reduced

LEMMA ConfirmReduced ==
  ASSUME NEW st, Settled(st)
  PROVE  Reduced(st, TrustConfirm(st)) /\ Reduced(st, TrustCancel(st))
<1>1. CASE st.modal = None  BY <1>1, RefuseSame DEF TrustConfirm, TrustCancel
<1>2. CASE st.modal # None
  <2>1. Reduced(st, TrustCancel(st))  BY <1>2, AnswerReduced DEF TrustCancel
  <2>2. CASE ~st.modal.rendered \/ ~st.modal.complete
    BY <1>2, <2>1, <2>2, RefuseSame DEF TrustConfirm
  <2>3. CASE st.modal.rendered /\ st.modal.complete
    BY <1>2, <2>1, <2>3, AnswerReduced DEF TrustConfirm
  <2>4. QED  BY <2>2, <2>3
<1>3. QED  BY <1>1, <1>2

LEMMA BufferTyped ==
  ASSUME NEW st, Settled(st), NEW field \in InputField
  PROVE  InitialBuffer(st, field) \in Buffer
<1>1. st.active \in Profile  BY StateFields DEF Settled
<1>2. LaunchCard[st.active] \in Card \cup {None}  BY <1>1, ConsoleAssumption
<1>3. QED  BY <1>2 DEF InitialBuffer, InputField, Buffer

LEMMA RowReduced ==
  ASSUME NEW st, Settled(st), st.modal = None, ~st.busy, NEW row \in Row \cup {None}
  PROVE  Reduced(st, Refuse([st EXCEPT !.input = row]))
<1>1. PICK n : n = [st EXCEPT !.input = row]  OBVIOUS
<1>2. /\ n \in OperatorState /\ n.busy = st.busy /\ n.modal = st.modal
      /\ n.input = row /\ n.contacts = st.contacts
  BY <1>1 DEF Settled, OperatorState
<1>3. QED  BY <1>1, <1>2, RefuseReduced

LEMMA InputReduced ==
  ASSUME NEW st, Settled(st)
  PROVE  /\ \A field \in InputField : Reduced(st, InputOpen(st, field))
         /\ \A buffer \in Buffer : Reduced(st, InputEdit(st, buffer))
         /\ st.modal = None /\ st.input # None => Reduced(st, Refuse([st EXCEPT !.input = None]))
<1>1. ASSUME NEW field \in InputField PROVE Reduced(st, InputOpen(st, field))
  <2>1. CASE st.modal # None \/ st.busy  BY <2>1, RefuseSame DEF InputOpen
  <2>2. CASE ~(st.modal # None \/ st.busy)
    <3>1. PICK row : row = [field |-> field, buffer |-> InitialBuffer(st, field), rendered |-> FALSE]
      OBVIOUS
    <3>2. row \in Row  BY <3>1, BufferTyped DEF Row
    <3>3. QED  BY <2>2, <3>1, <3>2, RowReduced DEF InputOpen
  <2>3. QED  BY <2>1, <2>2
<1>2. ASSUME NEW buffer \in Buffer PROVE Reduced(st, InputEdit(st, buffer))
  <2>1. CASE st.input = None \/ st.modal # None  BY <2>1, RefuseSame DEF InputEdit
  <2>2. CASE ~(st.input = None \/ st.modal # None)
    <3>1. PICK row : row = [st.input EXCEPT !.buffer = buffer]  OBVIOUS
    <3>2. st.input \in Row  BY <2>2, StateFields DEF Settled
    <3>3. row \in Row  BY <3>1, <3>2 DEF Row
    <3>4. QED  BY <2>2, <3>1, <3>3, RowReduced DEF InputEdit, Settled
  <2>3. QED  BY <2>1, <2>2
<1>3. ASSUME st.modal = None, st.input # None PROVE Reduced(st, Refuse([st EXCEPT !.input = None]))
  BY <1>3, RowReduced DEF Settled
<1>4. QED  BY <1>1, <1>2, <1>3

LEMMA SubmitTyped ==
  ASSUME NEW st, Settled(st), st.input # None
  PROVE  SubmitRequest(st) \subseteq CliRequest
<1>1. st.active \in Profile /\ st.input \in Row  BY StateFields DEF Settled
<1>2. st.input.buffer \in Buffer /\ st.input.field \in InputField  BY <1>1 DEF Row
<1>3. PICK p : p = st.active  OBVIOUS
<1>4. CASE st.input.buffer # Empty
  <2>1. \A c \in {"send", "init", "contact export"} : Request(c, p) \in CliRequest
    BY <1>1, <1>3, RequestTyped DEF Command
  <2>2. ImportRequest(p, st.input.buffer) \in CliRequest
    BY <1>1, <1>2, <1>3, <1>4, RequestTyped DEF Buffer
  <2>3. SubmitRequest(st) \subseteq
          {Request("send", p), Request("init", p), Request("contact export", p),
           ImportRequest(p, st.input.buffer)}
    BY <1>2, <1>3, <1>4 DEF SubmitRequest, When, InputField
  <2>4. QED  BY <2>1, <2>2, <2>3
<1>5. QED  BY <1>4 DEF SubmitRequest

LEMMA SubmitReduced ==
  ASSUME NEW st, Settled(st)
  PROVE  Reduced(st, InputSubmit(st))
<1>1. CASE \/ st.input = None \/ st.modal # None \/ st.busy
           \/ ~st.input.rendered \/ SubmitRequest(st) = {}
  BY <1>1, RefuseSame DEF InputSubmit
<1>2. CASE ~(\/ st.input = None \/ st.modal # None \/ st.busy
             \/ ~st.input.rendered \/ SubmitRequest(st) = {})
  <2>1. PICK r : r = CHOOSE q \in SubmitRequest(st) : TRUE  OBVIOUS
  <2>2. r \in CliRequest  BY <1>2, <2>1, SubmitTyped
  <2>3. st.profiles \in [Profile -> ProfileView] /\ st.active \in Profile
    BY StateFields DEF Settled
  <2>4. PICK view : view = st.profiles[st.active]  OBVIOUS
  <2>5. PICK known : known = [view EXCEPT !.relayUrl = view.relayUrl \/ r.command = "init"]  OBVIOUS
  <2>6. known \in ProfileView  BY <2>3, <2>4, <2>5 DEF ProfileView
  <2>7. PICK ps : ps = [st.profiles EXCEPT ![st.active] = known]  OBVIOUS
  <2>8. ps \in [Profile -> ProfileView]  BY <2>3, <2>6, <2>7
  <2>9. PICK n : n = [st EXCEPT !.profiles = ps, !.input = None, !.busy = TRUE]  OBVIOUS
  <2>10. /\ n \in OperatorState /\ n.busy = TRUE /\ n.modal = st.modal
         /\ n.input = None /\ n.contacts = st.contacts
    BY <2>8, <2>9 DEF Settled, OperatorState
  <2>11. InputSubmit(st) = Step(n, RunCli(r))
    BY <1>2, <2>1, <2>4, <2>5, <2>7, <2>9 DEF InputSubmit
  <2>12. Ran(st, n, RunCli(r))  BY <1>2, <2>2, <2>10 DEF Ran
  <2>13. QED  BY <2>11, <2>12, StepFields DEF Reduced
<1>3. QED  BY <1>1, <1>2

LEMMA SelectReduced ==
  ASSUME NEW st, Settled(st)
  PROVE  /\ \A pane \in Pane : Reduced(st, Refuse([st EXCEPT !.pane = pane]))
         /\ \A p \in Profile : Reduced(st, Refuse([st EXCEPT !.active = p]))
         /\ \A c \in Card : Reduced(st, Refuse([st EXCEPT !.selected = c]))
<1>1. ASSUME NEW pane \in Pane PROVE Reduced(st, Refuse([st EXCEPT !.pane = pane]))
  <2>1. PICK n : n = [st EXCEPT !.pane = pane]  OBVIOUS
  <2>2. n \in OperatorState /\ n.busy = st.busy /\ n.modal = st.modal
        /\ n.input = st.input /\ n.contacts = st.contacts
    BY <2>1 DEF Settled, OperatorState
  <2>3. QED  BY <2>1, <2>2, RefuseReduced DEF Settled
<1>2. ASSUME NEW p \in Profile PROVE Reduced(st, Refuse([st EXCEPT !.active = p]))
  <2>1. PICK n : n = [st EXCEPT !.active = p]  OBVIOUS
  <2>2. n \in OperatorState /\ n.busy = st.busy /\ n.modal = st.modal
        /\ n.input = st.input /\ n.contacts = st.contacts
    BY <2>1 DEF Settled, OperatorState
  <2>3. QED  BY <2>1, <2>2, RefuseReduced DEF Settled
<1>3. ASSUME NEW c \in Card PROVE Reduced(st, Refuse([st EXCEPT !.selected = c]))
  <2>1. PICK n : n = [st EXCEPT !.selected = c]  OBVIOUS
  <2>2. n \in OperatorState /\ n.busy = st.busy /\ n.modal = st.modal
        /\ n.input = st.input /\ n.contacts = st.contacts
    BY <2>1 DEF Settled, OperatorState
  <2>3. QED  BY <2>1, <2>2, RefuseReduced DEF Settled
<1>4. QED  BY <1>1, <1>2, <1>3

\* Whatever the key, the reducer is quiet, begins a command or answers the modal.
LEMMA ReducerCases ==
  ASSUME NEW st, Settled(st), NEW i \in MapKey(st)
  PROVE  Reduced(st, Reduce(st, i))
<1>1. st \in OperatorState  BY DEF Settled
<1>2. CASE i.kind = "quit"
  <2>1. Reduce(st, i) = Step(st, Kind("quit"))  BY <1>2 DEF Reduce
  <2>2. Kind("quit").kind = "quit"  BY DEF Kind
  <2>3. Quiet(st, st, Kind("quit"))  BY <2>2 DEF Quiet, Settled
  <2>4. QED  BY <2>1, <2>3, StepFields DEF Reduced
<1>3. CASE i.kind = "toggle-help"  BY <1>3, RefuseSame DEF Reduce
<1>4. CASE i.kind = "trust-confirm"  BY <1>4, ConfirmReduced DEF Reduce
<1>5. CASE i.kind = "trust-cancel"  BY <1>5, ConfirmReduced DEF Reduce
<1>6. CASE i.kind = "input-cancel" /\ st.modal = None /\ st.input # None
  BY <1>6, InputReduced DEF Reduce
<1>7. CASE i.kind = "input-submit"  BY <1>7, SubmitReduced DEF Reduce
<1>8. CASE i.kind = "input-edit" /\ i.buffer \in Buffer  BY <1>8, InputReduced DEF Reduce
<1>9. CASE i.kind = "run" /\ i.request \in CliRequest /\ st.modal = None /\ st.input = None
  BY <1>9, RunReduced DEF Reduce
<1>10. CASE i.kind = "input-open" /\ i.field \in InputField  BY <1>10, InputReduced DEF Reduce
<1>11. CASE i.kind = "select-contact" /\ i.card \in Card  BY <1>11, SelectReduced DEF Reduce
<1>12. CASE i.kind = "select-profile" /\ i.index \in Profile  BY <1>12, SelectReduced DEF Reduce
<1>13. CASE i.kind = "select-pane" /\ i.pane \in Pane  BY <1>13, SelectReduced DEF Reduce
<1>14. QED
  BY <1>1, <1>2, <1>3, <1>4, <1>5, <1>6, <1>7, <1>8, <1>9, <1>10, <1>11, <1>12, <1>13, KeyIntents
     DEF Plain

-----------------------------------------------------------------------------
(* Frames.                                                                 *)

\* A frame changes what of the state is rendered and nothing else.
SameButRendered(st, n) ==
    /\ n \in OperatorState
    /\ n.busy = st.busy /\ n.contacts = st.contacts
    /\ n.input = None <=> st.input = None
    /\ n.modal = None <=> st.modal = None
    /\ n.modal # None => /\ n.modal.profile = st.modal.profile
                         /\ n.modal.card = st.modal.card
                         /\ n.modal.complete = st.modal.complete

LEMMA RenderedModal ==
  ASSUME NEW part \in Modal \cup {None}
  PROVE  /\ Rendered(part) \in Modal \cup {None}
         /\ Rendered(part) = None <=> part = None
         /\ part # None => /\ Rendered(part).profile = part.profile
                           /\ Rendered(part).card = part.card
                           /\ Rendered(part).complete = part.complete
<1>1. CASE part = None  BY <1>1 DEF Rendered
<1>2. CASE part \in Modal /\ part # None
  <2>1. PICK n : n = [part EXCEPT !.rendered = TRUE]  OBVIOUS
  <2>2. n \in Modal /\ n.profile = part.profile /\ n.card = part.card /\ n.complete = part.complete
    BY <1>2, <2>1 DEF Modal
  <2>3. n # None  BY <2>2, NoneAssumption
  <2>4. Rendered(part) = n  BY <1>2, <2>1 DEF Rendered
  <2>5. QED  BY <1>2, <2>2, <2>3, <2>4
<1>3. QED  BY <1>1, <1>2

LEMMA RenderedRow ==
  ASSUME NEW part \in Row \cup {None}
  PROVE  /\ Rendered(part) \in Row \cup {None}
         /\ Rendered(part) = None <=> part = None
<1>1. CASE part = None  BY <1>1 DEF Rendered
<1>2. CASE part \in Row /\ part # None
  <2>1. PICK n : n = [part EXCEPT !.rendered = TRUE]  OBVIOUS
  <2>2. n \in Row  BY <1>2, <2>1 DEF Row
  <2>3. n # None  BY <2>2, NoneAssumption
  <2>4. Rendered(part) = n  BY <1>2, <2>1 DEF Rendered
  <2>5. QED  BY <1>2, <2>2, <2>3, <2>4
<1>3. QED  BY <1>1, <1>2

LEMMA PaintFacts ==
  ASSUME NEW st \in OperatorState
  PROVE  SameButRendered(st, Paint(st))
<1>1. CASE small  BY <1>1 DEF Paint, SameButRendered
<1>2. CASE ~small
  <2>1. PICK m, r : m = Rendered(st.modal) /\ r = Rendered(st.input)  OBVIOUS
  <2>2. /\ m \in Modal \cup {None} /\ (m = None <=> st.modal = None)
        /\ m # None => /\ m.profile = st.modal.profile /\ m.card = st.modal.card
                       /\ m.complete = st.modal.complete
    BY <2>1, StateFields, RenderedModal
  <2>3. r \in Row \cup {None} /\ (r = None <=> st.input = None)
    BY <2>1, StateFields, RenderedRow
  <2>4. PICK n : n = [st EXCEPT !.modal = m, !.input = r]  OBVIOUS
  <2>5. /\ n \in OperatorState /\ n.modal = m /\ n.input = r
        /\ n.busy = st.busy /\ n.contacts = st.contacts
    BY <2>2, <2>3, <2>4 DEF OperatorState
  <2>6. Paint(st) = n  BY <1>2, <2>1, <2>4 DEF Paint
  <2>7. QED  BY <2>2, <2>3, <2>5, <2>6 DEF SameButRendered
<1>3. QED  BY <1>1, <1>2

-----------------------------------------------------------------------------
(* Children.                                                               *)

LEMMA ChildFields ==
  ASSUME NEW ch \in Child
  PROVE  /\ ch.id \in 1 .. MaxCommands /\ ch.request \in CliRequest
         /\ ch.answer \in {"none", "yes", "no"} /\ ch.phase \in {"started", "prompt", "committed"}
         /\ ch.request.command \in Command /\ ch.request.profile \in Profile
         /\ ch.request.card \in Card \cup {Filled, None}
BY DEF Child, CliRequest

LEMMA PhasedChild ==
  ASSUME NEW ch \in Child, NEW phase \in {"started", "prompt", "committed"}
  PROVE  /\ [ch EXCEPT !.phase = phase] \in Child
         /\ [ch EXCEPT !.phase = phase].phase = phase
         /\ [ch EXCEPT !.phase = phase].id = ch.id
         /\ [ch EXCEPT !.phase = phase].request = ch.request
         /\ [ch EXCEPT !.phase = phase].answer = ch.answer
BY DEF Child

LEMMA AnsweredChild ==
  ASSUME NEW ch \in Child, NEW answer \in {"yes", "no"}
  PROVE  /\ [ch EXCEPT !.answer = answer] \in Child
         /\ [ch EXCEPT !.answer = answer].answer = answer
         /\ [ch EXCEPT !.answer = answer].id = ch.id
         /\ [ch EXCEPT !.answer = answer].request = ch.request
         /\ [ch EXCEPT !.answer = answer].phase = ch.phase
BY DEF Child

LEMMA SpawnedChild ==
  ASSUME NEW r \in CliRequest, children = {}
  PROVE  /\ Spawn(r) \in Child /\ Spawn(r).answer = "none" /\ Spawn(r).phase = "started"
         /\ Spawn(r).request = r
<1>1. 1 \in 1 .. MaxCommands  BY ConsoleAssumption
<1>2. PICK k : k = CHOOSE j \in 1 .. MaxCommands : \A ch \in children : ch.id # j  OBVIOUS
<1>3. k \in 1 .. MaxCommands  BY <1>1, <1>2
<1>4. Spawn(r) = [id |-> k, request |-> r, answer |-> "none", phase |-> "started"]
  BY <1>2 DEF Spawn
<1>5. QED  BY <1>3, <1>4 DEF Child

LEMMA AChild ==
  ASSUME OneChild, NEW ch \in children
  PROVE  children = {ch} /\ cur.busy /\ ChildOK(ch)
BY DEF OneChild

\* The parts of TypeOK that a step leaves to its other conjuncts.
ShellTyped ==
    /\ cur \in OperatorState /\ confirmed \in Modal \cup {None}
    /\ running \in BOOLEAN /\ small \in BOOLEAN
    /\ store \in [Profile -> [exists: BOOLEAN, trusted: SUBSET Card]]
    /\ commands \in 1 .. MaxCommands

ChildrenTyped == children \subseteq Child /\ awaiting \in (1 .. MaxCommands) \cup {None}

LEMMA Typed ==
  /\ TypeOK <=> ShellTyped /\ ChildrenTyped
  /\ TypeOK' <=> ShellTyped' /\ ChildrenTyped'
BY DEF TypeOK, ShellTyped, ChildrenTyped

\* A child keeps what the shell knows of it while nothing it is about changes.
LEMMA ChildKept ==
  ASSUME NEW ch, ChildOK(ch), UNCHANGED <<awaiting, confirmed, store>>,
         cur'.modal = None <=> cur.modal = None,
         cur'.modal # None => /\ cur'.modal.profile = cur.modal.profile
                              /\ cur'.modal.card = cur.modal.card
  PROVE  ChildOK(ch)'
BY DEF ChildOK, Waits, IsImport

-----------------------------------------------------------------------------
(* The invariant is inductive.                                             *)

LEMMA Initially ==
  ASSUME Init
  PROVE  IInv
<1>1. 1 \in Profile /\ 1 \in 1 .. MaxCommands  BY Profiles, ConsoleAssumption
<1>2. PICK ps : ps = [p \in Profile |-> InitialProfile(p)]  OBVIOUS
<1>3. ps \in [Profile -> ProfileView]  BY <1>2 DEF InitialProfile, ProfileView
<1>4. cur = [profiles |-> ps, active |-> 1, contacts |-> <<>>, selected |-> None,
             pane |-> "profiles", modal |-> None, busy |-> TRUE, input |-> None]
  BY <1>2 DEF Init
<1>5. <<>> \in Seq(Card)  OBVIOUS
<1>6. /\ cur \in OperatorState /\ cur.modal = None /\ cur.busy = TRUE /\ cur.input = None
      /\ cur.contacts = <<>>
  BY <1>1, <1>3, <1>4, <1>5 DEF OperatorState, Pane
<1>7. PICK ch : ch = [id |-> 1, request |-> Request("doctor", 1),
                      answer |-> "none", phase |-> "started"]
  OBVIOUS
<1>8. Request("doctor", 1) \in CliRequest  BY <1>1, RequestTyped DEF Command
<1>9. ch \in Child /\ ch.answer = "none" /\ ch.phase = "started"  BY <1>1, <1>7, <1>8 DEF Child
<1>10. children = {ch} /\ awaiting = None /\ confirmed = None  BY <1>7 DEF Init
<1>11. ShellTyped  BY <1>1, <1>6, <1>10 DEF ShellTyped, Init
<1>12. ChildrenTyped  BY <1>9, <1>10 DEF ChildrenTyped
<1>13. ChildOK(ch)  BY <1>6, <1>9, <1>10 DEF ChildOK, Waits
<1>14. OneChild  BY <1>6, <1>9, <1>10, <1>13 DEF OneChild
<1>15. RosterTrusted  BY <1>6 DEF RosterTrusted
<1>16. QED  BY <1>6, <1>11, <1>12, <1>14, <1>15, Typed DEF IInv, RowAlone

LEMMA KeyQuiet ==
  ASSUME IInv, NEW n, NEW effect, Quiet(cur, n, effect), SameButRendered(n, cur'),
         UNCHANGED <<confirmed, small, awaiting, store, children, commands>>, running' \in BOOLEAN
  PROVE  IInv'
<1>1. /\ cur' \in OperatorState /\ cur'.busy = cur.busy /\ cur'.contacts = cur.contacts
      /\ cur'.modal = None <=> cur.modal = None
      /\ cur'.modal # None => /\ cur'.modal.profile = cur.modal.profile
                              /\ cur'.modal.card = cur.modal.card
      /\ cur'.input # None => cur.modal = None /\ ~cur.busy
  BY DEF Quiet, SameButRendered
<1>2. TypeOK'  BY <1>1, Typed DEF IInv, ShellTyped, ChildrenTyped
<1>3. OneChild'
  <2>1. CASE children = {} /\ ~cur.busy /\ awaiting = None  BY <1>1, <2>1 DEF OneChild
  <2>2. ASSUME NEW ch \in Child, children = {ch}, cur.busy, ChildOK(ch) PROVE OneChild'
    <3>1. ChildOK(ch)'  BY <1>1, <2>2, ChildKept
    <3>2. QED  BY <1>1, <2>2, <3>1 DEF OneChild
  <2>3. QED  BY <2>1, <2>2 DEF IInv, OneChild
<1>4. RowAlone' /\ RosterTrusted'  BY <1>1 DEF IInv, RowAlone, RosterTrusted
<1>5. QED  BY <1>2, <1>3, <1>4 DEF IInv

LEMMA KeyRan ==
  ASSUME IInv, NEW n, NEW r \in CliRequest, Ran(cur, n, RunCli(r)), SameButRendered(n, cur'),
         commands < MaxCommands, commands' = commands + 1,
         children' = children \cup {Spawn(r)},
         UNCHANGED <<confirmed, small, awaiting, store>>, running' \in BOOLEAN
  PROVE  IInv'
<1>1. /\ cur' \in OperatorState /\ cur'.busy /\ cur'.contacts = cur.contacts
      /\ cur'.modal = None /\ cur'.input = None /\ ~cur.busy
  BY DEF Ran, SameButRendered
<1>2. children = {} /\ awaiting = None  BY <1>1 DEF IInv, OneChild
<1>3. PICK ch : ch = Spawn(r)  OBVIOUS
<1>4. ch \in Child /\ ch.answer = "none" /\ ch.phase = "started"  BY <1>2, <1>3, SpawnedChild
<1>5. children' = {ch}  BY <1>2, <1>3
<1>6. commands' \in 1 .. MaxCommands  BY ConsoleAssumption DEF IInv, TypeOK
<1>7. TypeOK'  BY <1>1, <1>4, <1>5, <1>6, Typed DEF IInv, ShellTyped, ChildrenTyped
<1>8. ChildOK(ch)'  BY <1>1, <1>2, <1>4 DEF ChildOK, Waits
<1>9. OneChild'  BY <1>1, <1>4, <1>5, <1>8 DEF OneChild
<1>10. RowAlone' /\ RosterTrusted'  BY <1>1 DEF IInv, RowAlone, RosterTrusted
<1>11. QED  BY <1>7, <1>9, <1>10 DEF IInv

\* The child an answer reaches, and what becomes of it.
LEMMA AnswerReaches ==
  ASSUME IInv, cur.modal # None, NEW yes \in BOOLEAN, AnswerTrustPrompt(yes)
  PROVE  \/ children = {} /\ children' = {} /\ ~cur.busy /\ awaiting = None
         \/ \E ch \in Child, n \in Child :
               /\ children = {ch} /\ children' = {n} /\ cur.busy
               /\ ChildOK(ch) /\ Waits(ch)
               /\ n.answer = (IF yes THEN "yes" ELSE "no") /\ n.phase = "prompt"
               /\ n.request = ch.request /\ n.id = ch.id
<1>1. CASE children = {} /\ ~cur.busy /\ awaiting = None
  BY <1>1 DEF AnswerTrustPrompt
<1>2. ASSUME NEW ch \in Child, children = {ch}, cur.busy, ChildOK(ch)
      PROVE  \E n \in Child :
               /\ children' = {n} /\ Waits(ch)
               /\ n.answer = (IF yes THEN "yes" ELSE "no") /\ n.phase = "prompt"
               /\ n.request = ch.request /\ n.id = ch.id
  <2>1. Waits(ch) /\ awaiting = ch.id  BY <1>2 DEF ChildOK
  <2>2. PICK answer : answer = IF yes THEN "yes" ELSE "no"  OBVIOUS
  <2>3. answer \in {"yes", "no"}  BY <2>2
  <2>4. PICK n : n = [ch EXCEPT !.answer = answer]  OBVIOUS
  <2>5. n \in Child /\ n.answer = answer /\ n.phase = "prompt" /\ n.request = ch.request /\ n.id = ch.id
    BY <2>1, <2>3, <2>4, AnsweredChild DEF Waits
  <2>6. children' = {n}  BY <1>2, <2>1, <2>2, <2>4 DEF AnswerTrustPrompt
  <2>7. QED  BY <2>1, <2>2, <2>5, <2>6
<1>3. QED  BY <1>1, <1>2 DEF IInv, OneChild

LEMMA KeyAnswered ==
  ASSUME IInv, NEW n, NEW yes \in BOOLEAN, Answered(cur, n, Answer(yes)), SameButRendered(n, cur'),
         AnswerTrustPrompt(yes), confirmed' = IF yes THEN cur.modal ELSE confirmed,
         UNCHANGED <<small, awaiting, store, commands>>, running' \in BOOLEAN
  PROVE  IInv'
<1>1. /\ cur' \in OperatorState /\ cur'.busy = cur.busy /\ cur'.contacts = cur.contacts
      /\ cur'.modal = None /\ cur'.input = None /\ cur.modal # None
  BY DEF Answered, SameButRendered
<1>2. cur.modal \in Modal  BY <1>1, StateFields DEF IInv, TypeOK
<1>3. ShellTyped'  BY <1>1, <1>2 DEF IInv, TypeOK, ShellTyped
<1>4. ASSUME children = {}, children' = {}, ~cur.busy, awaiting = None
      PROVE  ChildrenTyped' /\ OneChild'
  BY <1>1, <1>4 DEF ChildrenTyped, OneChild
<1>5. ASSUME NEW ch \in Child, NEW c \in Child,
             children = {ch}, children' = {c}, cur.busy, ChildOK(ch), Waits(ch),
             c.answer = (IF yes THEN "yes" ELSE "no"), c.phase = "prompt",
             c.request = ch.request, c.id = ch.id
      PROVE  ChildrenTyped' /\ OneChild'
  <2>1. ChildrenTyped'  BY <1>5 DEF ChildrenTyped, IInv, TypeOK
  <2>2. cur.modal.card = ch.request.card /\ IsImport(ch)  BY <1>5 DEF ChildOK, Waits
  <2>3. IsImport(c)  BY <1>5, <2>2 DEF IsImport
  <2>4. ~Waits(c)  BY <1>5 DEF Waits
  <2>5. yes => confirmed' # None /\ confirmed'.card = c.request.card  BY <1>1, <1>5, <2>2
  <2>6. ChildOK(c)'  BY <1>1, <1>5, <2>3, <2>4, <2>5 DEF ChildOK, IsImport, Waits
  <2>7. QED  BY <1>1, <1>5, <2>1, <2>6 DEF OneChild
<1>6. ChildrenTyped' /\ OneChild'  BY <1>1, <1>4, <1>5, AnswerReaches
<1>7. RowAlone' /\ RosterTrusted'  BY <1>1 DEF IInv, RowAlone, RosterTrusted
<1>8. QED  BY <1>3, <1>6, <1>7, Typed DEF IInv

LEMMA AnswerEffect ==
  ASSUME NEW yes \in BOOLEAN
  PROVE  /\ Answer(yes).kind = "answer-trust-prompt" /\ Answer(yes).answer = yes
         /\ (Answer(yes) = Answer(TRUE)) <=> yes
<1>1. Answer(yes).answer = yes /\ Answer(TRUE).answer = TRUE  BY DEF Answer
<1>2. QED  BY <1>1 DEF Answer

LEMMA RunEffect ==
  ASSUME NEW r
  PROVE  RunCli(r).kind = "run-cli" /\ RunCli(r).request = r
BY DEF RunCli

\* A keystroke, by what the reducer made of it.
LEMMA KeyCases ==
  ASSUME IInv, NEW i \in MapKey(cur), HandleKey(i)
  PROVE  /\ running' \in BOOLEAN /\ UNCHANGED <<small, awaiting, store>>
         /\ \E n :
              /\ SameButRendered(n, cur')
              /\ \/ \E effect : /\ Quiet(cur, n, effect)
                                /\ UNCHANGED <<confirmed, children, commands>>
                 \/ \E r \in CliRequest :
                       /\ Ran(cur, n, RunCli(r)) /\ UNCHANGED confirmed
                       /\ commands < MaxCommands /\ commands' = commands + 1
                       /\ children' = children \cup {Spawn(r)}
                 \/ \E yes \in BOOLEAN :
                       /\ Answered(cur, n, Answer(yes)) /\ AnswerTrustPrompt(yes)
                       /\ confirmed' = (IF yes THEN cur.modal ELSE confirmed)
                       /\ UNCHANGED commands
<1>1. Settled(cur)  BY DEF IInv, TypeOK, RowAlone, Settled
<1>2. PICK step : step = Reduce(cur, i)  OBVIOUS
<1>3. Reduced(cur, step)  BY <1>1, <1>2, ReducerCases
<1>4. PICK n, effect : n = step.state /\ effect = step.effect  OBVIOUS
<1>5. n \in OperatorState  BY <1>3, <1>4 DEF Reduced, Quiet, Ran, Answered
<1>6. SameButRendered(n, cur')  BY <1>2, <1>4, <1>5, PaintFacts DEF HandleKey
<1>7. running' \in BOOLEAN /\ UNCHANGED <<small, awaiting, store>>  BY DEF HandleKey
<1>8. /\ confirmed' = IF effect = Answer(TRUE) THEN cur.modal ELSE confirmed
      /\ effect.kind = "run-cli" => /\ commands < MaxCommands /\ commands' = commands + 1
                                    /\ children' = children \cup {Spawn(effect.request)}
      /\ effect.kind = "answer-trust-prompt" =>
            AnswerTrustPrompt(effect.answer) /\ UNCHANGED commands
      /\ effect.kind \notin {"run-cli", "answer-trust-prompt"} => UNCHANGED <<children, commands>>
  BY <1>2, <1>4 DEF HandleKey
<1>9. Answer(TRUE).kind = "answer-trust-prompt"  BY AnswerEffect
<1>10. CASE Quiet(cur, n, effect)
  <2>1. effect.kind \in {"none", "quit"}  BY <1>10 DEF Quiet
  <2>2. UNCHANGED <<confirmed, children, commands>>  BY <1>8, <1>9, <2>1
  <2>3. QED  BY <1>6, <1>7, <1>10, <2>2
<1>11. CASE Ran(cur, n, effect)
  <2>1. PICK r \in CliRequest : effect = RunCli(r)  BY <1>11 DEF Ran
  <2>2. effect.kind = "run-cli" /\ effect.request = r  BY <2>1, RunEffect
  <2>3. UNCHANGED confirmed  BY <1>8, <1>9, <2>2
  <2>4. /\ commands < MaxCommands /\ commands' = commands + 1
        /\ children' = children \cup {Spawn(r)}
    BY <1>8, <2>2
  <2>5. QED  BY <1>6, <1>7, <1>11, <2>1, <2>3, <2>4
<1>12. CASE Answered(cur, n, effect)
  <2>1. PICK yes \in BOOLEAN : effect = Answer(yes)  BY <1>12 DEF Answered
  <2>2. effect.kind = "answer-trust-prompt" /\ effect.answer = yes /\ (effect = Answer(TRUE) <=> yes)
    BY <2>1, AnswerEffect
  <2>3. AnswerTrustPrompt(yes) /\ UNCHANGED commands  BY <1>8, <2>2
  <2>4. confirmed' = (IF yes THEN cur.modal ELSE confirmed)  BY <1>8, <2>2
  <2>5. QED  BY <1>6, <1>7, <1>12, <2>1, <2>3, <2>4
<1>13. QED  BY <1>3, <1>4, <1>10, <1>11, <1>12 DEF Reduced

LEMMA KeyInv ==
  ASSUME IInv, NEW i \in MapKey(cur), HandleKey(i)
  PROVE  IInv'
<1>1. running' \in BOOLEAN /\ UNCHANGED <<small, awaiting, store>>  BY KeyCases
<1>2. QED  BY <1>1, KeyCases, KeyQuiet, KeyRan, KeyAnswered

\* What is presented for a child: the identifiers it read, not yet painted.
Presented(ch, complete) ==
    [profile |-> ch.request.profile, complete |-> complete, card |-> ch.request.card,
     rendered |-> FALSE]

LEMMA PresentedState ==
  ASSUME IInv, NEW ch \in children, OnTrustIdentifiers(ch)
  PROVE  \E complete \in BOOLEAN, n \in OperatorState :
            /\ n.modal = Presented(ch, complete) /\ n.modal \in Modal
            /\ n.busy = cur.busy /\ n.input = cur.input /\ n.contacts = cur.contacts
            /\ SameButRendered(n, cur')
<1>1. PICK complete \in BOOLEAN : cur' = Paint([cur EXCEPT !.modal = Presented(ch, complete)])
  BY DEF OnTrustIdentifiers, Presented
<1>2. PICK m : m = Presented(ch, complete)  OBVIOUS
<1>3. ch \in Child /\ ch.request.card \in Card  BY DEF IInv, TypeOK, OnTrustIdentifiers
<1>4. m \in Modal  BY <1>2, <1>3, ChildFields DEF Presented, Modal
<1>5. PICK n : n = [cur EXCEPT !.modal = m]  OBVIOUS
<1>6. /\ n \in OperatorState /\ n.modal = m /\ n.busy = cur.busy /\ n.input = cur.input
      /\ n.contacts = cur.contacts
  BY <1>4, <1>5 DEF IInv, TypeOK, OperatorState
<1>7. SameButRendered(n, cur')  BY <1>1, <1>2, <1>5, <1>6, PaintFacts
<1>8. QED  BY <1>2, <1>4, <1>6, <1>7

LEMMA OnTrustIdentifiersInv ==
  ASSUME IInv, NEW ch \in children, OnTrustIdentifiers(ch)
  PROVE  IInv'
<1>1. /\ ch.phase = "started" /\ IsImport(ch) /\ awaiting' = ch.id
      /\ UNCHANGED <<confirmed, running, small, store, commands>>
  BY DEF OnTrustIdentifiers, IsImport
<1>2. ch \in Child /\ children = {ch} /\ cur.busy /\ ChildOK(ch)  BY AChild DEF IInv, TypeOK
<1>3. PICK complete \in BOOLEAN, n \in OperatorState :
            /\ n.modal = Presented(ch, complete) /\ n.modal \in Modal
            /\ n.busy = cur.busy /\ n.input = cur.input /\ n.contacts = cur.contacts
            /\ SameButRendered(n, cur')
  BY PresentedState
<1>4. n.modal.profile = ch.request.profile /\ n.modal.card = ch.request.card
  BY <1>3 DEF Presented
<1>5. n.modal # None  BY <1>3, NoneAssumption
<1>6. /\ cur' \in OperatorState /\ cur'.busy /\ cur'.input = None /\ cur'.contacts = cur.contacts
      /\ cur'.modal # None /\ cur'.modal.profile = ch.request.profile
      /\ cur'.modal.card = ch.request.card
  BY <1>2, <1>3, <1>4, <1>5 DEF SameButRendered, IInv, RowAlone
<1>7. PICK c : c = [ch EXCEPT !.phase = "prompt"]  OBVIOUS
<1>8. c \in Child /\ c.phase = "prompt" /\ c.id = ch.id /\ c.request = ch.request /\ c.answer = ch.answer
  BY <1>2, <1>7, PhasedChild
<1>9. ch.answer = "none"  BY <1>1, <1>2 DEF ChildOK
<1>10. children' = {c}  BY <1>2, <1>7 DEF OnTrustIdentifiers, Replace
<1>11. ch.id \in 1 .. MaxCommands  BY <1>2, ChildFields
<1>12. TypeOK'  BY <1>1, <1>6, <1>8, <1>10, <1>11, Typed DEF IInv, ShellTyped, ChildrenTyped
<1>13. IsImport(c) /\ Waits(c)  BY <1>1, <1>8, <1>9 DEF IsImport, Waits
<1>14. ChildOK(c)'  BY <1>1, <1>6, <1>8, <1>9, <1>13 DEF ChildOK, IsImport, Waits
<1>15. OneChild'  BY <1>6, <1>8, <1>10, <1>14 DEF OneChild
<1>16. RowAlone' /\ RosterTrusted'  BY <1>1, <1>6 DEF IInv, RowAlone, RosterTrusted
<1>17. QED  BY <1>12, <1>15, <1>16 DEF IInv

\* A store whose trust only grows.
Grows(st, n) ==
    /\ n \in [Profile -> [exists: BOOLEAN, trusted: SUBSET Card]]
    /\ \A p \in Profile : st[p].trusted \subseteq n[p].trusted

LEMMA ExecuteStore ==
  ASSUME IInv, NEW ch \in children, Execute(ch)
  PROVE  /\ Grows(store, store')
         /\ ch.request.command = "contact import" =>
               ch.answer = "yes" /\ ch.phase = "prompt" /\ IsImport(ch)
               /\ store' = [store EXCEPT ![ch.request.profile] =
                               [store[ch.request.profile] EXCEPT !.trusted = @ \cup {ch.request.card}]]
         /\ ch.request.command # "contact import" =>
               \A p \in Profile : store'[p].trusted = store[p].trusted
         /\ ch.answer # "none" => ch.request.command = "contact import"
         /\ ~Waits(ch)
<1>1. ch \in Child /\ ChildOK(ch)  BY AChild DEF IInv, TypeOK
<1>2. PICK p : p = ch.request.profile  OBVIOUS
<1>3. p \in Profile /\ store \in [Profile -> [exists: BOOLEAN, trusted: SUBSET Card]]
  BY <1>1, <1>2, ChildFields DEF IInv, TypeOK
<1>4. CASE ch.request.command = "init" /\ ch.phase = "started"
           /\ store' = [store EXCEPT ![p] = [store[p] EXCEPT !.exists = TRUE]]
  <2>1. PICK r : r = [store[p] EXCEPT !.exists = TRUE]  OBVIOUS
  <2>2. r \in [exists: BOOLEAN, trusted: SUBSET Card] /\ r.trusted = store[p].trusted
    BY <1>3, <2>1
  <2>3. store' = [store EXCEPT ![p] = r]  BY <1>4, <2>1
  <2>4. \A q \in Profile : store'[q].trusted = store[q].trusted  BY <1>3, <2>2, <2>3
  <2>5. store' \in [Profile -> [exists: BOOLEAN, trusted: SUBSET Card]]  BY <1>3, <2>2, <2>3
  <2>6. QED  BY <1>1, <1>4, <2>4, <2>5 DEF Grows, ChildOK, Waits
<1>5. CASE ch.request.command = "contact import" /\ ch.phase = "prompt" /\ ch.answer = "yes"
           /\ store' = [store EXCEPT ![p] = [store[p] EXCEPT !.trusted = @ \cup {ch.request.card}]]
  <2>1. PICK r : r = [store[p] EXCEPT !.trusted = @ \cup {ch.request.card}]  OBVIOUS
  <2>2. IsImport(ch)  BY <1>1, <1>5 DEF ChildOK
  <2>3. r \in [exists: BOOLEAN, trusted: SUBSET Card] /\ store[p].trusted \subseteq r.trusted
    BY <1>3, <2>1, <2>2 DEF IsImport
  <2>4. store' = [store EXCEPT ![p] = r]  BY <1>5, <2>1
  <2>5. Grows(store, store')  BY <1>3, <2>3, <2>4 DEF Grows
  <2>6. QED  BY <1>2, <1>5, <2>2, <2>5 DEF Waits
<1>6. CASE ch.request.command \notin {"init", "contact import"} /\ ch.phase = "started"
           /\ UNCHANGED store
  BY <1>1, <1>3, <1>6 DEF Grows, ChildOK, Waits
<1>7. QED  BY <1>2, <1>4, <1>5, <1>6 DEF Execute

LEMMA ExecuteInv ==
  ASSUME IInv, NEW ch \in children, Execute(ch)
  PROVE  IInv'
<1>1. ch \in Child /\ children = {ch} /\ cur.busy /\ ChildOK(ch)  BY AChild DEF IInv, TypeOK
<1>2. UNCHANGED <<cur, confirmed, running, small, awaiting, commands>>  BY DEF Execute
<1>3. PICK c : c = [ch EXCEPT !.phase = "committed"]  OBVIOUS
<1>4. c \in Child /\ c.phase = "committed" /\ c.id = ch.id /\ c.request = ch.request /\ c.answer = ch.answer
  BY <1>1, <1>3, PhasedChild
<1>5. children' = {c}  BY <1>1, <1>3 DEF Execute, Replace
<1>6. Grows(store, store')  BY ExecuteStore
<1>7. TypeOK'  BY <1>2, <1>4, <1>5, <1>6, Typed DEF IInv, ShellTyped, ChildrenTyped, Grows
<1>8. ~Waits(ch) /\ cur.modal = None  BY <1>1, ExecuteStore DEF ChildOK
<1>9. c.request.command = "contact import" =>
         c.answer = "yes" /\ c.request.card \in store'[c.request.profile].trusted
  <2>1. SUFFICES ASSUME ch.request.command = "contact import"
                 PROVE  ch.answer = "yes" /\ ch.request.card \in store'[ch.request.profile].trusted
    BY <1>4
  <2>2. PICK p : p = ch.request.profile  OBVIOUS
  <2>3. p \in Profile /\ store \in [Profile -> [exists: BOOLEAN, trusted: SUBSET Card]]
    BY <1>1, <2>2, ChildFields DEF IInv, TypeOK
  <2>4. PICK r : r = [store[p] EXCEPT !.trusted = @ \cup {ch.request.card}]  OBVIOUS
  <2>5. ch.answer = "yes" /\ store' = [store EXCEPT ![p] = r]
    BY <2>1, <2>2, <2>4, ExecuteStore
  <2>6. ch.request.card \in r.trusted  BY <2>3, <2>4
  <2>7. QED  BY <2>2, <2>3, <2>5, <2>6
<1>10. c.answer = "yes" => IsImport(c) /\ confirmed # None /\ confirmed.card = c.request.card
  BY <1>1, <1>4 DEF ChildOK, IsImport
<1>11. ChildOK(c)'  BY <1>2, <1>4, <1>8, <1>9, <1>10 DEF ChildOK, Waits, IsImport
<1>12. OneChild'  BY <1>1, <1>2, <1>4, <1>5, <1>11 DEF OneChild
<1>13. RosterTrusted'  BY <1>2, <1>6 DEF IInv, RosterTrusted, Grows
<1>14. QED  BY <1>2, <1>7, <1>12, <1>13 DEF IInv, RowAlone

LEMMA FoldTyped ==
  ASSUME NEW view \in ProfileView, NEW r \in CliRequest,
         NEW o \in [ok: BOOLEAN, contacts: BOOLEAN]
  PROVE  FoldSetup(view, r, o) \in [1 .. 5 -> BOOLEAN]
<1>1. view.setup \in [1 .. 5 -> BOOLEAN]  BY DEF ProfileView
<1>2. PICK step : step = SetupStepOf(r.command)  OBVIOUS
<1>3. PICK done : done = StepSucceeded(r, o)  OBVIOUS
<1>4. done \in BOOLEAN  BY <1>3 DEF StepSucceeded
<1>5. FoldSetup(view, r, o) = [s \in 1 .. 5 |-> IF s = step THEN done ELSE s < step /\ view.setup[s]]
  BY <1>2, <1>3 DEF FoldSetup
<1>6. ASSUME NEW s \in 1 .. 5
      PROVE  (IF s = step THEN done ELSE s < step /\ view.setup[s]) \in BOOLEAN
  <2>1. view.setup[s] \in BOOLEAN  BY <1>1
  <2>2. (s < step /\ view.setup[s]) \in BOOLEAN  OBVIOUS
  <2>3. QED  BY <1>4, <2>2
<1>7. QED  BY <1>5, <1>6

LEMMA AppliedState ==
  ASSUME NEW st \in OperatorState, NEW r \in CliRequest, NEW o \in [ok: BOOLEAN, contacts: BOOLEAN]
  PROVE  LET n == [ApplyOutcome(st, r, o) EXCEPT !.busy = FALSE]
         IN  /\ n \in OperatorState /\ n.busy = FALSE /\ n.modal = st.modal
             /\ n.input = st.input /\ n.contacts = st.contacts
<1>1. st.profiles \in [Profile -> ProfileView] /\ st.active \in Profile  BY StateFields
<1>2. PICK view : view = st.profiles[st.active]  OBVIOUS
<1>3. view \in ProfileView  BY <1>1, <1>2
<1>4. PICK setup : setup = FoldSetup(view, r, o)  OBVIOUS
<1>5. setup \in [1 .. 5 -> BOOLEAN]  BY <1>3, <1>4, FoldTyped
<1>6. PICK folded : folded = [view EXCEPT !.setup = setup,
                              !.published = view.published \/ (o.ok /\ r.command = "relay publish")]
  OBVIOUS
<1>7. folded \in ProfileView  BY <1>3, <1>5, <1>6 DEF ProfileView
<1>8. PICK ps : ps = [st.profiles EXCEPT ![st.active] = folded]  OBVIOUS
<1>9. ps \in [Profile -> ProfileView]  BY <1>1, <1>7, <1>8
<1>10. PICK m : m = [st EXCEPT !.profiles = ps]  OBVIOUS
<1>11. m \in OperatorState /\ m.modal = st.modal /\ m.input = st.input /\ m.contacts = st.contacts
  BY <1>9, <1>10 DEF OperatorState
<1>12. ApplyOutcome(st, r, o) = m  BY <1>2, <1>4, <1>6, <1>8, <1>10 DEF ApplyOutcome
<1>13. PICK n : n = [m EXCEPT !.busy = FALSE]  OBVIOUS
<1>14. n \in OperatorState /\ n.busy = FALSE /\ n.modal = st.modal /\ n.input = st.input
       /\ n.contacts = st.contacts
  BY <1>11, <1>13 DEF OperatorState
<1>15. QED  BY <1>12, <1>13, <1>14

\* The roster takes at most the card of the modal.
LEMMA ObservedState ==
  ASSUME NEW st \in OperatorState, NEW modal \in Modal
  PROVE  \E n \in OperatorState :
            /\ n = ObserveContact(st, modal)
            /\ n.busy = st.busy /\ n.modal = st.modal /\ n.input = st.input
            /\ \A i \in DOMAIN n.contacts :
                  n.contacts[i] = modal.card \/ \E j \in DOMAIN st.contacts : n.contacts[i] = st.contacts[j]
<1>1. PICK cs : cs = Append(st.contacts, modal.card)  OBVIOUS
<1>2. st.contacts \in Seq(Card) /\ modal.card \in Card  BY StateFields DEF Modal
<1>3. cs \in Seq(Card)  BY <1>1, <1>2
<1>4. \A i \in DOMAIN cs : cs[i] = modal.card \/ \E j \in DOMAIN st.contacts : cs[i] = st.contacts[j]
  BY <1>1, <1>2
<1>5. PICK n : n = [st EXCEPT !.contacts = cs]  OBVIOUS
<1>6. n \in OperatorState /\ n.busy = st.busy /\ n.modal = st.modal /\ n.input = st.input
      /\ n.contacts = cs
  BY <1>3, <1>5 DEF OperatorState
<1>7. ObserveContact(st, modal) = st \/ ObserveContact(st, modal) = n
  BY <1>1, <1>5 DEF ObserveContact
<1>8. QED  BY <1>4, <1>6, <1>7

\* The state a settled command leaves, as the frame renders it.
LEMMA SettledState ==
  ASSUME IInv, NEW ch \in children, NEW outcome \in Outcomes(ch), Settle(ch, outcome)
  PROVE  \E n \in OperatorState :
            /\ n.busy = FALSE /\ n.modal = cur.modal /\ n.input = cur.input
            /\ \A i \in DOMAIN n.contacts : \E p \in Profile : n.contacts[i] \in store[p].trusted
            /\ SameButRendered(n, cur')
<1>1. ch \in Child /\ children = {ch} /\ cur.busy /\ ChildOK(ch)  BY AChild DEF IInv, TypeOK
<1>3. outcome \in [ok: BOOLEAN, contacts: BOOLEAN] /\ (outcome.ok => ch.phase = "committed")
  BY DEF Outcomes
<1>4. PICK folded : folded = [ApplyOutcome(cur, ch.request, outcome) EXCEPT !.busy = FALSE]  OBVIOUS
<1>5. /\ folded \in OperatorState /\ folded.busy = FALSE /\ folded.modal = cur.modal
      /\ folded.input = cur.input /\ folded.contacts = cur.contacts
  BY <1>1, <1>3, <1>4, AppliedState, ChildFields DEF IInv, TypeOK
<1>6. PICK n : n = Observed(folded, ch.request, outcome)  OBVIOUS
<1>7. /\ n \in OperatorState /\ n.busy = FALSE /\ n.modal = cur.modal /\ n.input = cur.input
      /\ \A i \in DOMAIN n.contacts : \E p \in Profile : n.contacts[i] \in store[p].trusted
  <2>1. CASE n = folded  BY <1>5, <2>1 DEF IInv, RosterTrusted
  <2>2. CASE /\ ch.request.command = "contact import" /\ outcome.ok /\ confirmed # None
             /\ n = ObserveContact(folded, confirmed)
    <3>1. confirmed \in Modal  BY <2>2 DEF IInv, TypeOK
    <3>2. confirmed.card \in store[ch.request.profile].trusted
      BY <1>1, <1>3, <2>2 DEF ChildOK
    <3>3. ch.request.profile \in Profile  BY <1>1, ChildFields
    <3>4. /\ n \in OperatorState /\ n.busy = FALSE /\ n.modal = cur.modal /\ n.input = cur.input
          /\ \A i \in DOMAIN n.contacts :
                \/ n.contacts[i] = confirmed.card
                \/ \E j \in DOMAIN cur.contacts : n.contacts[i] = cur.contacts[j]
      <4>1. PICK m \in OperatorState :
               /\ m = ObserveContact(folded, confirmed)
               /\ m.busy = folded.busy /\ m.modal = folded.modal /\ m.input = folded.input
               /\ \A i \in DOMAIN m.contacts :
                     \/ m.contacts[i] = confirmed.card
                     \/ \E j \in DOMAIN folded.contacts : m.contacts[i] = folded.contacts[j]
        BY <1>5, <3>1, ObservedState
      <4>2. n = m  BY <2>2, <4>1
      <4>3. n \in OperatorState /\ n.busy = FALSE /\ n.modal = cur.modal /\ n.input = cur.input
        BY <1>5, <4>1, <4>2
      <4>4. ASSUME NEW i \in DOMAIN n.contacts
            PROVE  \/ n.contacts[i] = confirmed.card
                   \/ \E j \in DOMAIN cur.contacts : n.contacts[i] = cur.contacts[j]
        <5>1. m.contacts[i] = confirmed.card \/ \E j \in DOMAIN folded.contacts : m.contacts[i] = folded.contacts[j]
          BY <4>1, <4>2
        <5>2. QED  BY <1>5, <4>2, <5>1
      <4>5. QED  BY <4>3, <4>4
    <3>5. QED  BY <3>2, <3>3, <3>4 DEF IInv, RosterTrusted
  <2>3. QED  BY <1>6, <2>1, <2>2 DEF Observed
<1>8. SameButRendered(n, cur')
  <2>1. cur' = IF running THEN Paint(n) ELSE n  BY <1>4, <1>6 DEF Settle
  <2>2. SameButRendered(n, n)  BY <1>7 DEF SameButRendered
  <2>3. QED  BY <1>7, <2>1, <2>2, PaintFacts
<1>9. QED  BY <1>7, <1>8

LEMMA SettleInv ==
  ASSUME IInv, NEW ch \in children, NEW outcome \in Outcomes(ch), Settle(ch, outcome)
  PROVE  IInv'
<1>1. ch \in Child /\ children = {ch} /\ cur.busy /\ ChildOK(ch)  BY AChild DEF IInv, TypeOK
<1>2. /\ children' = {} /\ awaiting' = None /\ UNCHANGED <<running, small, store, commands>>
      /\ confirmed' \in {None, confirmed}
  BY <1>1 DEF Settle
<1>3. PICK n \in OperatorState :
            /\ n.busy = FALSE /\ n.modal = cur.modal /\ n.input = cur.input
            /\ \A i \in DOMAIN n.contacts : \E p \in Profile : n.contacts[i] \in store[p].trusted
            /\ SameButRendered(n, cur')
  BY SettledState
<1>4. cur' \in OperatorState /\ cur'.busy = FALSE /\ cur'.contacts = n.contacts
      /\ cur'.input = None
  BY <1>1, <1>3 DEF SameButRendered, IInv, RowAlone
<1>5. TypeOK'  BY <1>2, <1>4, Typed DEF IInv, ShellTyped, ChildrenTyped
<1>6. OneChild' /\ RowAlone'  BY <1>2, <1>4 DEF OneChild, RowAlone
<1>7. RosterTrusted'  BY <1>2, <1>3, <1>4 DEF RosterTrusted
<1>8. QED  BY <1>5, <1>6, <1>7 DEF IInv

LEMMA ResizeInv ==
  ASSUME IInv, Resize \/ UNCHANGED vars
  PROVE  IInv'
<1>1. UNCHANGED <<cur, confirmed, running, children, awaiting, store, commands>> /\ small' \in BOOLEAN
  BY DEF IInv, TypeOK, Resize, vars
<1>2. TypeOK' /\ RowAlone' /\ RosterTrusted'  BY <1>1 DEF IInv, TypeOK, RowAlone, RosterTrusted
<1>3. ASSUME NEW ch, ChildOK(ch) PROVE ChildOK(ch)'  BY <1>1, <1>3, ChildKept
<1>4. OneChild'  BY <1>1, <1>3 DEF IInv, OneChild
<1>5. QED  BY <1>2, <1>4 DEF IInv

LEMMA Inductive ==
  ASSUME IInv, [Next]_vars
  PROVE  IInv'
<1>1. CASE Data  BY <1>1, KeyInv DEF Data
<1>2. CASE Resize \/ UNCHANGED vars  BY <1>2, ResizeInv
<1>3. ASSUME NEW ch \in children, OnTrustIdentifiers(ch) PROVE IInv'
  BY <1>3, OnTrustIdentifiersInv
<1>4. ASSUME NEW ch \in children, Execute(ch) PROVE IInv'  BY <1>4, ExecuteInv
<1>5. ASSUME NEW ch \in children, NEW outcome \in Outcomes(ch), Settle(ch, outcome) PROVE IInv'
  BY <1>5, SettleInv
<1>6. QED  BY <1>1, <1>2, <1>3, <1>4, <1>5 DEF Next

-----------------------------------------------------------------------------
(* What follows from it.                                                   *)

\* The invariant holds of every session: any keys, resizes and children
\* (tui-shell.ts, handleKey, onTrustIdentifiers and apply; main.ts, runCli).
THEOREM ConsoleInvariant == Spec => []IInv
BY Initially, Inductive, PTL DEF Spec

\* Every variable keeps its type; a session's children never run out of ids.
THEOREM ConsoleTyped == Spec => []TypeOK
BY ConsoleInvariant, PTL DEF IInv

\* The modal and the input row are never open together (reduce opens a row only
\* without a modal and in an idle console, and a modal is a running child's).
THEOREM NoModalOverRow == Spec => []RowAndModalExclude
<1>1. IInv => RowAndModalExclude  BY DEF IInv, RowAlone, RowAndModalExclude
<1>2. QED  BY <1>1, ConsoleInvariant, PTL

\* The console is busy exactly while it has a child, and it never has two
\* (reduce refuses a run while busy; apply clears busy when the child exits).
THEOREM BusyWithOneChild == Spec => []BusyIffChild
<1>1. IInv => BusyIffChild
  <2>1. Cardinality({}) = 0  BY FS_EmptySet
  <2>2. \A ch : Cardinality({ch}) = 1  BY FS_Singleton
  <2>3. CASE children = {} /\ ~cur.busy  BY <2>1, <2>3 DEF BusyIffChild
  <2>4. ASSUME NEW ch, children = {ch}, cur.busy PROVE BusyIffChild
    <3>1. Cardinality(children) = 1  BY <2>2, <2>4
    <3>2. QED  BY <2>4, <3>1 DEF BusyIffChild
  <2>5. QED  BY <2>3, <2>4 DEF IInv, OneChild
<1>2. QED  BY <1>1, ConsoleInvariant, PTL

\* A child at its prompt is the one an answer reaches, and its identifiers are in
\* the modal (onTrustIdentifiers, answerTrustPrompt).
THEOREM PromptsAnswerable == Spec => []PromptCanBeAnswered
<1>1. IInv => PromptCanBeAnswered
  <2> SUFFICES ASSUME IInv, NEW ch \in children, ch.phase = "prompt", ch.answer = "none"
               PROVE  /\ awaiting = ch.id /\ cur.modal # None
                      /\ cur.modal.profile = ch.request.profile /\ cur.modal.card = ch.request.card
    BY DEF PromptCanBeAnswered
  <2>1. ChildOK(ch)  BY AChild DEF IInv
  <2>2. QED  BY <2>1 DEF ChildOK, Waits
<1>2. QED  BY <1>1, ConsoleInvariant, PTL

\* The roster names only trusted contacts, whichever children died and whatever
\* they left confirmed (apply and observeContact).
THEOREM RosterIsTrusted == Spec => []RosterTrusted
<1>1. IInv => RosterTrusted  BY DEF IInv
<1>2. QED  BY <1>1, ConsoleInvariant, PTL

-----------------------------------------------------------------------------
(* The trust gate.                                                         *)

Subject(ch) == <<ch.request.profile, ch.request.card>>

LEMMA NobodyAgreed ==
  /\ children = {} => Agreed = {}
  /\ children' = {} => Agreed' = {}
BY DEF Agreed

LEMMA ChildAgreed ==
  ASSUME NEW ch
  PROVE  /\ children = {ch} /\ ch.answer = "yes" => Agreed = {Subject(ch)}
         /\ children = {ch} /\ ch.answer # "yes" => Agreed = {}
         /\ children' = {ch} /\ ch.answer = "yes" => Agreed' = {Subject(ch)}
         /\ children' = {ch} /\ ch.answer # "yes" => Agreed' = {}
BY DEF Agreed, Subject

LEMMA ShownSubject ==
  ASSUME IInv'
  PROVE  Shown' = {} \/ \E s \in Profile \X Card : Shown' = {s}
<1>1. cur'.modal = None \/ cur'.modal \in Modal  BY DEF IInv, TypeOK, OperatorState
<1>2. CASE cur'.modal \in Modal
  <2>1. <<cur'.modal.profile, cur'.modal.card>> \in Profile \X Card  BY <1>2 DEF Modal
  <2>2. Shown' = {} \/ Shown' = {<<cur'.modal.profile, cur'.modal.card>>}  BY DEF Shown
  <2>3. QED  BY <2>1, <2>2
<1>3. QED  BY <1>1, <1>2 DEF Shown

\* Whatever a step puts on the screen or takes from it is the gate's to do.
LEMMA GateScreen ==
  ASSUME IInv', Agreed' = Agreed, Trusted' = Trusted
  PROVE  [Gate!Next]_<<Shown, Agreed, Trusted>>
<1>1. CASE Shown' = {}  BY <1>1 DEF Gate!Next, Gate!Withdraw
<1>2. ASSUME NEW s \in Profile \X Card, Shown' = {s} PROVE Gate!Next
  BY <1>2 DEF Gate!Next, Gate!Present
<1>3. QED  BY <1>1, <1>2, ShownSubject

LEMMA SameStore ==
  ASSUME store' = store
  PROVE  Trusted' = Trusted
BY DEF Trusted

LEMMA KeyGate ==
  ASSUME IInv, IInv', NEW i \in MapKey(cur), HandleKey(i)
  PROVE  [Gate!Next]_<<Shown, Agreed, Trusted>>
<1>1. Trusted' = Trusted  BY KeyCases, SameStore
<1>2. PICK n :
         /\ SameButRendered(n, cur')
         /\ \/ UNCHANGED children
            \/ \E r \in CliRequest : Ran(cur, n, RunCli(r)) /\ children' = children \cup {Spawn(r)}
            \/ \E yes \in BOOLEAN : Answered(cur, n, Answer(yes)) /\ AnswerTrustPrompt(yes)
  BY KeyCases
<1>3. CASE UNCHANGED children
  <2>1. Agreed' = Agreed  BY <1>3 DEF Agreed
  <2>2. QED  BY <1>1, <2>1, GateScreen
<1>4. ASSUME NEW r \in CliRequest, Ran(cur, n, RunCli(r)), children' = children \cup {Spawn(r)}
      PROVE  [Gate!Next]_<<Shown, Agreed, Trusted>>
  <2>1. children = {}  BY <1>4 DEF IInv, OneChild, Ran
  <2>2. children' = {Spawn(r)} /\ Spawn(r).answer = "none"  BY <1>4, <2>1, SpawnedChild
  <2>3. Agreed' = Agreed  BY <2>1, <2>2, NobodyAgreed, ChildAgreed
  <2>4. QED  BY <1>1, <2>3, GateScreen
<1>5. ASSUME NEW yes \in BOOLEAN, Answered(cur, n, Answer(yes)), AnswerTrustPrompt(yes)
      PROVE  [Gate!Next]_<<Shown, Agreed, Trusted>>
  <2>1. cur.modal # None /\ n.modal = None  BY <1>5 DEF Answered
  <2>2. CASE children = {} /\ children' = {}
    <3>1. Agreed' = Agreed  BY <2>2, NobodyAgreed
    <3>2. QED  BY <1>1, <3>1, GateScreen
  <2>3. ASSUME NEW ch \in Child, NEW c \in Child, children = {ch}, children' = {c}, ChildOK(ch), Waits(ch),
               c.answer = (IF yes THEN "yes" ELSE "no"), c.request = ch.request
        PROVE  [Gate!Next]_<<Shown, Agreed, Trusted>>
    <3>1. Agreed = {}  BY <2>3, ChildAgreed DEF Waits
    <3>2. CASE ~yes
      <4>1. Agreed' = {}  BY <2>3, <3>2, ChildAgreed
      <4>2. QED  BY <1>1, <3>1, <4>1, GateScreen
    <3>3. CASE yes
      <4>1. Agreed' = {Subject(c)} /\ Subject(c) = Subject(ch)
        BY <2>3, <3>3, ChildAgreed DEF Subject
      <4>2. cur.modal.rendered /\ cur.modal.complete
        <5>1. Answer(yes) # Answer(FALSE)
          <6>1. Answer(yes).answer = TRUE /\ Answer(FALSE).answer = FALSE  BY <3>3, AnswerEffect
          <6>2. QED  BY <6>1
        <5>2. QED  BY <1>5, <5>1 DEF Answered
      <4>3. cur.modal.profile = ch.request.profile /\ cur.modal.card = ch.request.card
        BY <2>3 DEF ChildOK
      <4>4. Shown = {Subject(ch)}  BY <2>1, <4>2, <4>3 DEF Shown, Subject
      <4>5. Shown' = {}
        <5>1. cur'.modal = None  BY <1>2, <2>1 DEF SameButRendered
        <5>2. QED  BY <5>1 DEF Shown
      <4>6. Subject(ch) \in Profile \X Card
        <5>1. IsImport(ch)  BY <2>3 DEF ChildOK, Waits
        <5>2. QED  BY <2>3, <5>1, ChildFields DEF IsImport, Subject
      <4>7. PICK s \in Profile \X Card : s = Subject(ch)  BY <4>6
      <4>8. Gate!Agree(s)  BY <1>1, <3>1, <4>1, <4>4, <4>5, <4>7 DEF Gate!Agree
      <4>9. QED  BY <4>8 DEF Gate!Next
    <3>4. QED  BY <3>2, <3>3
  <2>4. QED  BY <1>5, <2>1, <2>2, <2>3, AnswerReaches
<1>6. QED  BY <1>2, <1>3, <1>4, <1>5

LEMMA OnTrustIdentifiersGate ==
  ASSUME IInv, IInv', NEW ch \in children, OnTrustIdentifiers(ch)
  PROVE  [Gate!Next]_<<Shown, Agreed, Trusted>>
<1>1. ch \in Child /\ children = {ch} /\ ChildOK(ch) /\ ch.phase = "started"
  BY AChild DEF IInv, TypeOK, OnTrustIdentifiers
<1>2. PICK c : c = [ch EXCEPT !.phase = "prompt"]  OBVIOUS
<1>3. children' = {c} /\ c.answer = ch.answer
  BY <1>1, <1>2, PhasedChild DEF OnTrustIdentifiers, Replace
<1>4. ch.answer = "none"  BY <1>1 DEF ChildOK
<1>5. Agreed' = Agreed  BY <1>1, <1>3, <1>4, ChildAgreed
<1>6. Trusted' = Trusted  BY SameStore DEF OnTrustIdentifiers
<1>7. QED  BY <1>5, <1>6, GateScreen

LEMMA ExecuteGate ==
  ASSUME IInv, IInv', NEW ch \in children, Execute(ch)
  PROVE  [Gate!Next]_<<Shown, Agreed, Trusted>>
<1>1. ch \in Child /\ children = {ch}  BY AChild DEF IInv, TypeOK
<1>2. PICK c : c = [ch EXCEPT !.phase = "committed"]  OBVIOUS
<1>3. children' = {c} /\ c.answer = ch.answer /\ c.request = ch.request
  BY <1>1, <1>2, PhasedChild DEF Execute, Replace
<1>4. Agreed' = Agreed
  <2>1. CASE ch.answer = "yes"
    <3>1. Subject(c) = Subject(ch)  BY <1>3 DEF Subject
    <3>2. Agreed = {Subject(ch)} /\ Agreed' = {Subject(c)}  BY <1>1, <1>3, <2>1, ChildAgreed
    <3>3. QED  BY <3>1, <3>2
  <2>2. CASE ch.answer # "yes"  BY <1>1, <1>3, <2>2, ChildAgreed
  <2>3. QED  BY <2>1, <2>2
<1>5. CASE ch.request.command # "contact import"
  <2>1. \A p \in Profile : store'[p].trusted = store[p].trusted  BY <1>5, ExecuteStore
  <2>2. Trusted' = Trusted  BY <2>1 DEF Trusted
  <2>3. QED  BY <1>4, <2>2, GateScreen
<1>6. CASE ch.request.command = "contact import"
  <2>1. PICK p, card : p = ch.request.profile /\ card = ch.request.card  OBVIOUS
  <2>2. p \in Profile /\ card \in Card /\ ch.answer = "yes"
    BY <1>1, <1>6, <2>1, ExecuteStore, ChildFields DEF IsImport
  <2>3. store \in [Profile -> [exists: BOOLEAN, trusted: SUBSET Card]]  BY DEF IInv, TypeOK
  <2>4. PICK r : r = [store[p] EXCEPT !.trusted = @ \cup {card}]  OBVIOUS
  <2>5. r.trusted = store[p].trusted \cup {card}  BY <2>2, <2>3, <2>4
  <2>6. store' = [store EXCEPT ![p] = r]  BY <1>6, <2>1, <2>4, ExecuteStore
  <2>7. \A q \in Profile : store'[q].trusted = IF q = p THEN store[p].trusted \cup {card} ELSE store[q].trusted
    BY <2>2, <2>3, <2>5, <2>6
  <2>8. PICK s : s = <<p, card>>  OBVIOUS
  <2>9. s \in Profile \X Card  BY <2>2, <2>8
  <2>10. Trusted' = Trusted \cup {s}
    <3>1. ASSUME NEW t \in Profile \X Card
          PROVE  t[2] \in store'[t[1]].trusted <=> t[2] \in store[t[1]].trusted \/ t = s
      <4>1. PICK q \in Profile, x \in Card : t = <<q, x>>  BY <3>1
      <4>2. t[1] = q /\ t[2] = x /\ (t = s <=> q = p /\ x = card)  BY <2>8, <4>1
      <4>3. QED  BY <2>7, <4>2
    <3>2. QED  BY <2>9, <3>1 DEF Trusted
  <2>11. s \in Agreed  BY <1>1, <2>1, <2>2, <2>8, ChildAgreed DEF Subject
  <2>12. Shown' = Shown  BY DEF Execute, Shown
  <2>13. Gate!Trust(s)  BY <1>4, <2>10, <2>11, <2>12 DEF Gate!Trust
  <2>14. QED  BY <2>9, <2>13 DEF Gate!Next
<1>7. QED  BY <1>5, <1>6

LEMMA SettleGate ==
  ASSUME IInv, IInv', NEW ch \in children, NEW outcome \in Outcomes(ch), Settle(ch, outcome)
  PROVE  [Gate!Next]_<<Shown, Agreed, Trusted>>
<1>1. ch \in Child /\ children = {ch} /\ cur.busy /\ ChildOK(ch)  BY AChild DEF IInv, TypeOK
<1>2. children' = {} /\ Trusted' = Trusted  BY <1>1, SameStore DEF Settle
<1>3. Agreed' = {}  BY <1>2, NobodyAgreed
<1>4. CASE ch.answer # "yes"
  <2>1. Agreed = {}  BY <1>1, <1>4, ChildAgreed
  <2>2. QED  BY <1>2, <1>3, <2>1, GateScreen
<1>5. CASE ch.answer = "yes"
  <2>1. cur.modal = None  BY <1>1, <1>5 DEF ChildOK, Waits
  <2>2. cur'.modal = None  BY <2>1, SettledState DEF SameButRendered
  <2>3. Shown = {} /\ Shown' = {}  BY <2>1, <2>2 DEF Shown
  <2>4. IsImport(ch)  BY <1>1, <1>5 DEF ChildOK
  <2>5. Subject(ch) \in Profile \X Card  BY <1>1, <2>4, ChildFields DEF IsImport, Subject
  <2>6. PICK s \in Profile \X Card : s = Subject(ch)  BY <2>5
  <2>7. Agreed = {s}  BY <1>1, <1>5, <2>6, ChildAgreed
  <2>8. Gate!Drop(s)  BY <1>2, <1>3, <2>3, <2>7 DEF Gate!Drop
  <2>9. QED  BY <2>8 DEF Gate!Next
<1>6. QED  BY <1>4, <1>5

LEMMA GateStep ==
  ASSUME IInv, [Next]_vars
  PROVE  [Gate!Next]_<<Shown, Agreed, Trusted>>
<1>1. IInv'  BY Inductive
<1>2. CASE Data  BY <1>1, <1>2, KeyGate DEF Data
<1>3. CASE Resize \/ UNCHANGED vars  BY <1>3 DEF Resize, vars, Shown, Agreed, Trusted
<1>4. ASSUME NEW ch \in children, OnTrustIdentifiers(ch)
      PROVE  [Gate!Next]_<<Shown, Agreed, Trusted>>
  BY <1>1, <1>4, OnTrustIdentifiersGate
<1>5. ASSUME NEW ch \in children, Execute(ch)
      PROVE  [Gate!Next]_<<Shown, Agreed, Trusted>>
  BY <1>1, <1>5, ExecuteGate
<1>6. ASSUME NEW ch \in children, NEW outcome \in Outcomes(ch), Settle(ch, outcome)
      PROVE  [Gate!Next]_<<Shown, Agreed, Trusted>>
  BY <1>1, <1>6, SettleGate
<1>7. QED  BY <1>2, <1>3, <1>4, <1>5, <1>6 DEF Next

LEMMA GateInit ==
  ASSUME Init
  PROVE  Gate!Init
<1>1. cur.modal = None  BY DEF Init
<1>2. PICK ch : ch = [id |-> 1, request |-> Request("doctor", 1),
                      answer |-> "none", phase |-> "started"]
  OBVIOUS
<1>3. children = {ch} /\ ch.answer = "none"  BY <1>2 DEF Init
<1>4. Shown = {} /\ Agreed = {}  BY <1>1, <1>3, ChildAgreed DEF Shown
<1>5. Trusted \subseteq Profile \X Card  BY DEF Trusted
<1>6. QED  BY <1>4, <1>5 DEF Gate!Init

\* The console implements the trust gate: whatever keys are pressed, whenever the
\* terminal is resized and wherever a child dies, a profile comes to trust a card
\* only through a yes to that card's identifiers while they were on the screen,
\* complete and painted (TrustConfirm's branch of reduce, answerTrustPrompt and
\* the import of cli.ts).
THEOREM ConsoleImplementsGate == Spec => GateSpec
BY GateInit, GateStep, ConsoleInvariant, PTL DEF Spec, GateSpec, Gate!Spec
=============================================================================
