------------------------------ MODULE Console ------------------------------
(***************************************************************************)
(* The terminal console (apps/cli/src/tui): one process that turns keys    *)
(* into intents, reduces them over one state, spawns the CLI as a child    *)
(* per command and folds what the child reports back into the state.  A    *)
(* `contact import' child prints the identifiers of the card it read and   *)
(* waits at its own prompt; the console shows them in a modal and passes   *)
(* the operator's answer on.  Children commit to the profile store, fail   *)
(* or die at any point, before or after they committed, and the operator   *)
(* may press any key at any time, resize the terminal or leave.            *)
(***************************************************************************)
EXTENDS Naturals, Sequences, FiniteSets

CONSTANTS
    Profile,      \* the profiles named on the command line: 1 .. n
    Card,         \* contact cards; a card path names one of them
    LaunchCard,   \* [Profile -> Card or None]: --card
    LaunchUrl,    \* the profiles given a --relay-url
    KeyPresent,   \* the profiles whose store key is in the environment
    Filled,       \* a text that names no card
    Empty,        \* the empty text
    MaxCommands,  \* bound: commands one session runs
    None

ASSUME ConsoleAssumption ==
    /\ IsFiniteSet(Profile) /\ Profile # {} /\ Profile = 1 .. Cardinality(Profile)
    /\ LaunchCard \in [Profile -> Card \cup {None}]
    /\ MaxCommands \in Nat \ {0}
    /\ LaunchUrl \subseteq Profile /\ KeyPresent \subseteq Profile
    /\ {Filled, Empty, None} \cap Card = {}
    /\ Filled # Empty /\ None \notin Nat \cup {Filled, Empty}

VARIABLES
    cur,         \* `current', the operator state
    confirmed,   \* the modal whose confirmation the shell last emitted, or None
    running,     \* FALSE once the operator left
    small,       \* the viewport is below MIN_VIEWPORT
    children,    \* the children alive, with what they asked and how far they are
    awaiting,    \* awaitingTrust: the child whose stdin an answer goes to, or None
    store,       \* the profile stores the children work on
    commands     \* how many commands the session ran

vars == <<cur, confirmed, running, small, children, awaiting, store, commands>>

Command == {"init", "contact export", "contact import", "relay publish", "send",
            "poll", "history", "doctor"}
CliRequest == [command: Command, profile: Profile, card: Card \cup {Filled, None}]
Pane == {"profiles", "history"}
InputField == {"relay-url", "export-path", "card-path", "message"}
Buffer == Card \cup {Filled, Empty}
Modal == [profile: Profile, card: Card, complete: BOOLEAN, rendered: BOOLEAN]
Row == [field: InputField, buffer: Buffer, rendered: BOOLEAN]
ProfileView == [setup: [1 .. 5 -> BOOLEAN], relayUrl: BOOLEAN, published: BOOLEAN]
Child == [id: 1 .. MaxCommands, request: CliRequest, answer: {"none", "yes", "no"},
          phase: {"started", "prompt", "committed"}]

OperatorState ==
    [profiles: [Profile -> ProfileView], active: Profile, contacts: Seq(Card),
     selected: Card \cup {None}, pane: Pane, modal: Modal \cup {None}, busy: BOOLEAN,
     input: Row \cup {None}]

ASSUME NoneAssumption == None \notin Modal \cup Row

TypeOK ==
    /\ cur \in OperatorState
    /\ confirmed \in Modal \cup {None}
    /\ running \in BOOLEAN /\ small \in BOOLEAN
    /\ children \subseteq Child
    /\ awaiting \in (1 .. MaxCommands) \cup {None}
    /\ store \in [Profile -> [exists: BOOLEAN, trusted: SUBSET Card]]
    /\ commands \in 1 .. MaxCommands

-----------------------------------------------------------------------------
(* Frames and children *)

\* A frame below the minimum carries neither the modal nor the input row, so
\* writing it is not the operator having seen them.
Rendered(part) == IF part = None THEN None ELSE [part EXCEPT !.rendered = TRUE]
Paint(st) ==
    IF small THEN st
    ELSE [st EXCEPT !.modal = Rendered(st.modal), !.input = Rendered(st.input)]

Request(c, p) == [command |-> c, profile |-> p, card |-> None]
ImportRequest(p, from) == [command |-> "contact import", profile |-> p, card |-> from]

Spawn(request) ==
    [id |-> CHOOSE i \in 1 .. MaxCommands : \A ch \in children : ch.id # i,
     request |-> request, answer |-> "none", phase |-> "started"]

\* main.ts builds the profiles from the command line; nothing is known of them.
InitialProfile(p) ==
    [setup |-> [s \in 1 .. 5 |-> FALSE], relayUrl |-> p \in LaunchUrl, published |-> FALSE]

\* The first frame is written and a doctor is asked what is there.
Init ==
    /\ cur = [profiles |-> [p \in Profile |-> InitialProfile(p)], active |-> 1,
              contacts |-> <<>>, selected |-> None, pane |-> "profiles",
              modal |-> None, busy |-> TRUE, input |-> None]
    /\ confirmed = None /\ running = TRUE /\ awaiting = None
    /\ small \in BOOLEAN
    /\ children = {[id |-> 1, request |-> Request("doctor", 1),
                    answer |-> "none", phase |-> "started"]}
    /\ store \in [Profile -> [exists: BOOLEAN, trusted: {{}}]]
    /\ commands = 1

-----------------------------------------------------------------------------
(* Keys and the intents they mean *)

Kind(k) == [kind |-> k]
When(condition, intents) == IF condition THEN intents ELSE {}
RunIntent(request) == [kind |-> "run", request |-> request]
OpenIntent(field) == [kind |-> "input-open", field |-> field]

NextSetupStep(view, p) ==
    IF p \notin KeyPresent THEN {}
    ELSE {s \in 1 .. 5 : ~view.setup[s] /\ \A earlier \in 1 .. s - 1 : view.setup[earlier]}

SetupStepIntent(view, p) ==
    {CASE s = 1 -> IF view.relayUrl THEN RunIntent(Request("init", p)) ELSE OpenIntent("relay-url")
       [] s = 2 -> RunIntent(Request("relay publish", p))
       [] s = 3 -> OpenIntent("export-path")
       [] s = 4 -> OpenIntent("card-path")
       [] s = 5 -> RunIntent(Request("doctor", p)) : s \in NextSetupStep(view, p)}

\* The contact after the selected one, the first when none is selected.
NextContact(st) ==
    LET n == Len(st.contacts)
        at == {i \in 1 .. n : st.contacts[i] = st.selected}
    IN  IF n = 0 THEN {}
        ELSE {st.contacts[((IF at = {} THEN 0 ELSE CHOOSE i \in at : TRUE) % n) + 1]}

PaneKeyIntent(st) ==
    LET p == st.active
        view == st.profiles[p]
        chosen == st.selected # None
    IN  {RunIntent(Request(c, p)) : c \in {"poll", "doctor", "relay publish"}}
        \cup When(chosen, {RunIntent(Request("history", p))})
        \cup When(LaunchCard[p] # None, {RunIntent(ImportRequest(p, LaunchCard[p]))})
        \cup When(st.pane = "history" /\ chosen /\ ~st.busy /\ view.published,
                  {OpenIntent("message")})
        \cup When(st.pane = "profiles" /\ ~st.busy, SetupStepIntent(view, p))
        \cup {[kind |-> "select-contact", card |-> c] : c \in NextContact(st)}
        \cup When(Cardinality(Profile) > 1,
                  {[kind |-> "select-profile", index |-> (p % Cardinality(Profile)) + 1]})

ModalIntent == {Kind("trust-confirm"), Kind("trust-cancel")}

\* Every chunk is text; how much of it the row keeps is up to the text.
InputKey(field) ==
    {Kind("quit"), Kind("input-cancel"), Kind("input-submit")}
    \cup {[kind |-> "input-edit", buffer |-> b] :
             b \in IF field = "card-path" THEN Buffer ELSE {Filled, Empty}}

MapKey(st) ==
    IF st.modal # None THEN {Kind("quit")} \cup ModalIntent
    ELSE IF st.input # None THEN InputKey(st.input.field)
    ELSE {Kind("quit"), Kind("toggle-help")}
         \cup {[kind |-> "select-pane", pane |-> pane] : pane \in Pane}
         \cup {i \in PaneKeyIntent(st) : ~(st.busy /\ i.kind = "run")}

-----------------------------------------------------------------------------
(* The reducer: a state and at most one effect *)

Step(st, effect) == [state |-> st, effect |-> effect]
NoEffect == Kind("none")
Refuse(st) == Step(st, NoEffect)
RunCli(request) == [kind |-> "run-cli", request |-> request]
Answer(yes) == [kind |-> "answer-trust-prompt", answer |-> yes]

InitialBuffer(st, field) ==
    CASE field = "export-path" -> Filled
      [] field = "card-path" -> IF LaunchCard[st.active] = None THEN Empty ELSE LaunchCard[st.active]
      [] OTHER -> Empty

\* The request an open row submits, if its operands are complete.
SubmitRequest(st) ==
    LET p == st.active
        value == st.input.buffer
    IN  IF value = Empty THEN {}
        ELSE CASE st.input.field = "message" ->
                    When(st.selected # None /\ st.profiles[p].published, {Request("send", p)})
               [] st.input.field = "relay-url" -> When(p \in KeyPresent, {Request("init", p)})
               [] st.input.field = "export-path" -> {Request("contact export", p)}
               [] st.input.field = "card-path" -> {ImportRequest(p, value)}

\* Mutant: a command in flight does not keep the next one back.
RunWithoutBusy(st, request) == Step(st, RunCli(request))

Run(st, request) ==
    IF st.busy THEN Refuse(st) ELSE Step([st EXCEPT !.busy = TRUE], RunCli(request))

\* Mutant: a modal that no frame has shown can be confirmed.
ConfirmUnpainted(st) ==
    IF st.modal = None THEN Refuse(st)
    ELSE IF ~st.modal.complete THEN Refuse(st)
    ELSE Step([st EXCEPT !.modal = None], Answer(TRUE))

TrustConfirm(st) ==
    IF st.modal = None THEN Refuse(st)
    ELSE IF ~st.modal.rendered \/ ~st.modal.complete THEN Refuse(st)
    ELSE Step([st EXCEPT !.modal = None], Answer(TRUE))

\* Mutant: the modal goes without an answer to the child.
DismissUnanswered(st) == Refuse([st EXCEPT !.modal = None])

TrustCancel(st) ==
    IF st.modal = None THEN Refuse(st)
    ELSE Step([st EXCEPT !.modal = None], Answer(FALSE))

InputOpen(st, field) ==
    IF st.modal # None \/ st.busy THEN Refuse(st)
    ELSE Refuse([st EXCEPT !.input = [field |-> field, buffer |-> InitialBuffer(st, field),
                                      rendered |-> FALSE]])

InputEdit(st, buffer) ==
    IF st.input = None \/ st.modal # None THEN Refuse(st)
    ELSE Refuse([st EXCEPT !.input = [st.input EXCEPT !.buffer = buffer]])

InputSubmit(st) ==
    IF st.input = None \/ st.modal # None \/ st.busy THEN Refuse(st)
    ELSE IF ~st.input.rendered \/ SubmitRequest(st) = {} THEN Refuse(st)
    ELSE LET request == CHOOSE r \in SubmitRequest(st) : TRUE
             view == st.profiles[st.active]
             known == [view EXCEPT !.relayUrl = view.relayUrl \/ request.command = "init"]
         IN  Step([st EXCEPT !.profiles = [st.profiles EXCEPT ![st.active] = known],
                             !.input = None, !.busy = TRUE],
                  RunCli(request))

Reduce(st, i) ==
    CASE i.kind = "select-pane" -> Refuse([st EXCEPT !.pane = i.pane])
      [] i.kind = "select-profile" -> Refuse([st EXCEPT !.active = i.index])
      [] i.kind = "select-contact" -> Refuse([st EXCEPT !.selected = i.card])
      [] i.kind = "run" -> Run(st, i.request)
      [] i.kind = "trust-confirm" -> TrustConfirm(st)
      [] i.kind = "trust-cancel" -> TrustCancel(st)
      [] i.kind = "input-open" -> InputOpen(st, i.field)
      [] i.kind = "input-edit" -> InputEdit(st, i.buffer)
      [] i.kind = "input-cancel" -> Refuse([st EXCEPT !.input = None])
      [] i.kind = "input-submit" -> InputSubmit(st)
      [] i.kind = "quit" -> Step(st, Kind("quit"))
      [] i.kind = "toggle-help" -> Refuse(st)

-----------------------------------------------------------------------------
(* What a settled command reports *)

SetupStepOf(command) ==
    CASE command = "init" -> 1
      [] command = "relay publish" -> 2
      [] command = "contact export" -> 3
      [] command = "contact import" -> 4
      [] command = "doctor" -> 5
      [] OTHER -> 6

\* A doctor that counts no contact completes nothing.
StepSucceeded(request, outcome) == outcome.ok /\ (request.command = "doctor" => outcome.contacts)

\* The step that settled takes its outcome and every later one starts over, on
\* the profile that is active now.
FoldSetup(view, request, outcome) ==
    LET step == SetupStepOf(request.command)
    IN  [s \in 1 .. 5 |-> IF s = step THEN StepSucceeded(request, outcome)
                          ELSE s < step /\ view.setup[s]]

ApplyOutcome(st, request, outcome) ==
    LET view == st.profiles[st.active]
        folded == [view EXCEPT !.setup = FoldSetup(view, request, outcome),
                               !.published = view.published
                                             \/ (outcome.ok /\ request.command = "relay publish")]
    IN  [st EXCEPT !.profiles = [st.profiles EXCEPT ![st.active] = folded]]

\* The roster takes what the operator confirmed, once.
ObserveContact(st, modal) ==
    IF ~modal.complete \/ \E i \in DOMAIN st.contacts : st.contacts[i] = modal.card THEN st
    ELSE [st EXCEPT !.contacts = Append(st.contacts, modal.card)]

-----------------------------------------------------------------------------
(* The shell's callbacks *)

\* The answer goes to the child the shell awaits, if it still awaits one.
AnswerTrustPrompt(yes) ==
    children' = {IF ch.id = awaiting THEN [ch EXCEPT !.answer = IF yes THEN "yes" ELSE "no"]
                 ELSE ch : ch \in children}

\* One keystroke: reduced, painted, and its effect begun.
HandleKey(i) ==
    LET step == Reduce(cur, i)
        effect == step.effect
    IN  /\ cur' = Paint(step.state)
        /\ confirmed' = IF effect = Answer(TRUE) THEN cur.modal ELSE confirmed
        /\ running' = (effect.kind # "quit")
        /\ CASE effect.kind = "run-cli" ->
                   /\ commands < MaxCommands /\ commands' = commands + 1
                   /\ children' = children \cup {Spawn(effect.request)}
             [] effect.kind = "answer-trust-prompt" ->
                   AnswerTrustPrompt(effect.answer) /\ UNCHANGED commands
             [] OTHER -> UNCHANGED <<children, commands>>
        /\ UNCHANGED <<small, awaiting, store>>

\* Bytes from the terminal are dropped once the operator left.
Data == running /\ \E i \in MapKey(cur) : HandleKey(i)

\* Nothing listens for a resize: the size is read when a frame is painted.
Resize == small' = ~small /\ UNCHANGED <<cur, confirmed, running, children, awaiting, store, commands>>

Replace(ch, with) == children' = (children \ {ch}) \cup {with}

\* An import child prints the identifiers it verified and waits for an answer.
OnTrustIdentifiers(ch) ==
    /\ ch.phase = "started" /\ ch.request.command = "contact import"
    /\ ch.request.card \in Card /\ store[ch.request.profile].exists
    /\ Replace(ch, [ch EXCEPT !.phase = "prompt"])
    /\ awaiting' = ch.id
    /\ \E complete \in BOOLEAN :
          cur' = Paint([cur EXCEPT !.modal = [profile |-> ch.request.profile, complete |-> complete,
                                              card |-> ch.request.card, rendered |-> FALSE]])
    /\ UNCHANGED <<confirmed, running, small, store, commands>>

\* A child does its work: import only once it was answered yes.
Execute(ch) ==
    LET p == ch.request.profile
        c == ch.request.command
    IN  /\ p \in KeyPresent
        /\ \/ c = "init" /\ ch.phase = "started"
              /\ store' = [store EXCEPT ![p] = [store[p] EXCEPT !.exists = TRUE]]
           \/ c = "contact import" /\ ch.phase = "prompt" /\ ch.answer = "yes"
              /\ store' = [store EXCEPT ![p] = [store[p] EXCEPT !.trusted = @ \cup {ch.request.card}]]
           \/ c \notin {"init", "contact import"} /\ ch.phase = "started" /\ store[p].exists
              /\ UNCHANGED store
        /\ Replace(ch, [ch EXCEPT !.phase = "committed"])
        /\ UNCHANGED <<cur, confirmed, running, small, awaiting, commands>>

\* What a child may report: success only of what it did, and a failure or an
\* unreadable outcome at any point, after its work too.
Outcomes(ch) ==
    {o \in [ok: BOOLEAN, contacts: BOOLEAN] :
        /\ o.ok => ch.phase = "committed"
        /\ o.contacts = (o.ok /\ store[ch.request.profile].trusted # {})}

\* Mutant: the contact is listed whatever the import reported.
ObserveAnyOutcome(st, request, outcome) ==
    IF request.command = "contact import" /\ confirmed # None
    THEN ObserveContact(st, confirmed) ELSE st

Observed(st, request, outcome) ==
    IF request.command = "contact import" /\ outcome.ok /\ confirmed # None
    THEN ObserveContact(st, confirmed) ELSE st

\* The command settles: `done' in main.ts, then the rest of `apply'.
Settle(ch, outcome) ==
    LET folded == [ApplyOutcome(cur, ch.request, outcome) EXCEPT !.busy = FALSE]
        observed == Observed(folded, ch.request, outcome)
    IN  /\ children' = children \ {ch}
        /\ awaiting' = None
        /\ cur' = IF running THEN Paint(observed) ELSE observed
        /\ confirmed' = IF ch.request.command = "contact import" THEN None ELSE confirmed
        /\ UNCHANGED <<running, small, store, commands>>

Next ==
    \/ Data
    \/ Resize
    \/ \E ch \in children :
          \/ OnTrustIdentifiers(ch)
          \/ Execute(ch)
          \/ \E outcome \in Outcomes(ch) : Settle(ch, outcome)

Spec == Init /\ [][Next]_vars

-----------------------------------------------------------------------------
(* Properties *)

\* A modal never arrives over an open input row, nor a row behind a modal,
\* which is why neither needs to know of the other.
RowAndModalExclude == cur.modal = None \/ cur.input = None

\* One command in flight: the console is busy exactly while its one child lives,
\* so two children never meet in one profile store.
BusyIffChild ==
    /\ cur.busy <=> children # {}
    /\ Cardinality(children) <= 1

\* A child that waits for an answer has its own identifiers on the screen and is
\* the one an answer would reach, for as long as the operator is there.
PromptCanBeAnswered ==
    \A ch \in children :
        running /\ ch.phase = "prompt" /\ ch.answer = "none" =>
            /\ awaiting = ch.id
            /\ cur.modal # None
            /\ <<cur.modal.profile, cur.modal.card>> = <<ch.request.profile, ch.request.card>>

\* The roster names only contacts that some profile store trusts, whatever
\* children died in between and whichever confirmations they left behind.
RosterTrusted ==
    \A i \in DOMAIN cur.contacts : \E p \in Profile : cur.contacts[i] \in store[p].trusted

\* What the operator can agree to, the yeses on their way, and what is trusted.
Shown ==
    IF cur.modal = None THEN {}
    ELSE IF ~cur.modal.rendered \/ ~cur.modal.complete THEN {}
    ELSE {<<cur.modal.profile, cur.modal.card>>}
Agreed == {<<ch.request.profile, ch.request.card>> : ch \in {c \in children : c.answer = "yes"}}
Trusted == {s \in Profile \X Card : s[2] \in store[s[1]].trusted}

\* The console implements the trust gate: a profile comes to trust a card only
\* through a yes given to that card's identifiers, complete and painted.
Gate == INSTANCE TrustGate WITH
    Subject <- Profile \X Card, shown <- Shown, agreed <- Agreed, trusted <- Trusted

GateSpec == Gate!Spec

=============================================================================
