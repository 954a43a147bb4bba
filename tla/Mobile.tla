------------------------------- MODULE Mobile -------------------------------
(***************************************************************************)
(* The mobile prototype (apps/mobile) with its development demo enabled:   *)
(* phones that publish a prekey bundle to a relay, send envelopes and poll *)
(* their mailboxes.  The demo keeps its sessions and messages in the state *)
(* of the messaging screen: leaving the screen drops them, while a handler *)
(* that is waiting for the relay goes on and only its updates of the       *)
(* screen are ignored; coming back starts with a fresh, idle screen.  Any  *)
(* call to the relay may fail, or take effect and lose its answer, and the *)
(* relay drops an envelope once its 24 hours are over.                     *)
(***************************************************************************)
EXTENDS Naturals, FiniteSets

CONSTANTS
    Phone,         \* identities, one device each
    Onboarded,     \* the phones that are past their onboarding at the start
    Writes,        \* the pairs of phones of which the first writes to the second
    Readers,       \* the phones whose users read their mail
    Restless,      \* the phones whose users change screens by hand
    MaxSwitches,   \* bound: changes of screen by hand
    MaxMessages,   \* bound: messages composed
    MaxHandlers    \* bound: handlers of one phone in flight, stale ones included

ASSUME MobileAssumption ==
    /\ MaxMessages \in Nat /\ MaxSwitches \in Nat /\ MaxHandlers \in Nat \ {0}
    /\ Onboarded \subseteq Phone /\ Readers \subseteq Phone /\ Restless \subseteq Phone
    /\ Writes \subseteq Phone \X Phone

VARIABLES
    screen,     \* the active screen of each phone
    step,       \* the step of the onboarding screen
    profile,    \* the phones whose app holds a profile
    view,       \* the state of each messaging screen
    handlers,   \* handlers in flight
    bundles,    \* relay: the identities with a published bundle
    mailbox,    \* relay: the envelopes held for each phone, numbered as they were accepted
    composed,   \* how many messages were composed
    switches,   \* how often a screen was changed by hand
    fate        \* what happened to each message so far

mobileVars == <<screen, step, profile, view, handlers, bundles, mailbox, composed, switches, fate>>

MessageId == 1 .. MaxMessages
Counters == [Phone -> 0 .. MaxMessages]
Envelope == [id: MessageId, from: Phone, counter: 0 .. MaxMessages]
View == [busy: BOOLEAN, published: BOOLEAN, loaded: SUBSET Phone,
         outbound: Counters, inbound: Counters, shown: SUBSET Envelope]
Stage == {"register", "own", "fetch", "done", "post", "poll", "open", "show", "ack"}
Cause == {"opened", "skipped", "expired"}
Handler == [id: 1 .. MaxHandlers, phone: Phone, live: BOOLEAN,
            kind: {"register", "publish", "load", "send", "poll"}, to: Phone, stage: Stage,
            have: BOOLEAN,
            inbound: Counters, outbound: Counters, batch: SUBSET Envelope,
            unread: SUBSET Envelope, opened: SUBSET Envelope]

MobileTypeOK ==
    /\ screen \in [Phone -> {"onboarding", "messages", "terminal"}]
    /\ step \in [Phone -> 1 .. 3]
    /\ profile \subseteq Phone
    /\ view \in [Phone -> View]
    /\ handlers \subseteq Handler
    /\ bundles \subseteq Phone
    /\ mailbox \in [Phone -> SUBSET Envelope]
    /\ composed \in 0 .. MaxMessages
    /\ switches \in 0 .. MaxSwitches
    /\ fate \in [MessageId -> SUBSET Cause]

Zero == [q \in Phone |-> 0]
FreshView == [busy |-> FALSE, published |-> FALSE, loaded |-> {}, outbound |-> Zero,
              inbound |-> Zero, shown |-> {}]

MobileInit ==
    /\ screen = [p \in Phone |-> IF p \in Onboarded THEN "messages" ELSE "onboarding"]
    /\ step = [p \in Phone |-> 1]
    /\ profile = Onboarded
    /\ view = [p \in Phone |-> FreshView]
    /\ handlers = {}
    /\ bundles = {}
    /\ mailbox = [p \in Phone |-> {}]
    /\ composed = 0
    /\ switches = 0
    /\ fate = [m \in MessageId |-> {}]

-----------------------------------------------------------------------------
(* Handlers and screens *)

Of(p) == {h \in handlers : h.phone = p}

\* The bundle the handler needs, as the screen holds it when it is pressed.
Have(p, kind, to) ==
    IF kind = "poll" \/ to = p THEN view[p].published ELSE to \in view[p].loaded

Started(p, kind, to, stage) ==
    [id |-> CHOOSE i \in 1 .. MaxHandlers : \A h \in Of(p) : h.id # i, phone |-> p, live |-> TRUE,
     kind |-> kind, to |-> to, stage |-> stage, have |-> Have(p, kind, to),
     inbound |-> IF kind = "poll" THEN view[p].inbound ELSE Zero,
     outbound |-> IF kind = "send" THEN view[p].outbound ELSE Zero,
     batch |-> {}, unread |-> {}, opened |-> {}]

Room(p) == Cardinality(Of(p)) < MaxHandlers

Goes(h, update) == handlers' = (handlers \ {h}) \cup {update}

\* An update of the screen reaches the instance that started the handler, if it
\* is still there.
Update(h, new) == view' = IF h.live THEN [view EXCEPT ![h.phone] = new] ELSE view

\* Mutant: the end of a handler enables the buttons of whatever screen is there.
FinallyOfAnyInstance(h, new) ==
    /\ handlers' = handlers \ {h}
    /\ view' = [view EXCEPT ![h.phone] = [IF h.live THEN new ELSE @ EXCEPT !.busy = FALSE]]

\* `finally { setIsBusy(false) }'
Finally(h, new) ==
    /\ handlers' = handlers \ {h}
    /\ Update(h, [new EXCEPT !.busy = FALSE])

Fails(h) == Finally(h, view[h.phone]) /\ UNCHANGED <<bundles, mailbox, composed, fate>>

\* Changing the screen unmounts the old one: its state goes, its handlers stay.
Switch(p, to) ==
    /\ screen' = [screen EXCEPT ![p] = to]
    /\ step' = [step EXCEPT ![p] = IF to = "onboarding" THEN @ ELSE 1]
    /\ IF to = screen[p] THEN UNCHANGED view ELSE view' = [view EXCEPT ![p] = FreshView]

Stale(p, hs) == {IF h.phone = p THEN [h EXCEPT !.live = FALSE] ELSE h : h \in hs}

SetActiveScreen(p, to) ==
    /\ to # screen[p]
    /\ switches < MaxSwitches /\ switches' = switches + 1
    /\ Switch(p, to)
    /\ handlers' = Stale(p, handlers)
    /\ UNCHANGED <<profile, bundles, mailbox, composed, fate>>

-----------------------------------------------------------------------------
(* Onboarding *)

HandleGenerateIdentity(p) ==
    /\ screen[p] = "onboarding" /\ step[p] = 1
    /\ step' = [step EXCEPT ![p] = 2]
    /\ UNCHANGED <<screen, profile, view, handlers, bundles, mailbox, composed, switches, fate>>

HandleConfirmSeed(p) ==
    /\ screen[p] = "onboarding" /\ step[p] = 2
    /\ step' = [step EXCEPT ![p] = 3]
    /\ UNCHANGED <<screen, profile, view, handlers, bundles, mailbox, composed, switches, fate>>

HandlePublishToRelay(p) ==
    /\ screen[p] = "onboarding" /\ step[p] = 3 /\ Room(p)
    /\ handlers' = handlers \cup {Started(p, "register", p, "register")}
    /\ UNCHANGED <<screen, step, profile, view, bundles, mailbox, composed, switches, fate>>

\* The record is published: the app takes the profile and shows the messages,
\* whichever screen is active by then.
OnComplete(h) ==
    LET p == h.phone
    IN  /\ h.stage = "register"
        /\ profile' = profile \cup {p}
        /\ Switch(p, "messages")
        /\ handlers' = IF screen[p] = "messages" THEN handlers \ {h} ELSE Stale(p, handlers \ {h})
        /\ UNCHANGED <<bundles, mailbox, composed, switches, fate>>

\* A refused or unanswered publication only raises an alert.
PublishToRelayFails(h) ==
    /\ h.stage = "register"
    /\ handlers' = handlers \ {h}
    /\ UNCHANGED <<screen, step, profile, view, bundles, mailbox, composed, switches, fate>>

-----------------------------------------------------------------------------
(* The messaging screen *)

\* A button is enabled while the screen is not busy.
Pressed(p, kind, to) ==
    /\ screen[p] = "messages" /\ p \in profile /\ ~view[p].busy /\ Room(p)
    /\ view' = [view EXCEPT ![p] = [@ EXCEPT !.busy = TRUE]]
    /\ handlers' = handlers \cup
          {Started(p, kind, to, IF kind \in {"publish", "poll"} \/ to = p THEN "own" ELSE "fetch")}
    /\ UNCHANGED <<screen, step, profile, bundles, mailbox, composed, switches, fate>>

HandlePublishBundle(p) == Pressed(p, "publish", p)
HandleLoadBundle(p, to) == Pressed(p, "load", to)
HandleSendMessage(p, to) == composed < MaxMessages /\ Pressed(p, "send", to)
HandlePollMailbox(p) == Pressed(p, "poll", p)

\* What follows once the bundle a handler needs is there.
AfterBundle(h) == CASE h.kind = "send" -> "post" [] h.kind = "poll" -> "poll" [] OTHER -> "done"

Onward(h, new) ==
    IF AfterBundle(h) = "done" THEN Finally(h, new)
    ELSE Goes(h, [h EXCEPT !.stage = AfterBundle(h), !.have = TRUE]) /\ Update(h, new)

\* The bundle this screen published is reused, otherwise it is published, and a
\* lost answer publishes it all the same.
EnsureOwnPreKeyBundle(h) ==
    LET v == view[h.phone]
        kept == [v EXCEPT !.published = TRUE,
                          !.loaded = IF h.kind \in {"load", "send"} THEN {h.to} ELSE @]
    IN  /\ h.stage = "own"
        /\ \/ /\ bundles' = IF h.have THEN bundles ELSE bundles \cup {h.phone}
              /\ Onward(h, kept) /\ UNCHANGED <<mailbox, composed, fate>>
           \/ /\ ~h.have
              /\ bundles' = bundles \cup {h.phone}
              /\ Finally(h, v) /\ UNCHANGED <<mailbox, composed, fate>>
           \/ ~h.have /\ Fails(h)

\* The bundle loaded last is reused when it is the recipient's, otherwise the
\* recipient's is fetched.
EnsureRecipientBundle(h) ==
    /\ h.stage = "fetch"
    /\ \/ /\ h.have \/ h.to \in bundles
          /\ Onward(h, [view[h.phone] EXCEPT !.loaded = {h.to}])
          /\ UNCHANGED <<bundles, mailbox, composed, fate>>
       \/ ~h.have /\ Fails(h)

\* The session takes a counter, advances only with the relay's answer, and the
\* message is shown only then.
Accepted(h) ==
    [id |-> composed + 1, from |-> h.phone, counter |-> h.outbound[h.to]]

SendEnvelope(h) ==
    LET e == Accepted(h)
        v == view[h.phone]
    IN  /\ h.stage = "post"
        /\ \/ /\ composed < MaxMessages
              /\ composed' = composed + 1
              /\ mailbox' = [mailbox EXCEPT ![h.to] = @ \cup {e}]
              /\ UNCHANGED <<bundles, fate>>
              /\ \/ Finally(h, [v EXCEPT !.outbound = [@ EXCEPT ![h.to] = e.counter + 1]])
                 \/ Finally(h, v)
           \/ Fails(h)

\* What a poll may be answered: the relay pages a mailbox from its oldest envelope
\* on, and the cursor to the next page is ignored.
Pages(p) == {{e \in mailbox[p] : e.id <= last.id} : last \in mailbox[p]}

PollMailbox(h) ==
    /\ h.stage = "poll"
    /\ \/ /\ \E page \in Pages(h.phone) :
                Goes(h, [h EXCEPT !.stage = "open", !.batch = page, !.unread = page])
          /\ UNCHANGED <<view, bundles, mailbox, composed, fate>>
       \/ Fails(h)

\* Mutant: a counter the session has passed is accepted again.
DecryptsAnyCounter(h, e) == e.counter <= h.inbound[e.from]

\* decryptMessage: the counter must be the one the session expects.
Decrypts(h, e) == e.counter = h.inbound[e.from]

\* The envelopes are opened in the order in which the relay accepted them.
Oldest(e, es) == \A f \in es : e.id <= f.id

Happens(ids, cause) == fate' = [m \in MessageId |-> fate[m] \cup IF m \in ids THEN {cause} ELSE {}]

\* An envelope whose sender's bundle cannot be fetched is passed over; one that
\* does not decrypt ends the whole poll.
OpenEnvelope(h) ==
    /\ h.stage = "open"
    /\ \E e \in h.unread :
          LET further == [h EXCEPT !.unread = @ \ {e},
                                   !.stage = IF h.unread = {e} THEN "show" ELSE "open"]
          IN  /\ Oldest(e, h.unread)
              /\ \/ /\ e.from # h.phone
                    /\ Goes(h, further) /\ Happens({e.id}, "skipped")
                    /\ UNCHANGED <<view, bundles, mailbox, composed>>
                 \/ /\ e.from = h.phone \/ e.from \in bundles
                    /\ IF Decrypts(h, e)
                       THEN /\ Goes(h, [further EXCEPT
                                          !.inbound = [@ EXCEPT ![e.from] = h.inbound[e.from] + 1],
                                          !.opened = @ \cup {e}])
                            /\ UNCHANGED <<view, bundles, mailbox, composed, fate>>
                       ELSE Fails(h)

\* Sessions and messages go to the screen together, before the acknowledgement; if
\* the screen is gone, nobody sees them.
ShowMessages(h) ==
    LET v == view[h.phone]
    IN  /\ h.stage = "show"
        /\ Goes(h, [h EXCEPT !.stage = "ack"])
        /\ Update(h, [v EXCEPT !.inbound = h.inbound, !.shown = @ \cup h.opened])
        /\ Happens({e.id : e \in h.opened}, "opened")
        /\ UNCHANGED <<bundles, mailbox, composed>>

\* Mutant: the acknowledgement removes all the mailbox holds by now.
AckHeld(h) ==
    /\ h.stage = "ack"
    /\ \/ /\ mailbox' = [mailbox EXCEPT ![h.phone] = {}]
          /\ Finally(h, view[h.phone])
          /\ UNCHANGED <<bundles, composed, fate>>
       \/ Fails(h)

\* The whole batch is acknowledged, whatever was opened, and the answer ignored.
AckMailbox(h) ==
    LET ids == {e.id : e \in h.batch}
    IN  /\ h.stage = "ack"
        /\ \/ /\ mailbox' = [mailbox EXCEPT ![h.phone] = {e \in @ : e.id \notin ids}]
              /\ Finally(h, view[h.phone])
              /\ UNCHANGED <<bundles, composed, fate>>
           \/ Fails(h)

\* The relay deletes an envelope 24 hours after its message was composed, read or not.
Expire(p) ==
    \E e \in mailbox[p] :
        /\ mailbox' = [mailbox EXCEPT ![p] = @ \ {e}]
        /\ Happens({e.id}, "expired")
        /\ UNCHANGED <<screen, step, profile, view, handlers, bundles, composed, switches>>

MessagingStep(h) ==
    /\ \/ EnsureOwnPreKeyBundle(h) \/ EnsureRecipientBundle(h) \/ SendEnvelope(h)
       \/ PollMailbox(h) \/ OpenEnvelope(h) \/ ShowMessages(h) \/ AckMailbox(h)
    /\ UNCHANGED <<screen, step, profile, switches>>

HandlerStep(h) == OnComplete(h) \/ PublishToRelayFails(h) \/ MessagingStep(h)

PhoneStep(p) ==
    \/ p \in Restless /\ \E to \in {"onboarding", "messages", "terminal"} : SetActiveScreen(p, to)
    \/ HandleGenerateIdentity(p) \/ HandleConfirmSeed(p) \/ HandlePublishToRelay(p)
    \/ HandlePublishBundle(p)
    \/ p \in Readers /\ HandlePollMailbox(p)
    \/ \E to \in {q \in Phone : <<p, q>> \in Writes} :
          HandleLoadBundle(p, to) \/ HandleSendMessage(p, to)

MobileNext ==
    (\E p \in Phone : PhoneStep(p) \/ Expire(p)) \/ (\E h \in handlers : HandlerStep(h))

MobileSpec == MobileInit /\ [][MobileNext]_mobileVars

-----------------------------------------------------------------------------
(* Properties *)

\* The buttons are disabled exactly while a handler of this screen runs, and a
\* handler that outlived an earlier instance never enables them.
BusyIffHandler ==
    \A p \in Phone :
        LET mine == {h \in Of(p) : h.live /\ h.kind # "register"}
        IN  /\ view[p].busy <=> mine # {}
            /\ Cardinality(mine) <= 1

\* No screen shows two messages of one sender under one counter, even when the
\* sender used a counter twice because an answer was lost.
OneMessagePerCounter ==
    \A p \in Phone : \A e, f \in view[p].shown :
        e.from = f.from /\ e.counter = f.counter => e = f

\* An acknowledgement takes only what its poll made up its mind about: a message
\* that has not expired, and that no poll has opened or passed over, is in its
\* mailbox, whether it arrived during a poll, was beyond its page or did not decrypt.
AckedWasJudged ==
    \A m \in 1 .. composed :
        fate[m] = {} => \E p \in Phone : \E e \in mailbox[p] : e.id = m

=============================================================================
