# Echolet in TLA+

Echolet is a store-and-forward messenger. A relay (`apps/relay`, Go over a
Badger store) keeps mailboxes of end-to-end encrypted envelopes, device records
and pools of one-time prekeys. A client (`apps/cli`, TypeScript over an
encrypted SQLite profile) publishes its prekeys, sends, polls and acknowledges.
A web station (`apps/web`) and a terminal console drive the client's commands
as child processes, operator commands set up profiles and daemons, and a mobile
prototype (`apps/mobile`) speaks to the relay on its own. This directory models the parts of that system whose
correctness depends on the order in which things happen, checks them with TLC
on small instances and proves the central results with TLAPS.

Contents: [the system](#the-system), [modules and
code](#modules-and-the-code-they-model), [runs](#runs),
[fairness](#fairness), [proofs](#proofs), [where code and comments
disagree](#where-the-code-and-its-comments-disagree), [what is not
modelled](#what-is-not-modelled), [what is left](#what-is-left).

## The system

### Relay

| part | state | operations | what makes it hard |
|---|---|---|---|
| Mailbox store (`storage/repository/mailbox_repo.go`, `service/mailbox_service.go`, `api/handler/mailbox_handler.go`) | per mailbox: records by envelope id, a side index by position, a position counter, a read mark per device, an in-memory ordering lock | send, poll, ack; the lazy backfill of the index | several transactions per request; a lock for some of them only; physical expiry at any moment; restarts in the middle of a backfill |
| Poll challenges (`challenge_repo.go`, `challenge_service.go`) | one key per challenge, with a deadline | create, look up, consume | two polls that present one challenge; conflicts of optimistic transactions |
| Device records (`device_record_repo.go`, `device_limit.go`) | a record and a mailbox binding per device | publish; derive missing bindings at start | a count taken inside an optimistic transaction; records older than the bindings |
| One-time prekeys (`signal_prekey_bundle_v2.go`) | bundles, two reservation indexes, an availability index, claims | publish, claim | claims that race, claims that are retried, publications that are repeated after a claim |
| Process life cycle (`cmd/relay/main.go`, `server/server.go`, `service/cleanup_service.go`, `storage/storage.go`) | the server, the cleanup goroutine, the open store | start, drain, close | signals during a drain; who may still use the store when it closes |
| Storage quota, rate limiter (`middleware/`) | an atomic estimate; counters per peer and window | admit or refuse a request, re-measure | a measurement that overwrites concurrent additions; window boundaries |
| Certificate reloader (`tlsx/reloader.go`) | the pair in use, the files' stamps | re-read on a handshake | two files replaced one after the other |

The parts meet in the Badger store and in the order of checks in a handler. A
poll first consumes a challenge, which needs the binding of the device; then it
advances the read mark, resolves its cursor, ensures the index and selects.

### Client

| part | state | operations | what makes it hard |
|---|---|---|---|
| Inbound messenger (`runtime/inbound.ts`, `runtime/history.ts`) | inbox, history, pending acks, a pending re-walk position | poll (walk pages, judge, report, acknowledge) | a process may end anywhere; answers get lost; the page valve cuts walks; the verdict on an envelope changes when its sender becomes trusted |
| Profile store (`runtime/profile.ts`) | contacts, publication pool, the re-walk | import a contact, request, keep and finish a re-walk, rotate the pool | several processes on one profile, one SQLite transaction each, without a busy timeout |
| Outbound messenger (`runtime/outbound.ts`) | outbox, claim ids, publication pool | publish, send, deliver, retry | a durable claim id before a claim; session and outbox in one commit; ambiguous answers |
| Signal sessions (`packages/session-node`) | sessions, prekeys and identities in one encrypted store | establish, encrypt, decrypt, rotate | a session that another process establishes first |
| Operator commands (`operator/`, `runtime/daemon.ts`, `runtime/globalPaths.ts`) | profile directories, the active profile, pid files | set up, overwrite, switch, delete, start, status, stop | a command abandoned between two writes; process numbers that are reused |
| Terminal console (`tui/`) | one operator state, at most one child | keys, dialogs, one child per command | keys, resizes and the death of a child in any order; a child that waits for an answer only a modal can give |
| Web station server (`apps/web/src/server`) | a report of profile and relay, event connections, a poll child | refresh, poll on a timer, contact, history and send routes | a child killed after 15 seconds; refreshes that overtake each other |
| Web station page (`apps/web/src/client`) | an import dialog, selection, spinners | edit, validate, confirm, select, send, export | answers that come after the page has moved on |
| Mobile prototype (`apps/mobile`, `packages/crypto-core/src/session`) | screens, sessions and messages in memory | register, publish, load, send, poll | handlers that outlive their screen; counters that advance only with the answer |

The client meets the relay through HTTP requests, each of which may take effect
without its answer arriving. The web station polls in a child process every 2.5
seconds and runs contact imports and sends in others on the same profile, so
commands overlap. Console and station come to trust a contact in the same way,
by a child that the operator's confirmation lets go on; `TrustGate` states what
both promise.

### What makes each part correct

- Mailbox: every stored envelope stays reachable by a walk; a device's read
  mark never passes what was issued and nothing is ever put behind it; an
  accepted envelope is not changed; every request is answered.
- Challenges: one poll per challenge, and a race has a winner.
- Devices and prekeys: a one-time prekey is handed to one claim; a claim keeps
  its answer; what is claimable is exactly what is unclaimed; who publishes a
  bundle can be authorized.
- Inbound: an envelope of a trusted sender is read in the end and is recorded
  once; the relay deletes only what the profile has; the read mark passes only
  what was judged.
- Outbound: a first contact spends one one-time key, and another only for one
  that expired, and gets through in the end; a message has one envelope whatever
  is repeated; what is published stays readable after the pool has moved on.
- Console and station: a contact is trusted only through a yes to the card on
  the screen; a waiting child can be answered; what is reported never goes back; a
  dialog waits only for what is on its way.
- Operator: a database lies beside the key that opens it and is lost only by
  agreement; a daemon is found by its pid file.
- Mobile: an acknowledgement takes only what its poll judged, one counter shows
  one message, and a busy screen has a handler.

`PROJECT.json` lists every component with its status, and under `hazards` the
lines of the code where these properties are at stake.

## Modules and the code they model

`PROJECT.json` maps each definition to its source lines. The names of actions
are the names of the functions they model.

### Mailbox

One mailbox, since mailboxes share neither keys nor locks.

| variable | code |
|---|---|
| `now` | the clock in half seconds; Badger deadlines are whole seconds (`Sec`), envelope expiries are not |
| `records`, `order`, `next`, `mark` | the keys `mailbox:`, `mailboxseq:`, `mailboxseqnext:` and `mailboxmark:` with their physical deadlines |
| `lock` | the mailbox's entry of the ordering locks |
| `pc`, `job`, `plan`, `written` | the program point and the locals of each running handler; `plan` and `written` are the loop of the backfill |
| `tokens` | history: the highest continuation token a response carried |

A send is `SendEnvelope`, `EnforceSenderQuota`, `SaveEnvelopeDeadline`, the lock,
the ordering check with its backfill (`EnsureMailboxOrdering`,
`BackfillBatchWrite`, `BackfillCounter`) and `SaveEnvelope`. A poll is
`PollMailbox`, `AdvanceReadMark`, `ResolveCursor`, lock and ordering check, and
`GetEnvelopeBatchFrom` after the lock is released. An ack is `AckMailbox`, one
`DeleteEnvelope` per id, `EnvelopesAcked` and perhaps `AdvanceReadMark`. Each is
one transaction, one lock operation or one reading of the clock; `StorageError`
fails a handler at any of them, `Restart` ends all handlers and keeps the store.
Optimistic transactions that conflict are replayed by the repository and take
effect when they commit. Requests that fail validation, authorization or the
signature check change nothing and are not steps. An envelope is its id, sender,
body, expiry and size.

`MailboxQueue` is the abstract specification of a mailbox: what is held gets its
first positions at once (`Adopt`), an envelope is accepted at the next position
(`Accept`), acknowledged, and gone when its deadline is reached (`Pass`); a
device's read position goes forward up to what was issued (`Judge`) and is
forgotten only once everything still held is also above it. Mailbox implements it
with the log read off the index below the counter, the held envelopes off the
records that have not reached their deadline, and the read positions off the
marks that have not: a backfill adopts at the write of the counter, a send accepts
at its commit, and index entries above the counter are not part of the log.

### BadgerTxn, Challenge, Registry

`BadgerTxn` models the optimistic transactions of the external Badger store as
the relay uses them: a snapshot at the start, and a conflict at commit when a
key that was read (`txn.Get`, `Iterator.Item`) has been written since. A walk
that never calls `Item` reads nothing, and no walk notices an inserted key.

`Challenge` instantiates it for the challenges: `CreateChallenge`, the lookup
that starts a poll (`GetValid`), and the two halves of `Invalidate`
(`InvalidateRead`, `InvalidateCommit`).

`Registry` instantiates it for device records and prekey bundles. `Key` is the
relay's key space; `SaveDeviceRecord`, `SaveSignalV2` and `ClaimSignalV2` give,
for a snapshot and a request, the keys the callback reads, what it writes and
what it answers; `BeginTransaction`, `CommitTransaction` and `RetryOnConflict`
run them. `RestartAndBackfill` is the start-up pass over the bindings, which may
stop short. `handed` is history: which claim was answered with which bundle.

### Inbound

The client's reading of one mailbox. The relay side (`position`, `next`, `mark`,
`expired`) has one step per request, as Mailbox shows its requests to behave:
the mark moves before the page is selected, and a request without a cursor is
served after the mark. The profile side is `contacts`, `rewalk`, `inbox`,
`history` and `pendingAck`. `proc` holds what each command process does: nothing,
the gap between the two transactions of `contact import`, a page to fetch or to
judge, or the acks. `StartPoll`, `Page`, `Judge`, `EndPage`, `AckRequest`,
`AckSettle` and `AckDone` are `poll`; `ImportContact` and `RequestMailboxRewalk`
are the import. `PollEnds`, `ImportEnds`, `PageAnswerLost` and `AckAnswerLost`
end a process early, the last two after the relay has served the request.
`genuine` says whether an envelope decrypts once its sender is trusted; all the
reasons to refuse one otherwise have the same effect on the state.
`judged` and `acked` are history.

### Pool, Outbound

`Pool` is one recipient's published pool: `slot` (`cli:publication`), `pre` and
`pointer` (the private halves and `pre-current`), the relay's `stored` and
`claim`, and the `publish` command. A bundle is named by its one-time prekey.
`RestorePublicationPool` fills the empty slots in one transaction,
`SubmitMember` submits one member and learns whether it is claimable,
`ReplacePublicationSlot` and `OfferReplacement` store and offer a fresh one for
each slot that is not. The relay's part has the answers `Registry` shows it to
give: a submission again changes nothing, the oldest valid unclaimed bundle is
served, a known claim gets its bundle again, also when it has expired.

`Outbound` extends it with a sender: `claimKey`, `session`, `outbox`, and `proc`,
what each send command is doing. `SendOwned` looks into the outbox,
`StoreClaimId` makes the claim id durable, `ClaimFirstContact` asks the relay,
`JudgeClaim` reads the clock, `ReplaceDeadClaim` stores the id of the one
replacement, `Commit` writes session, envelope and outbox entry and ends the
claim, `Deliver` and `MarkDelivered` are the deposit and its record. `SendEnds`
and `PublishEnds` end a command, perhaps after its request was served.
`PeerBegins` is the sender's own poll reading a message that begins a session
from the other side, `Receive` the contact reading its mailbox. A session is
named by the prekey it was built on; the ratchet inside it is libsignal's.
Relay and clients share one clock. `accepted` is history.

### TrustGate, Console, Station

`TrustGate` is the abstract specification of trust: a subject is presented,
the operator agrees to what is on the screen, and only an agreement on its way
makes the store trust it. Console and Station each instantiate it with a
refinement mapping (`Gate`) and list its `Spec` as a property (`GateSpec`).

`Console` is the terminal process. `cur` is the operator state that the intents
of `tui/state.ts` are reduced over (focus, modal, input row, busy flag, roster);
`confirmed` and `awaiting` are the two variables the shell keeps beside it;
`children` are the spawned commands with the phase each has reached, `store`
what they commit. A key is an action per mode of the shell; a child reads,
prompts, commits and exits in steps of its own, and may die at each, before or
after it committed. `small` says that the terminal is below the smallest
viewport, in which no identifiers are painted and no confirmation is taken.
Mapped to the gate, the screen shows a subject while a modal is complete and
painted, and agreed is what a yes has been passed to a living child for.

`Station` is the web station with its page. `report` is the server's status
store; a refresh carries `since`, what was true when it was asked for, and
`newest`, the model of the generation numbers: a newer request takes the flag
away. `floor` is history: all that was true when some stored refresh was asked
for. `sse`, `status` and `pending` are what is on its way between page and
server, in three classes since events are ordered, status requests share one
handler, and the others are keyed by their kind and generation. The page's
dialog is `page`; `HandleImportTextChange`, `HandleImportFile`,
`HandleValidateImport`, `HandleConfirmImport` and the answers to them follow the
handlers of `App.tsx`. A child ends in what counts as success or as failure, and
after either an import may or may not have been recorded: the bridge takes an
exit code of null for 0 (`cliBridge.ts:93`), so a child that a signal other than
the bridge's own ends before its answer is complete has succeeded (`Outcome`,
`ImportReported`). Of a doctor that ends so the server stores the output that is
no answer as a verified profile without contacts, which is `Bare` (`Ended`).
Imports of several cards may overlap, each with its own refresh; of one card one
refresh is on its way at a time. Loading the page again (`OpenPage`) leaves the
old page's requests at the server.

### Operator

`disk` has a directory per callsign with the number of the setup that generated
each file's key; `command` is the command at the terminal, at one of its prompts
or writes; `agreed` is history. `StationSetup`, `Overwrite`, `WriteStoreKey`,
`CreateDatabase`, `LinkConfig`, `WriteCard` and `SetupEnds` are `station setup`
with the profile creation of `openProfile`, one write per step; `Abandon` ends a
command at any of them. Daemons are `proc` and `pidfile`: `startDaemon` is
`SpawnDaemon` and `WritePid`, `stopDaemon` signals whatever process has the
number. `ProcessEnds` and `ForeignProcess` are the operating system, which gives
a number to someone else. Commands run one after another at one terminal.

### Mobile

The demonstration of the mobile prototype. `view` is the state of a messaging
screen, `handlers` are its asynchronous functions between two awaits, each with
the values its closure captured (`have`, `inbound`, `outbound`) and `live`, that
its screen is still mounted. Each relay call has three ends: an answer, a
failure without effect, and a failure after the effect. `Decrypts` is the counter
check of `crypto-core`; the key derivation is not modelled. A mailbox is a set of
envelopes whose ids are the order in which the relay accepted them; a poll is
answered with a page of it from the oldest on (`Pages`), opens it in that order
(`Oldest`), ignores the cursor and acknowledges the page as a whole. `Expire` is
the relay's deletion of an envelope 24 hours after its message was composed
(`MessagingScreen.tsx:247`), at any time the model does not count. `fate` is
history: why a message may be gone, which is that a poll opened it, that a poll
passed over it, or that it expired. The specification is `MobileSpec`, so that the
module can be extended together with `Challenge`.

Messages of the prototype do get lost, and `AckedWasJudged` does not say
otherwise. A message whose sender's bundle cannot be fetched is passed over and
acknowledged with the rest; one that was opened for a screen that is gone is
acknowledged without having been seen. A message whose counter is not the one
expected, because a message before it was lost in one of these ways or because a
lost answer made the sender use a counter twice, fails the poll; that poll
acknowledges nothing, every later one fails at the same envelope until that
expires, and what is behind it fails or expires in turn. After a gap the session never decrypts again.
What the property excludes is an acknowledgement of more than its poll fetched
and went through.

### MC modules

The MC modules give the sets of envelopes, bundles, cards and phones as
definitions, and the symmetry sets. No configuration replaces a definition of a
module.

## Runs

| run | checks | instance |
|---|---|---|
| `mailbox` | the index, the marks and immutability under sends, replays, conflicting bodies, polls, acks, expiry, errors and restarts | 2 handlers, 1 device, 3 envelopes of which two share an id, 2 positions, batches of 1 |
| `mailbox_legacy` | over a mailbox older than the index, whose backfill may be cut short at every batch: the mailbox implements `MailboxQueue` and every request is answered | 2 handlers, 2 legacy records of which one expires early, backfill batches of 1, 3 positions |
| `challenge` | one admitted poll per challenge, conflicts have a winner | 3 handlers, 2 challenges, 2 devices |
| `registry` | the prekey pool and the bindings | 2 handlers, 2 devices, 3 bundles that share one-time keys, 2 claim ids, a legacy device whose key is replaced, 2 attempts per transaction |
| `inbound` | the walk and the re-walk of one process: nothing trusted is left behind, and in the end it is read | 3 envelopes of two senders, 4 positions so that one is sent again, pages of up to 2, a valve of 2 pages, 1 import, 1 early end |
| `inbound_concurrent` | with overlapping processes: history once, acks only of what is kept, marks only over what was judged | 2 processes, 2 envelopes with different bodies under one message id, 2 imports, 2 early ends in polls and imports |
| `outbound` | prekeys are not reused or lost while the pool is topped up, and a first contact gets through | 1 send command, 1 message, a pool of 2, 5 prekeys, 3 claim ids, 1 claim by someone else, 1 early end, one expiry |
| `outbound_concurrent` | one envelope per message, and keys spent, with overlapping sends | 2 send commands, 1 message id with 2 contents, a pool of 2, 4 prekeys, 3 claim ids, 1 early end, one expiry |
| `console` | one child at a time, rows and modals, prompts that can be answered, the roster; the console implements `TrustGate` | 2 profiles, 2 cards, a card and a relay URL named at launch, 5 commands |
| `station` | readings that do not go back, the previewed card, spinners; the station implements `TrustGate` | 2 cards, one of them trusted at the start, 1 status request beside the refreshes of boot, timer and import, 1 round of the timer, 4 gestures, 2 events and 2 requests in flight |
| `operator` | keys and databases, loss by agreement, daemons and pid files | 2 callsigns, 2 process numbers, 2 setups |
| `mobile` | buttons and handlers, counters, what an acknowledgement takes | 2 phones of which one writes and the other reads and changes screens, 2 messages, 2 handlers per phone, 1 change of screen by hand |

Why the bounds are enough. The relay's handlers interact through single keys and
one lock, so two of them, plus a restart, produce every pair of racing steps; the
challenges have three, so that two losers and a winner exist. Two positions let
a mark be behind, at and ahead of an entry; the legacy run has a third so that a
send follows the backfill. The clock runs over the expiry of one envelope while
another lives, with the half seconds that separate an expiry from a deadline. A
page limit and a valve smaller than the mailbox make every walk stop early
somewhere. In the outbound runs the clock closes the window of the first pool and
of the first claims, the pool is then replaced, and three claim ids let both
overlapping sends replace one dead claim. One import and one early end per
process are what the hazards need; the concurrent run has two of each. Five
commands let the console run an import that dies, another that asks, and the
commands around them on a second profile. Four gestures are an edit, a
validation, a confirmation and one more that races them; a second card is what a
late answer could confuse with the first. They allow one import: that several
overlap is in the theorems only. Two setups are the second one over
what the first left behind; the second process number is a daemon's number taken
by someone else while another daemon runs. Two messages let a counter be used
twice, and two handlers let a stale one run beside a new one, which takes one
change of screen and the return by the end of an onboarding. Symmetry is used
over handlers, processes, claim ids, challenges, devices, callsigns and process
numbers, and in no run with a liveness property. Deadlock checking is off in
`challenge`, where all ids may be used up and the clock at its bound; that end is
a bound of the model. It is off in the outbound runs, where nobody is bound to
start another command.

Every property of a run has a mutant: a definition changed the way a plausible
bug would change it, kept beside the original in its module, under which TLC
finds the property violated.

## Fairness

`Mailbox!FairSpec` has weak fairness of each handler's next step, which is Go's
scheduler running a runnable goroutine, and strong fairness of the two steps
that take the ordering lock: `sync.Mutex` hands the lock to a starving waiter.
Nothing is assumed of arriving requests, errors, restarts or the clock.

`Inbound!FairSpec` has weak fairness of each process's poll steps, including the
start of the next poll: the web station starts a poll every 2.5 seconds and an
operator polls again. A running import makes its second transaction. Sends,
expiry, imports and early ends are not fair, and early ends are bounded by
`MaxFaults`, so a walk is not interrupted for ever.

`Outbound!FairSpec` has weak fairness of the steps of both commands and of their
start: an operator whose send failed repeats it under its message id, and the
contact publishes again. It is the assumption behind "gets through in the end",
and no more than the code's own advice to the operator. Early ends, claims of
others and the clock are not fair.

Console, Station, Operator and Mobile are checked for safety only. Their progress
depends on the operator, and their waiting is stated as safety: a prompt can be
answered (`PromptCanBeAnswered`), a spinner has a request on its way
(`SpinnerHasRequest`), a busy screen has a handler (`BusyIffHandler`).

## Proofs

The theorems hold for every set of handlers, processes, devices, envelopes,
bundles and cards, and for every bound. Their assumptions are the named `ASSUME`s
of the modules: numbers are naturals, the positive ones positive; envelope ids
are finite in number and fit the positions; `Absent` and its like are none of the
values they stand beside. Three theorems have a hypothesis of their own, and each
is one the code needs: see `MarksOutliveWhatTheyCover`,
`TrustedIsNeverLeftBehind` and `OneLivePrekeyPerContact`. The inductive
invariants were checked by TLC on the runs' instances before they were proved.

**MailboxProofs.** `InductiveInvariant` is `Spec => []IInv`. The results about
the store are not inductive on their own:

- `EveryRecordSelectable` needs to know what a running backfill has done. A
  counter appears at `BackfillCounter`, so before it the invariant says that the
  listing covers every stored record and that the written part of it is in the
  index (`BackfillState`). That survives only because nobody else writes the
  index meanwhile (`LockHeld`), because a store has seen a counter
  (`CounterBeforeCommit`), and because acks and the clock only remove records.
- `MarksWithinIssued` needs that a position that passed its check stays within
  bounds until it is written (`ReadThroughIssued`), which holds since the
  counter never goes back.
- `JobShape` says which fields of a request a step may read.

From it follow `TypeCorrect`, `RecordsAreSelectable`, `MarksStayWithinIssued`,
and the action properties. `NothingStoredUnderAMark`: a store writes at the
counter, above every mark; a backfill writes only while there is no counter, and
then every mark is 0 (`WritesAboveMarks`). `LiveMarksMoveForward`: a request
writes a mark only above the one it read in the same transaction.
`AcceptedStaysAsItWas`: only three steps write records (`StoreWriters`), and the
one that adds finds none under its id. `MarksOutliveWhatTheyCover` needs
`RetentionCap <= MarkTTL`: the cap is configured (168 hours by default) and the
mark's 30 days are fixed; with it every deadline in the index is within the cap
of the clock at which it was written (`Capped`), and a mark is renewed over what
it covers. `MailboxImplementsQueue` rests on all of it, under the same proviso:
`EveryRecordSelectable` gives every held envelope its place in the log when a send
accepts another, `BackfillState` and the key order of the listing
(`PlanInKeyOrder`) make the write of the counter an `Adopt`, `ReadThroughIssued`
bounds `Judge`, and `MarkOutlivesCovered` is why a mark that expires covers nothing
that is held. Every other step changes nothing the queue sees. TLC checked the
refinement on the instances of both mailbox runs.

**PollProofs**, about the two ends of an authenticated poll. For the relay's,
`ChallengeInvariant` adds to the type invariant of `Challenge` that a stored
challenge was issued and has admitted nobody, and that a transaction whose
challenge nobody wrote since it began still sees it stored. With it
`ChallengeSingleUse` (at most one poll per challenge) and `ConflictHasAWinner`.

For the mobile client's end, `MobileInvariant`. `BusyWhileItsHandlerRuns` is
nearly inductive once the handlers of a registration are told apart from those of
the messaging screen (`StagesOfKind`). `CounterShownOnce` is not: a poll works on
a copy of the counters for many steps and then puts them, with what it opened,
on the screen. `LivePolls` says that whatever it has opened lies between the
counters of its screen and its own, one envelope a counter; that stays true since
nobody else moves the counters of a screen that is busy with this poll
(`OneRuns`), and a poll whose screen was replaced writes nothing. `ShownPassed`
says the screen's counters are beyond what it shows, so the two sets never meet.
The types need that a counter is below the number of its message
(`CountersBounded`), and that a phone with room for a handler has an id left for
it (`FreeId`, by counting). `AckTakesTheJudged` is `AckedWasJudged`.
An acknowledgement takes the batch of its poll, so the invariant follows each
envelope of a batch from the fetch to the acknowledgement: it is unread, opened
but not yet put on a screen, or has a fate (`Judged`), and once the poll has come
to the acknowledgement it has one (`PollsJudge`). A fate is never taken back
(`FateGrows`), and no two envelopes share an id (`IdsApart`), so neither an
expiry nor another poll in between matters.

**RegistryProofs.** The four invariants speak of the store, and the store
changes when a transaction commits what it computed from a snapshot. `StoreInv`
says how the six key families agree. `Handlers` says of each open transaction
that its snapshot satisfies `StoreInv` as well, that it equals the store on every
key nobody has written since, and that the claims it shows are still there. A
commit that passes Badger's check has read nothing that changed, so what it
writes is what it would have computed from the store itself (`Sound`), and each
of the three operations takes a store in `StoreInv` to one in `StoreInv`. A walk
reads only the keys it calls `Item` on: the proof for `ClaimSignalV2` shows that
the one it picked suffices. From `RegistryInvariant` follow
`OneTimeKeyGoesToOneClaim`, `RetriedClaimSameAnswer`, `IndexIsUnclaimed`,
`PublishersStayAuthorized` and `RegistryTyped`.

**InboundProofs.** Three arguments over the types (`InboundTyped`). What waits
for an ack, or has been acknowledged, is in the inbox with its body: with it
`HistoryIsWrittenOnce` and `WhatIsAckedIsKept`, for any number of overlapping
processes. Every position a walk reports, resumes from or has stored as a re-walk
has only judged envelopes behind it: with it `MarkPassesOnlyJudged`.
`TrustedIsNeverLeftBehind` is for one process whose imports make both their
transactions (`OneCommand`); without either it is false, as the section below
says. It needs to know where a walk will resume: what waits to be read is after
the start of the page in hand or is on it, and after the stored re-walk.

**OutboundProofs.** The invariant says of the pool that it is filled as a whole,
that the current prekey is the highest ever held or placed in a slot, so that the
next one is new (`PoolMembersDiffer`), and that a signed prekey no stranger
claimed has its private half or its session (`KeysKept`); of the sender that
every key it encrypts with is one it claimed, or the contact's own session
(`MailIsReadable`), and that every envelope on its way or accepted is the one in
the outbox (`MessageEncryptedOnce`). These hold for any number of overlapping
publish and send commands. `OneLivePrekeyPerContact` is `KeysHeldBounded` for one
send command at a time (`OneCommand`): ids are drawn in order, the stored one is
the last, and what was claimed under an earlier one has expired. With overlapping
sends the same bound is model-checked; an invariant for it would have to remember
which command has replaced which id, which the state does not.

**StationProofs.** `StationTyped`; `ReportNeverGoesBack`, from an invariant that
relates each refresh in flight to what the store held when it was asked for, about
readings only: a refresh that failed clears the report, and a doctor that a signal
ended leaves `Bare`;
`PreviewFollowsText`, since only the newest request of a kind may answer and
every edit makes the old ones outdated; `NoWaitWithoutRequest`, with the reverse
of the mapping from spinner to request for each dialog; and
`StationImplementsGate`: `Init` maps to `TrustGate`'s, and every step maps to one
of its steps or changes none of its variables.

**ConsoleProofs.** The invariant says what the shell knows of its one child in
each phase (`ChildOK`): while it waits at its prompt, `awaiting` names it and the
modal shows its card; once answered yes, the confirmation kept by the shell is
for its card; once it has imported, that card is trusted. A modal stays open only
for a child that waits or after one that died, and no input row is open while the
console is busy (`RowAlone`). `ReducerCases` says once for all keys that the
reducer is quiet, begins a command in an idle console, or answers the modal. From
`ConsoleInvariant` follow `NoModalOverRow`, `BusyWithOneChild`,
`PromptsAnswerable` and `RosterIsTrusted`; and with it `ConsoleImplementsGate`: a
yes maps to `Agree`, the child's import to `Trust`, its end to `Drop`, and
everything else to what is shown, or not shown any more.

**OperatorProofs.** `InductiveInvariant` is again `Spec => []IInv`.
`KeyOpensDatabase` is not inductive: `CreateDatabase` needs to know that the key
beside it is the one this setup generated and that no card of an earlier profile
is left. `SetupState` says what is on the disk at each stage of a setup, from the
empty directory after the removal on. `DaemonReachable` needs `CommandShape`: a
daemon is spawned, and its number written, only while its name has no pid file,
and the process that has the number meanwhile is the daemon, nobody, or a
stranger, so writing the pid file hides no other daemon. From it follow
`KeysOpenDatabases`, `DaemonsReachable` and the action property
`LossNeedsAgreement`. One more assumption: `None` is not a command.

Only model-checked: `KeysHeldBounded` with overlapping sends; and the liveness
properties, which are out of the prover's reach. So is induction over data; the modules with theorems use no recursive
operator.

## Where the code and its comments disagree

The modules define a few properties that comments of the code state and that do
not hold; no run lists them. Each is given with an instance in which TLC refutes
it.

- `Mailbox!TokensWithinIssued`: "an interrupted backfill is simply retried",
  with the same positions (`mailbox_repo.go:641`). Records may expire or be
  acknowledged in between; the second listing is shorter, the counter smaller,
  and left-over entries above it are served with a token the relay later
  refuses as a read position. Fails with one handler, four legacy records,
  and backfill batches of 4. `mailbox_legacy` shows
  what survives: below the counter the log is that of `MailboxQueue`, and requests
  are answered; that no record becomes invisible is proved.
- `Mailbox!SenderQuotaHolds`: the quota is "the maximum number of UNACKED
  envelopes one sender identity may hold" (`mailbox_handler.go:283`), but it is
  counted in one transaction and the envelope stored in another. Fails in the
  `mailbox` instance with `Quota = 1`.
- `Registry!DevicesWithinCap`: "two concurrent publications cannot both take the
  last slot" (`device_limit.go:21`); the count leaves no read for Badger to
  check, and an insertion would not conflict with it anyway. Fails in the
  `registry` instance with `MaxDevices = 1`, no legacy device and records for
  both devices.
- `Inbound!TrustedStaysAhead` with two processes: "An interruption therefore
  costs repeated work, never a lost message" (`profile.ts:222`). A re-walk in
  flight overwrites the re-walk an import has asked for since. Fails with two
  processes, two imports and no early end. It also fails for one process with
  `"import"` in `EndsIn`: trusting a contact and asking for the re-walk are two
  transactions, and when the second does not happen the envelopes refused before
  stay behind the read mark (`cli.ts:413`).
- `Inbound!AcceptedLeavesMailbox` under `FairSpec`: accepted envelopes are to be
  "acknowledged promptly" (`inbound.ts:168`), and a poll that accepted nothing
  and refused something throws before it sends the acks an earlier poll left
  pending. Fails with one process, one import, one early end and pages of 1.
- `Mailbox!MarkOutlivesCovered` with `RetentionCap` above `MarkTTL`: "a mark can
  never expire while an envelope it covers still exists" (`mailbox_repo.go:805`)
  holds only while the configured retention cap is at most the mark's 30 days,
  which nothing enforces.

- `Station!ProfileWasRead`: the station "clears stale doctor data when the active
  profile can no longer be verified" (`stationStatus.test.ts:5`). The bridge reads
  `exitCode ?? 0` (`cliBridge.ts:93`), so a doctor that a signal ends before its
  answer is complete is a success whose data is the output
  (`cliBridge.ts:109`), and `stationStatus.ts:52` stores it: the profile is
  "verified" and the contacts are gone from the page. Fails in the `station`
  instance. An import that ends so is answered as done although nothing was
  recorded; the page then shows the contacts the next refresh reads.

## What is not modelled

Signatures, encodings, key derivation and schema checks are pure functions of one
request; the modules start at a request that passed them. The v1 prekey routes
are single transactions without a condition. Configuration, logging, rendering,
layout, wording and deployment scripts keep no state that a property is about.
TLS and the network appear only as errors and lost answers.

Left out of the modules that exist: of the operator's commands the foreground
starts, log output, the browser and the commands that only print, and the
removal of a directory is one step though the file system may stop half way; of
the console panes, scrolling and text editing within a row; of the station the
static files, the request guard, the telemetry and the publish route; of the
mobile prototype the terminal screen, and a phone has one identity. In Inbound the
end of a page writes the re-walk (`inbound.ts:205`) and reads the pending acks
(`inbound.ts:282`) in one step, so nothing of another process falls between them,
and the read mark has no expiry: its 30 days are in Mailbox. Pool starts with
empty slots; a profile of an earlier version, with some of them filled
(`profile.ts:390`), is not a start state. Console and
Station treat a child by what it reports and commits; what the commands do
inside is in Inbound, Pool and Outbound.

The relay's life cycle, storage quota, rate limiter and certificate reloader have
no module. To the modules that exist they are restarts, storage errors and
requests that fail.

## What is left

1. `Shutdown`: signals during a drain, the cleanup goroutine and the close of the
   store (`main.go:150`); `StorageQuota`, whose re-measurement overwrites the
   sizes that requests added meanwhile (`storage_quota.go:40`); the reloader,
   which may pair a new certificate with an old key (`tlsx/reloader.go:96`).
2. An outbox entry that is still pending when its envelope has expired, and is
   refused on every retry (`outbound.ts:288`); a command that settles after the
   console has moved to another profile (`tui-shell.ts:652`).
3. Inbound restated over `MailboxQueue`.
4. `KeysHeldBounded` for overlapping sends, which needs a history variable for the
   id a command replaced.
