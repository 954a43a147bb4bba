----------------------------- MODULE Challenge -----------------------------
(***************************************************************************)
(* The challenges that authenticate mailbox polls: created for one device, *)
(* stored with a deadline, and consumed by the poll that presents them.    *)
(* Models service/challenge_service.go and                                 *)
(* storage/repository/challenge_repo.go as the CreateChallenge and         *)
(* PollMailbox handlers use them.  Polls that present the same challenge,  *)
(* among them a repeated delivery of one signed request, run concurrently. *)
(***************************************************************************)
EXTENDS Integers

CONSTANTS
    Proc,          \* request handlers running at the same time
    NoTxn,         \* no open transaction
    ChallengeId,   \* the ids uuid.New returns; each is returned once
    Device,        \* (mailbox, device) pairs
    TTL,           \* challengeTTLSeconds
    Grace,         \* challengeRetentionGrace
    MaxTime,       \* bound: clock ticks of the model
    Absent

ASSUME ChallengeAssumption ==
    /\ TTL \in Nat /\ Grace \in Nat /\ MaxTime \in Nat
    /\ Absent \notin ChallengeId
    /\ Absent \notin [device: Device, expires: Nat, deadline: Nat]
    /\ NoTxn \notin [ChallengeId -> [device: Device, expires: Nat, deadline: Nat] \cup {Absent}]

VARIABLES db, snap, dirty,
    now,       \* the clock
    issued,    \* the challenge ids handed out
    pc,        \* "idle", "invalidate" or "commit"
    presents,  \* the challenge each poll presents
    admitted   \* how many polls went on to read the mailbox, per challenge

INSTANCE BadgerTxn

vars == <<db, snap, dirty, now, issued, pc, presents, admitted>>

MailboxChallenge == [device: Device, expires: Nat, deadline: Nat]

TypeOK ==
    /\ db \in [ChallengeId -> MailboxChallenge \cup {Absent}]
    /\ snap \in [Proc -> [ChallengeId -> MailboxChallenge \cup {Absent}] \cup {NoTxn}]
    /\ dirty \in [Proc -> SUBSET ChallengeId]
    /\ now \in Nat
    /\ issued \subseteq ChallengeId
    /\ pc \in [Proc -> {"idle", "invalidate", "commit"}]
    /\ presents \in [Proc -> ChallengeId \cup {Absent}]
    /\ admitted \in [ChallengeId -> Nat]
    /\ \A p \in Proc : /\ Open(p) <=> pc[p] = "commit"
                       /\ presents[p] = Absent <=> pc[p] = "idle"

Init ==
    /\ TxnInit([c \in ChallengeId |-> Absent])
    /\ now = 0
    /\ issued = {}
    /\ pc = [p \in Proc |-> "idle"]
    /\ presents = [p \in Proc |-> Absent]
    /\ admitted = [c \in ChallengeId |-> 0]

\* A key Badger still returns, and within it a challenge that has not expired.
Stored(s, c) == s[c] # Absent /\ s[c].deadline > now
Valid(s, c) == Stored(s, c) /\ now <= s[c].expires

\* The record is written under a key nobody else has.
CreateChallenge(p, d) ==
    /\ pc[p] = "idle"
    /\ \E c \in ChallengeId \ issued :
          /\ db' = [db EXCEPT ![c] = [device |-> d, expires |-> now + TTL,
                                      deadline |-> now + TTL + Grace]]
          /\ dirty' = [q \in Proc |-> IF Open(q) THEN dirty[q] \cup {c} ELSE {}]
          /\ issued' = issued \cup {c}
    /\ UNCHANGED <<snap, now, pc, presents, admitted>>

\* A poll whose challenge GetValid finds, for the device that presents it.
GetValid(p, c, d) ==
    /\ pc[p] = "idle"
    /\ Valid(db, c)
    /\ db[c].device = d
    /\ pc' = [pc EXCEPT ![p] = "invalidate"]
    /\ presents' = [presents EXCEPT ![p] = c]
    /\ UNCHANGED <<db, snap, dirty, now, issued, admitted>>

Answer(p) ==
    /\ pc' = [pc EXCEPT ![p] = "idle"]
    /\ presents' = [presents EXCEPT ![p] = Absent]

\* The callback of Invalidate: the challenge is read again, in the transaction.
InvalidateRead(p) ==
    /\ pc[p] = "invalidate"
    /\ IF Valid(db, presents[p])
       THEN /\ Begin(p)
            /\ pc' = [pc EXCEPT ![p] = "commit"]
            /\ UNCHANGED presents
       ELSE Answer(p) /\ UNCHANGED <<db, snap, dirty>>
    /\ UNCHANGED <<now, issued, admitted>>

\* Mutant: the challenge is not read in the transaction that deletes it.
InvalidateReadsNothing(c) == {}

\* The keys the callback has read.
InvalidateReads(c) == {c}

\* The delete commits and the poll goes on, or a conflict refuses the poll.
InvalidateCommit(p) ==
    /\ pc[p] = "commit"
    /\ LET c == presents[p]
           delete == [k \in {c} |-> Absent]
       IN  IF Conflicts(p, InvalidateReads(c), delete)
           THEN Discard(p) /\ UNCHANGED admitted
           ELSE /\ Commit(p, delete)
                /\ admitted' = [admitted EXCEPT ![c] = @ + 1]
    /\ Answer(p)
    /\ UNCHANGED <<now, issued>>

\* Mutant: a restart forgets which ids it issued, as a counter would.
RestartReissues ==
    /\ \E p \in Proc : pc[p] # "idle"
    /\ snap' = [p \in Proc |-> NoTxn]
    /\ dirty' = [p \in Proc |-> {}]
    /\ pc' = [p \in Proc |-> "idle"]
    /\ presents' = [p \in Proc |-> Absent]
    /\ issued' = {}
    /\ UNCHANGED <<db, now, admitted>>

\* The relay stops and starts again on its store.
Restart ==
    /\ \E p \in Proc : pc[p] # "idle"
    /\ snap' = [p \in Proc |-> NoTxn]
    /\ dirty' = [p \in Proc |-> {}]
    /\ pc' = [p \in Proc |-> "idle"]
    /\ presents' = [p \in Proc |-> Absent]
    /\ UNCHANGED <<db, now, issued, admitted>>

Tick ==
    /\ now < MaxTime
    /\ now' = now + 1
    /\ UNCHANGED <<db, snap, dirty, issued, pc, presents, admitted>>

Next ==
    \/ \E p \in Proc, d \in Device : CreateChallenge(p, d)
    \/ \E p \in Proc, c \in ChallengeId, d \in Device : GetValid(p, c, d)
    \/ \E p \in Proc : InvalidateRead(p) \/ InvalidateCommit(p)
    \/ Restart
    \/ Tick

Spec == Init /\ [][Next]_vars

-----------------------------------------------------------------------------
(* Properties.                                                             *)

\* At most one poll gets through on a challenge, whatever races and whatever is
\* delivered twice (Invalidate: "only one authenticated poll can proceed").
AdmittedOnce == \A c \in ChallengeId : admitted[c] <= 1

\* A poll that Invalidate refuses over a conflict lost to a poll that got
\* through: racing polls never refuse each other so that none proceeds.
RefusedOnlyByAWinner ==
    \A p \in Proc :
        (pc[p] = "commit" /\ presents[p] \in dirty[p]) => admitted[presents[p]] = 1
=============================================================================
