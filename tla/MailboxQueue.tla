--------------------------- MODULE MailboxQueue ---------------------------
(***************************************************************************)
(* What one mailbox of the relay promises its senders and the recipient's  *)
(* devices: a log of positions that is only ever extended, envelopes that  *)
(* are held as they were accepted until they are acknowledged or their     *)
(* deadline passes, and for each device a read position that is forgotten  *)
(* only when nothing is held under it alone.  Mailbox implements this      *)
(* specification with locks, batches, an index and a counter.              *)
(***************************************************************************)
EXTENDS Naturals

CONSTANTS Device, EnvId, Envelope, RetentionCap, MaxPosition, Absent

VARIABLES
    seconds,   \* the clock, in whole seconds
    issued,    \* the highest position given out
    log,       \* the envelope id at every position given out
    held,      \* the envelopes a poll can still find, with their deadlines
    read       \* each device's read position; 0 for none

Position == 1..MaxPosition

\* The mailbox may hold envelopes from before positions were given out.
Init ==
    /\ seconds \in Nat
    /\ issued = 0
    /\ log = [i \in Position |-> Absent]
    /\ held \in [EnvId -> [env: Envelope, deadline: Nat] \cup {Absent}]
    /\ read = [d \in Device |-> 0]

\* Everything held has a position.
AllPositioned == \A id \in EnvId : held[id] # Absent => \E i \in 1..issued : log[i] = id

\* What is held gets its first positions, all at once and in the order of the ids.
Adopt ==
    /\ issued = 0
    /\ issued' \in 0..MaxPosition
    /\ \A i \in Position : IF i <= issued' THEN log'[i] \in EnvId ELSE log'[i] = Absent
    /\ \A i, j \in 1..issued' : i < j => log'[i] < log'[j]
    /\ AllPositioned'
    /\ UNCHANGED <<seconds, held, read>>

\* An envelope whose id is not held is accepted at the next position, and held
\* unless its deadline passed while it waited.
Accept(e) ==
    /\ held[e.id] = Absent
    /\ AllPositioned
    /\ issued < MaxPosition
    /\ issued' = issued + 1
    /\ log' = [log EXCEPT ![issued + 1] = e.id]
    /\ \/ UNCHANGED held
       \/ \E t \in seconds + 1 .. seconds + RetentionCap :
             held' = [held EXCEPT ![e.id] = [env |-> e, deadline |-> t]]
    /\ UNCHANGED <<seconds, read>>

\* A device acknowledges an envelope.
Acknowledge(id) ==
    /\ held' = [held EXCEPT ![id] = Absent]
    /\ UNCHANGED <<seconds, issued, log, read>>

\* A device reports how far it has read: forward, and no further than the log.
Judge(d) ==
    /\ \E i \in read[d]..issued : read' = [read EXCEPT ![d] = i]
    /\ UNCHANGED <<seconds, issued, log, held>>

\* A second passes.  What has reached its deadline is gone, and nothing else; a
\* read position may go with it, once everything held is also above it.
Pass ==
    /\ seconds' = seconds + 1
    /\ held' = [id \in EnvId |->
          IF held[id] # Absent /\ held[id].deadline > seconds' THEN held[id] ELSE Absent]
    /\ \A d \in Device :
          \/ read'[d] = read[d]
          \/ /\ read'[d] = 0
             /\ \A id \in EnvId : held'[id] # Absent =>
                   \E i \in 1..issued : i > read[d] /\ log[i] = id
    /\ UNCHANGED <<issued, log>>

Next ==
    \/ Adopt
    \/ \E e \in Envelope : Accept(e)
    \/ \E id \in EnvId : Acknowledge(id)
    \/ \E d \in Device : Judge(d)
    \/ Pass

Spec == Init /\ [][Next]_<<seconds, issued, log, held, read>>

=============================================================================
