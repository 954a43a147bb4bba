-------------------------------- MODULE Pool --------------------------------
(***************************************************************************)
(* The published pool of one-time prekeys of one recipient: the slots and  *)
(* private halves in its profile store (runtime/profile.ts,                *)
(* session-node/SignalClient.ts), the bundles the relay holds, and         *)
(* `relay publish` (OutboundMessenger.publish), which submits every        *)
(* member, learns which are still claimable, and replaces the others.      *)
(*                                                                         *)
(* A bundle is named by the number of its one-time prekey, since a profile *)
(* signs one bundle around each.  A step is one store transaction or one   *)
(* request to the relay; the relay's answers are those of Registry.        *)
(***************************************************************************)
EXTENDS Integers, FiniteSets, FiniteSetsExt

CONSTANTS
    Publisher,     \* publish commands on the profile at the same time
    PoolTarget,    \* poolTarget
    Lifetime,      \* how long a bundle is valid
    MaxClaims,     \* bound: claim ids a sender draws
    Stranger,      \* stands for the claim of any other sender
    MaxBundles,    \* bound: prekeys a profile allocates
    MaxTime,       \* bound: clock ticks of the model
    MaxStrangers,  \* bound: claims of other senders
    MaxFaults,     \* bound: commands that end early
    Absent

ASSUME PoolAssumption ==
    /\ PoolTarget \in Nat \ {0} /\ Lifetime \in Nat \ {0}
    /\ MaxBundles \in Nat \ {0} /\ MaxTime \in Nat
    /\ MaxStrangers \in Nat /\ MaxFaults \in Nat
    /\ MaxClaims \in Nat \ {0} /\ Stranger \notin 1..MaxClaims
    /\ Absent \notin Nat \cup {Stranger}

Bundle == 1..MaxBundles
Slot == 0..(PoolTarget - 1)
ClaimId == 1..MaxClaims    \* in the order in which they are drawn

VARIABLES
    now,
    \* the recipient's profile
    slot,       \* cli:publication, the member in each slot
    pre,        \* pre:<n>, the private halves
    pointer,    \* pre-current
    born,       \* when each bundle was signed
    \* the relay
    stored,     \* the bundles it has accepted
    claim,      \* who claimed each
    \* the commands
    publisher,  \* what each publish command is doing
    strangers, faults

poolVars == <<now, slot, pre, pointer, born, stored, claim, publisher, strangers, faults>>

Idle == [pc |-> "idle"]
Publishing ==
    [pc: {"submit"}, at: 0..PoolTarget, members: [Slot -> Bundle], dead: SUBSET Slot]
Offering ==
    [pc: {"offer"}, members: [Slot -> Bundle], dead: SUBSET Slot, bundle: Bundle]

PoolTypeOK ==
    /\ now \in 0..MaxTime
    /\ slot \in [Slot -> Bundle \cup {Absent}]
    /\ pre \subseteq Bundle
    /\ pointer \in Bundle
    /\ born \in [Bundle -> Nat \cup {Absent}]
    /\ stored \subseteq Bundle
    /\ claim \in [Bundle -> ClaimId \cup {Stranger, Absent}]
    /\ publisher \in [Publisher -> {Idle} \cup Publishing \cup Offering]
    /\ strangers \in 0..MaxStrangers
    /\ faults \in 0..MaxFaults

\* The profile holds its first prekey and has published nothing.
PoolInit ==
    /\ now = 0
    /\ slot = [s \in Slot |-> Absent]
    /\ pre = {1}
    /\ pointer = 1
    /\ born = [b \in Bundle |-> Absent]
    /\ stored = {}
    /\ claim = [b \in Bundle |-> Absent]
    /\ publisher = [q \in Publisher |-> Idle]
    /\ strangers = 0
    /\ faults = 0

Expired(b) == now >= born[b] + Lifetime

-----------------------------------------------------------------------------
(* The relay.                                                              *)

\* A submission again changes nothing; an expired one is refused.
Stored(b) == stored' = IF Expired(b) THEN stored ELSE stored \cup {b}

\* What the answer says of a submitted bundle.
Claimable(b) == claim[b] = Absent /\ ~Expired(b)

\* The available bundles than which none is older.
FirstAvailable ==
    LET live == {b \in stored : Claimable(b)}
    IN  {b \in live : \A d \in live : born[b] <= born[d]}

-----------------------------------------------------------------------------
(* The publish command.                                                    *)

Become(q, state) == publisher' = [publisher EXCEPT ![q] = state]

\* The prekey an empty slot is filled around, from the highest slot down.  The
\* first bundle ever takes the current prekey, every other a fresh one.
PrekeyFor(s, empty) ==
    pointer + Cardinality({t \in empty : t >= s}) - (IF empty = Slot THEN 1 ELSE 0)

RestorePublicationPool(q) ==
    LET empty == {s \in Slot : slot[s] = Absent}
        filled == [s \in Slot |-> IF s \in empty THEN PrekeyFor(s, empty) ELSE slot[s]]
        minted == {filled[s] : s \in empty}
    IN  /\ publisher[q] = Idle
        /\ \A b \in minted : b <= MaxBundles
        /\ slot' = filled
        /\ pre' = pre \cup (minted \ {pointer})
        /\ pointer' = IF 0 \in empty THEN filled[0] ELSE pointer
        /\ born' = [b \in Bundle |-> IF b \in minted THEN now ELSE born[b]]
        /\ Become(q, [pc |-> "submit", at |-> 0, members |-> filled, dead |-> {}])
        /\ UNCHANGED <<now, stored, claim, strangers, faults>>

\* Each stored member is submitted again; the answer says which slots are dead.
SubmitMember(q) ==
    LET w == publisher[q]
        b == w.members[w.at]
    IN  /\ w.pc = "submit"
        /\ w.at < PoolTarget
        /\ Stored(b)
        /\ Become(q, [w EXCEPT !.at = @ + 1,
                               !.dead = IF Claimable(b) THEN @ ELSE @ \cup {w.at}])
        /\ UNCHANGED <<now, slot, pre, pointer, born, claim, strangers, faults>>

\* Mutant: the number follows the private halves that are left.
FreshPrekeyAfterHeld == 1 + Cardinality(pre)

\* rotateOneTimePreKey: past the current prekey and past every one still held.
FreshPrekey == Max(pre \cup {pointer}) + 1

\* Mutant: the member that is replaced loses its private half.
HeldAfterPruning(s, b) == (pre \ {slot[s]}) \cup {b}

\* Private halves are retained.
HeldAfter(s, b) == pre \cup {b}

\* The highest dead slot gets a fresh bundle, stored before it is offered.
ReplacePublicationSlot(q) ==
    LET w == publisher[q]
        b == FreshPrekey
    IN  /\ w.pc = "submit"
        /\ w.at = PoolTarget
        /\ b <= MaxBundles
        /\ \E s \in w.dead :
              /\ \A t \in w.dead : t <= s
              /\ slot' = [slot EXCEPT ![s] = b]
              /\ pre' = HeldAfter(s, b)
              /\ Become(q, [pc |-> "offer", members |-> [w.members EXCEPT ![s] = b],
                            dead |-> w.dead \ {s}, bundle |-> b])
        /\ pointer' = b
        /\ born' = [born EXCEPT ![b] = now]
        /\ UNCHANGED <<now, stored, claim, strangers, faults>>

\* A replacement the relay finds expired fails the command.
OfferReplacement(q) ==
    LET w == publisher[q]
    IN  /\ w.pc = "offer"
        /\ Stored(w.bundle)
        /\ Become(q, IF Expired(w.bundle) THEN Idle
                     ELSE [pc |-> "submit", at |-> PoolTarget, members |-> w.members,
                           dead |-> w.dead])
        /\ UNCHANGED <<now, slot, pre, pointer, born, claim, strangers, faults>>

PublishDone(q) ==
    /\ publisher[q].pc = "submit"
    /\ publisher[q].at = PoolTarget
    /\ publisher[q].dead = {}
    /\ Become(q, Idle)
    /\ UNCHANGED <<now, slot, pre, pointer, born, stored, claim, strangers, faults>>

\* The command ends before its next step, or its request is served and the
\* answer lost.
PublishEnds(q) ==
    LET w == publisher[q]
    IN  /\ w # Idle
        /\ faults < MaxFaults
        /\ faults' = faults + 1
        /\ \/ UNCHANGED stored
           \/ w.pc = "offer" /\ Stored(w.bundle)
           \/ w.pc = "submit" /\ w.at < PoolTarget /\ Stored(w.members[w.at])
        /\ Become(q, Idle)
        /\ UNCHANGED <<now, slot, pre, pointer, born, claim, strangers>>

-----------------------------------------------------------------------------
(* Everyone else.                                                          *)

\* Another sender claims a bundle, and its first message uses up the prekey.
StrangerClaims ==
    /\ strangers < MaxStrangers
    /\ strangers' = strangers + 1
    /\ \E b \in FirstAvailable : claim' = [claim EXCEPT ![b] = Stranger]
    /\ UNCHANGED <<now, slot, pre, pointer, born, stored, publisher, faults>>

StrangerMessage(b) ==
    /\ claim[b] = Stranger
    /\ b \in pre
    /\ pre' = pre \ {b}
    /\ UNCHANGED <<now, slot, pointer, born, stored, claim, publisher, strangers, faults>>

Tick ==
    /\ now < MaxTime
    /\ now' = now + 1
    /\ UNCHANGED <<slot, pre, pointer, born, stored, claim, publisher, strangers, faults>>

PublishStep(q) ==
    \/ RestorePublicationPool(q) \/ SubmitMember(q) \/ ReplacePublicationSlot(q)
    \/ OfferReplacement(q) \/ PublishDone(q)

PoolNext ==
    \/ \E q \in Publisher : PublishStep(q) \/ PublishEnds(q)
    \/ StrangerClaims
    \/ \E b \in Bundle : StrangerMessage(b)
    \/ Tick
=============================================================================
