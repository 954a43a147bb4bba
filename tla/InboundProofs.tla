--------------------------- MODULE InboundProofs ---------------------------
(***************************************************************************)
(* Proofs about Inbound, for every set of processes, senders and envelopes *)
(* and every page, chunk and valve size.  Three arguments over the types:  *)
(* what waits for an ack is in the inbox with its body; every position a   *)
(* walk reports or resumes from has only judged envelopes behind it; and,  *)
(* for one command at a time, what waits to be read is after the place the *)
(* next walk starts from.  A page is a prefix of what follows its start,   *)
(* which is where the continuation comes in (PageCut).                     *)
(***************************************************************************)
EXTENDS Inbound, FiniteSetTheorems, WellFoundedInduction, TLAPS

-----------------------------------------------------------------------------
(* Pages.                                                                  *)

\* The relay issues a position once.
PositionsDistinct ==
    \A e, f \in Envelope : position[e] = position[f] => e = f \/ position[e] = 0

\* A set of naturals has a least element.
LEMMA LeastNatural ==
  ASSUME NEW S, S \subseteq Nat, S # {}
  PROVE  \E k \in S : \A m \in S : k <= m
<1> DEFINE R == OpToRel(<, Nat)
<1>1. IsWellFoundedOn(R, Nat)  BY NatLessThanWellFounded
<1>2. \A x, y \in Nat : x < y => <<x, y>> \in R  BY DEF OpToRel
<1> HIDE DEF R
<1>3. PICK k \in S : \A m \in S : ~(<<m, k>> \in R)  BY <1>1, WFMin
<1>4. \A m \in S : ~(m < k)  BY <1>2, <1>3
<1>5. QED  BY <1>4

\* A bounded one has a greatest element.
LEMMA GreatestNatural ==
  ASSUME NEW S, NEW b \in Nat, S \subseteq 0..b, S # {}
  PROVE  \E k \in S : \A m \in S : m <= k
<1> DEFINE D == {b - m : m \in S}
<1>1. D \subseteq Nat /\ D # {}
  <2>1. \A m \in S : m \in Int /\ 0 <= m /\ m <= b  OBVIOUS
  <2>2. \A m \in S : b - m \in Nat  BY <2>1
  <2>3. QED  BY <2>2
<1> HIDE DEF D
<1>2. PICK d \in D : \A m \in D : d <= m  BY <1>1, LeastNatural
<1>3. PICK k \in S : d = b - k  BY <1>2 DEF D
<1>4. \A m \in S : b - k <= b - m  BY <1>2, <1>3 DEF D
<1>5. QED  BY <1>4

\* What is stored after a position is finitely many envelopes.
LEMMA AfterFinite ==
  ASSUME TypeOK, PositionsDistinct, NEW from \in Nat
  PROVE  IsFiniteSet(After(from))
<1> DEFINE f == [e \in After(from) |-> position[e]]
<1>1. \A e \in After(from) : e \in Envelope /\ position[e] \in 1..MaxPosition
  BY InboundAssumption DEF After, TypeOK
<1>2. f \in Injection(After(from), 1..MaxPosition)
  BY <1>1 DEF Injection, IsInjective, PositionsDistinct
<1>3. IsFiniteSet(1..MaxPosition)  BY FS_Interval, InboundAssumption
<1>4. QED  BY <1>2, <1>3, FS_Injection

\* The page that follows a position: when it is not all there is, it ends with an
\* envelope whose position is the continuation, and holds every envelope up to there.
LEMMA PageCut ==
  ASSUME TypeOK, PositionsDistinct, NEW from \in Nat, NEW n \in Nat \ {0},
         FirstAfter(from, n) # After(from)
  PROVE  LET k == Continuation(from, n) IN
         /\ k \in Nat /\ k > from /\ k < next
         /\ \A e \in After(from) : e \in FirstAfter(from, n) <=> position[e] <= k
<1> DEFINE Upto(e) == {f \in After(from) : position[f] <= position[e]}
           S == {position[e] : e \in FirstAfter(from, n)}
           T == {position[e] : e \in After(from)}
<1>1. \A e \in After(from) : /\ e \in Envelope /\ position[e] \in 1..MaxPosition
                             /\ position[e] > from /\ position[e] < next
  BY InboundAssumption DEF After, TypeOK
<1>2. FirstAfter(from, n) \subseteq After(from)  BY DEF FirstAfter
<1>3. \A e \in After(from) : e \in FirstAfter(from, n) <=> Cardinality(Upto(e)) <= n
  BY DEF FirstAfter
<1>4. \A e \in After(from) : IsFiniteSet(Upto(e)) /\ Cardinality(Upto(e)) \in Nat
  <2> SUFFICES ASSUME NEW e \in After(from)
               PROVE  IsFiniteSet(Upto(e)) /\ Cardinality(Upto(e)) \in Nat  OBVIOUS
  <2>1. Upto(e) \in SUBSET After(from)  OBVIOUS
  <2>2. IsFiniteSet(Upto(e))  BY <2>1, AfterFinite, FS_Subset
  <2>3. QED  BY <2>2, FS_CardinalityType
<1>5. ASSUME NEW e \in FirstAfter(from, n), NEW f \in After(from), position[f] <= position[e]
      PROVE  f \in FirstAfter(from, n)
  <2>1. e \in After(from)  BY <1>2
  <2>2. Upto(f) \in SUBSET Upto(e)  BY <1>1, <1>5, <2>1
  <2>3. Cardinality(Upto(f)) <= Cardinality(Upto(e))  BY <1>4, <2>1, <2>2, FS_Subset
  <2>4. Cardinality(Upto(e)) <= n  BY <1>3, <2>1
  <2>5. Cardinality(Upto(f)) <= n  BY <1>4, <2>1, <2>3, <2>4
  <2>6. QED  BY <1>3, <2>5
<1>6. FirstAfter(from, n) # {}
  <2>1. T \subseteq Nat /\ T # {}  BY <1>1, <1>2
  <2>2. PICK e \in After(from) : \A f \in After(from) : position[e] <= position[f]
    <3>1. PICK k \in T : \A m \in T : k <= m  BY <2>1, LeastNatural
    <3>2. QED  BY <3>1
  <2>3. Upto(e) = {e}  BY <1>1, <2>2 DEF PositionsDistinct
  <2>4. Cardinality(Upto(e)) = 1  BY <2>3, FS_Singleton
  <2>5. QED  BY <1>3, <2>4
<1>7. PICK k \in S : \A m \in S : m <= k
  <2>1. S \subseteq 0..MaxPosition /\ S # {}  BY <1>1, <1>2, <1>6
  <2>2. QED  BY <2>1, GreatestNatural, InboundAssumption
<1>8. /\ Continuation(from, n) \in S
      /\ \A e \in FirstAfter(from, n) : position[e] <= Continuation(from, n)
  BY <1>7 DEF Continuation
<1>9. QED
  <2>1. PICK e \in FirstAfter(from, n) : Continuation(from, n) = position[e]  BY <1>8
  <2>2. e \in After(from)  BY <1>2
  <2>3. QED  BY <1>1, <1>2, <1>5, <1>8, <2>1, <2>2

-----------------------------------------------------------------------------
(* Types.                                                                  *)

Process == {Idle, Importing} \cup Poll \cup Acking

TypeInv == TypeOK /\ PositionsDistinct

\* What a process at each point is.
LEMMA ProcessAt ==
  ASSUME TypeOK, NEW p \in Proc
  PROVE  /\ proc[p].pc \in {"page", "judge"} => proc[p] \in Poll
         /\ proc[p].pc \in {"ack", "settle"} => proc[p] \in Acking
         /\ proc[p] \in Process
<1>1. proc[p] \in Process  BY DEF TypeOK, Process
<1>2. Idle.pc = "idle" /\ Importing.pc = "request"  BY DEF Idle, Importing
<1>3. \A w \in Poll : w.pc \in {"page", "judge"}  BY DEF Poll
<1>4. \A w \in Acking : w.pc \in {"ack", "settle"}  BY DEF Acking
<1>5. QED  BY <1>1, <1>2, <1>3, <1>4 DEF Process

LEMMA BecomeTyped ==
  ASSUME TypeOK, UNCHANGED next, NEW p \in Proc, NEW w \in Process, Become(p, w)
  PROVE  /\ proc' \in [Proc -> Process'] /\ proc'[p] = w
         /\ \A q \in Proc \ {p} : proc'[q] = proc[q]
<1>1. Process' = Process  BY DEF Process, Poll, Token, Acking, Idle, Importing
<1>2. proc \in [Proc -> Process]  BY DEF TypeOK, Process
<1>3. proc' = [proc EXCEPT ![p] = w]  BY DEF Become
<1>4. QED  BY <1>1, <1>2, <1>3

\* The fields of a poll and of acks under way.
LEMMA PollFields ==
  ASSUME NEW w \in Poll
  PROVE  /\ w.pc \in {"page", "judge"} /\ w.rewalk \in Token /\ w.cursor \in Token
         /\ w.readThrough \in Token /\ w.pages \in 0..(MaxPages - 1)
         /\ w.received \in BOOLEAN /\ w.rejected \in BOOLEAN
         /\ w.batch \subseteq (1..(next - 1)) \X Envelope /\ w.next \in Token
BY DEF Poll

LEMMA StartTyped ==
  ASSUME TypeOK
  PROVE  [pc |-> "page", rewalk |-> rewalk, cursor |-> rewalk,
          readThrough |-> Absent, pages |-> 0, received |-> FALSE,
          rejected |-> FALSE, batch |-> {}, next |-> Absent] \in Poll
<1>1. 0 \in 0..(MaxPages - 1)  BY InboundAssumption
<1>2. rewalk \in Token /\ Absent \in Token  BY DEF TypeOK, Token
<1>3. {} \in SUBSET ((1..(next - 1)) \X Envelope)  OBVIOUS
<1> HIDE DEF Token
<1>4. QED  BY <1>1, <1>2, <1>3 DEF Poll

\* Where a request without a cursor, or with one, is served from.
From(p) == IF proc[p].cursor = Absent THEN mark' ELSE proc[p].cursor

Served(p, n) == [proc[p] EXCEPT !.pc = "judge",
                    !.batch = {<<position[e], e>> : e \in FirstAfter(From(p), n)},
                    !.next = Continuation(From(p), n)]

LEMMA AdvancedTyped ==
  ASSUME TypeOK, NEW t \in Token
  PROVE  Advanced(t) \in 0..(next - 1) /\ Advanced(t) >= mark /\ Advanced(t) \in {t, mark}
BY InboundAssumption DEF Advanced, TypeOK, Token

LEMMA ServedTyped ==
  ASSUME TypeInv, NEW p \in Proc, proc[p].pc = "page", mark' = Advanced(proc[p].readThrough),
         NEW n \in 1..PageLimit
  PROVE  /\ From(p) \in 0..(next - 1)
         /\ Continuation(From(p), n) \in Token
         /\ Served(p, n) \in Poll
<1>1. proc[p] \in Poll  BY ProcessAt DEF TypeInv
<1>2. mark' \in 0..(next - 1)  BY <1>1, PollFields, AdvancedTyped DEF TypeInv
<1>3. From(p) \in 0..(next - 1)  BY <1>1, <1>2, PollFields DEF From, Token
<1>4. next \in Nat /\ From(p) \in Nat  BY <1>3, InboundAssumption DEF TypeInv, TypeOK
<1>5. n \in Nat \ {0}  BY InboundAssumption
<1>6. Continuation(From(p), n) \in Token
  <2>1. CASE FirstAfter(From(p), n) = After(From(p))  BY <2>1 DEF Continuation, Token
  <2>2. CASE FirstAfter(From(p), n) # After(From(p))
    BY <1>4, <1>5, <2>2, PageCut DEF TypeInv, Token
  <2>3. QED  BY <2>1, <2>2
<1>7. {<<position[e], e>> : e \in FirstAfter(From(p), n)} \in SUBSET ((1..(next - 1)) \X Envelope)
  <2>1. \A e \in FirstAfter(From(p), n) : e \in Envelope /\ position[e] \in 1..(next - 1)
    BY <1>4 DEF FirstAfter, After, TypeInv, TypeOK
  <2>2. QED  BY <2>1
<1>8. Served(p, n) \in Poll  BY <1>1, <1>6, <1>7, PollFields DEF Served, Poll
<1>9. QED  BY <1>3, <1>6, <1>8

\* A step of one process that issues no position.
LEMMA ProcessTypeStep ==
  ASSUME TypeInv, UNCHANGED <<next, expired>>, NEW p \in Proc, NEW w \in Process, Become(p, w),
         position' \in [Envelope -> 0..MaxPosition],
         \A e \in Envelope : position'[e] \in {0, position[e]},
         mark' \in 0..(next - 1), contacts' \subseteq Sender, rewalk' \in Token,
         inbox' \in [Slot -> Body \cup {Absent}], history' \in [Slot -> Nat],
         pendingAck' \subseteq Envelope, imports' \in 0..MaxImports, faults' \in 0..MaxFaults,
         judged' \subseteq 1..(next - 1), acked' \subseteq Envelope
  PROVE  TypeInv'
<1>1. proc' \in [Proc -> Process']  BY BecomeTyped DEF TypeInv
<1>2. \A e \in Envelope : position'[e] < next
  <2>1. \A e \in Envelope : position[e] < next /\ 0 < next
    BY InboundAssumption DEF TypeInv, TypeOK
  <2>2. QED  BY <2>1
<1>3. TypeOK'  BY <1>1, <1>2 DEF TypeInv, TypeOK, Process, Token
<1>4. PositionsDistinct'  BY DEF TypeInv, PositionsDistinct
<1>5. QED  BY <1>3, <1>4 DEF TypeInv

\* One that leaves the relay alone.
LEMMA LocalTypeStep ==
  ASSUME TypeInv, UNCHANGED relay, NEW p \in Proc, NEW w \in Process, Become(p, w),
         contacts' \subseteq Sender, rewalk' \in Token,
         inbox' \in [Slot -> Body \cup {Absent}], history' \in [Slot -> Nat],
         pendingAck' \subseteq Envelope, imports' \in 0..MaxImports, faults' \in 0..MaxFaults,
         judged' \subseteq 1..(next - 1), acked' = acked
  PROVE  TypeInv'
<1>1. \A e \in Envelope : position'[e] \in {0, position[e]}  BY DEF relay
<1>2. /\ UNCHANGED <<next, expired>> /\ mark' \in 0..(next - 1) /\ acked' \subseteq Envelope
      /\ position' \in [Envelope -> 0..MaxPosition]
  BY DEF TypeInv, TypeOK, relay
<1>3. QED  BY <1>1, <1>2, ProcessTypeStep

LEMMA SendTyped ==
  ASSUME TypeInv, NEW e \in Envelope, Send(e)
  PROVE  TypeInv'
<1>1. /\ position' = [position EXCEPT ![e] = next] /\ next' = next + 1 /\ next <= MaxPosition
      /\ UNCHANGED <<mark, expired, contacts, rewalk, inbox, history, pendingAck, proc, imports,
                     faults, judged, acked>>
  BY DEF Send, store
<1>2. next \in Nat \ {0} /\ next' \in 1..(MaxPosition + 1) /\ MaxPosition \in Nat
  BY <1>1, InboundAssumption DEF TypeInv, TypeOK
<1>3. \A f \in Envelope : position[f] \in Nat /\ position[f] < next  BY DEF TypeInv, TypeOK
<1>4. /\ position' \in [Envelope -> 0..MaxPosition]
      /\ \A f \in Envelope : position'[f] < next'
  BY <1>1, <1>2, <1>3 DEF TypeInv, TypeOK
<1>5. 0..(next - 1) \subseteq 0..(next' - 1) /\ 1..(next - 1) \subseteq 1..(next' - 1)
  BY <1>1, <1>2
<1>6. Token \subseteq Token'  BY <1>5 DEF Token
<1>7. Poll \subseteq Poll'
  <2>1. SUBSET ((1..(next - 1)) \X Envelope) \subseteq SUBSET ((1..(next' - 1)) \X Envelope)
    BY <1>5
  <2>2. QED  BY <1>6, <2>1 DEF Poll
<1>8. proc' \in [Proc -> Process']  BY <1>1, <1>7 DEF TypeInv, TypeOK, Process, Idle, Importing, Acking
<1>9. TypeOK'
  <2>1. mark' \in 0..(next' - 1) /\ judged' \subseteq 1..(next' - 1) /\ rewalk' \in Token'
    BY <1>1, <1>5, <1>6 DEF TypeInv, TypeOK
  <2>2. QED  BY <1>1, <1>2, <1>4, <1>8, <2>1 DEF TypeInv, TypeOK, Process
<1>10. PositionsDistinct'  BY <1>1, <1>3 DEF TypeInv, TypeOK, PositionsDistinct
<1>11. QED  BY <1>9, <1>10 DEF TypeInv

LEMMA ExpireTyped ==
  ASSUME TypeInv, NEW e \in Envelope, Expire(e)
  PROVE  TypeInv'
<1>1. /\ position' = [position EXCEPT ![e] = 0] /\ expired' = expired \cup {e}
      /\ UNCHANGED <<next, mark, contacts, rewalk, inbox, history, pendingAck, proc, imports,
                     faults, judged, acked>>
  BY DEF Expire, store
<1>2. /\ position' \in [Envelope -> 0..MaxPosition]
      /\ \A f \in Envelope : position'[f] < next'
  BY <1>1, InboundAssumption DEF TypeInv, TypeOK
<1>3. Process' = Process  BY <1>1 DEF Process, Poll, Token, Acking, Idle, Importing
<1>4. TypeOK'  BY <1>1, <1>2, <1>3 DEF TypeInv, TypeOK, Process, Token
<1>5. PositionsDistinct'  BY <1>1 DEF TypeInv, TypeOK, PositionsDistinct
<1>6. QED  BY <1>4, <1>5 DEF TypeInv

LEMMA StartPollTyped ==
  ASSUME TypeInv, NEW p \in Proc, StartPoll(p)
  PROVE  TypeInv'
<1> DEFINE w == [pc |-> "page", rewalk |-> rewalk, cursor |-> rewalk,
                 readThrough |-> Absent, pages |-> 0, received |-> FALSE,
                 rejected |-> FALSE, batch |-> {}, next |-> Absent]
<1>1. w \in Process  BY StartTyped DEF TypeInv, Process
<1>2. Become(p, w) /\ UNCHANGED <<relay, store, imports, faults, judged, acked>>  BY DEF StartPoll
<1> HIDE DEF w
<1>3. QED  BY <1>1, <1>2, LocalTypeStep DEF TypeInv, TypeOK, store

LEMMA PageTyped ==
  ASSUME TypeInv, NEW p \in Proc, Page(p)
  PROVE  TypeInv'
<1>1. PICK n \in 1..PageLimit : Become(p, Served(p, n))  BY DEF Page, Served, From
<1>2. /\ proc[p].pc = "page" /\ mark' = Advanced(proc[p].readThrough)
      /\ UNCHANGED <<position, next, expired, store, imports, faults, judged, acked>>
  BY DEF Page
<1>3. Served(p, n) \in Process  BY <1>2, ServedTyped DEF Process
<1>4. mark' \in 0..(next - 1)  BY <1>2, ProcessAt, PollFields, AdvancedTyped DEF TypeInv
<1>5. QED  BY <1>1, <1>2, <1>3, <1>4, ProcessTypeStep DEF TypeInv, TypeOK, store

\* The rest of a page without x.
Rest(w, x) == [w EXCEPT !.batch = @ \ {x}, !.received = @ \/ Acceptable(x[2]),
                        !.rejected = @ \/ ~Acceptable(x[2])]

LEMMA RestTyped ==
  ASSUME NEW w \in Poll, NEW x
  PROVE  /\ Rest(w, x) \in Poll /\ Rest(w, x).batch = w.batch \ {x}
         /\ Rest(w, x).pc = w.pc /\ Rest(w, x).rewalk = w.rewalk /\ Rest(w, x).cursor = w.cursor
         /\ Rest(w, x).readThrough = w.readThrough /\ Rest(w, x).next = w.next
<1>1. (w.received \/ Acceptable(x[2])) \in BOOLEAN /\ (w.rejected \/ ~Acceptable(x[2])) \in BOOLEAN
  OBVIOUS
<1>2. w.batch \ {x} \in SUBSET ((1..(next - 1)) \X Envelope)  BY PollFields
<1>3. QED  BY <1>1, <1>2 DEF Rest, Poll

LEMMA AcceptTyped ==
  ASSUME TypeInv, NEW e \in Envelope,
         IF Acceptable(e) THEN AcceptOne(e) ELSE Reject(e)
  PROVE  /\ inbox' \in [Slot -> Body \cup {Absent}] /\ history' \in [Slot -> Nat]
         /\ pendingAck' \subseteq Envelope
<1>1. SlotOf(e) \in Slot /\ e.body \in Body  BY InboundAssumption DEF SlotOf, Slot
<1>2. \A h \in Nat : h + 1 \in Nat  OBVIOUS
<1>3. history[SlotOf(e)] \in Nat  BY <1>1 DEF TypeInv, TypeOK
<1>4. CASE Acceptable(e)
  <2>1. /\ inbox' = [inbox EXCEPT ![SlotOf(e)] = e.body]
        /\ history' = [history EXCEPT ![SlotOf(e)] =
                           IF Received(e) THEN history[SlotOf(e)] ELSE history[SlotOf(e)] + 1]
        /\ pendingAck' = pendingAck \cup {e}
    BY <1>4 DEF AcceptOne
  <2>2. QED  BY <1>1, <1>2, <1>3, <2>1 DEF TypeInv, TypeOK
<1>5. CASE ~Acceptable(e)  BY <1>5 DEF Reject, TypeInv, TypeOK
<1>6. QED  BY <1>4, <1>5

LEMMA JudgeTyped ==
  ASSUME TypeInv, NEW p \in Proc, Judge(p)
  PROVE  TypeInv'
<1>1. PICK x \in proc[p].batch :
         /\ Become(p, Rest(proc[p], x))
         /\ IF Acceptable(x[2]) THEN AcceptOne(x[2]) ELSE Reject(x[2])
         /\ judged' = judged \cup {x[1]}
  BY DEF Judge, Rest
<1>2. proc[p].pc = "judge" /\ UNCHANGED <<relay, contacts, rewalk, imports, faults, acked>>
  BY DEF Judge
<1>3. proc[p] \in Poll  BY <1>2, ProcessAt DEF TypeInv
<1>4. x \in (1..(next - 1)) \X Envelope  BY <1>3, PollFields
<1>5. x[1] \in 1..(next - 1) /\ x[2] \in Envelope  BY <1>4
<1>6. Rest(proc[p], x) \in Process  BY <1>3, RestTyped DEF Process
<1>7. judged' \subseteq 1..(next - 1)  BY <1>1, <1>5 DEF TypeInv, TypeOK
<1>8. /\ inbox' \in [Slot -> Body \cup {Absent}] /\ history' \in [Slot -> Nat]
      /\ pendingAck' \subseteq Envelope
  BY <1>1, <1>5, AcceptTyped
<1>9. QED  BY <1>1, <1>2, <1>6, <1>7, <1>8, LocalTypeStep DEF TypeInv, TypeOK

\* A walk that goes on with the next page, and the acks that follow a walk.
Onward(w) == [w EXCEPT !.pc = "page", !.pages = @ + 1, !.cursor = w.next, !.readThrough = w.next,
                       !.rewalk = IF @ = Absent THEN Absent ELSE w.next]
Acks == [pc |-> "ack", ids |-> pendingAck, sent |-> {}]

LEMMA OnwardTyped ==
  ASSUME NEW w \in Poll, w.pages + 1 # MaxPages
  PROVE  /\ Onward(w) \in Poll /\ Onward(w).pc = "page" /\ Onward(w).cursor = w.next
         /\ Onward(w).readThrough = w.next /\ Onward(w).batch = w.batch
         /\ Onward(w).rewalk = IF w.rewalk = Absent THEN Absent ELSE w.next
         /\ Onward(w).next = w.next
<1>1. w.pages + 1 \in 0..(MaxPages - 1)  BY PollFields, InboundAssumption
<1>2. w.next \in Token /\ (IF w.rewalk = Absent THEN Absent ELSE w.next) \in Token
  BY PollFields DEF Token
<1>3. QED  BY <1>1, <1>2 DEF Onward, Poll

LEMMA AcksTyped == ASSUME TypeOK PROVE Acks \in Acking
BY DEF TypeOK, Acks, Acking

\* What becomes of a walk at the end of a page.
LEMMA EndPageBecomes ==
  ASSUME TypeInv, NEW p \in Proc, EndPage(p)
  PROVE  /\ proc[p] \in Poll /\ proc[p].pc = "judge" /\ proc[p].batch = {}
         /\ rewalk' = RewalkAfter(proc[p])
         /\ UNCHANGED <<relay, contacts, inbox, history, pendingAck, imports, faults, judged, acked>>
         /\ \/ /\ proc[p].next # Absent /\ proc[p].pages + 1 # MaxPages /\ ~proc[p].received
               /\ Become(p, Onward(proc[p]))
            \/ Become(p, Idle)
            \/ Become(p, Acks)
BY ProcessAt DEF EndPage, Onward, Acks, TypeInv

LEMMA EndPageTyped ==
  ASSUME TypeInv, NEW p \in Proc, EndPage(p)
  PROVE  TypeInv'
<1>1. rewalk' \in Token  BY EndPageBecomes, PollFields DEF RewalkAfter, TypeInv, TypeOK
<1>2. PICK w \in Process : Become(p, w)
  BY EndPageBecomes, OnwardTyped, AcksTyped DEF Process, TypeInv
<1>3. QED  BY <1>1, <1>2, EndPageBecomes, LocalTypeStep DEF TypeInv, TypeOK

Sent(p, c) == [proc[p] EXCEPT !.pc = "settle", !.ids = @ \ c, !.sent = c]

LEMMA DeletedTyped ==
  ASSUME TypeInv, NEW c, c \subseteq Envelope, Deleted(c)
  PROVE  /\ position' \in [Envelope -> 0..MaxPosition] /\ acked' \subseteq Envelope
         /\ \A e \in Envelope : position'[e] = IF e \in c THEN 0 ELSE position[e]
         /\ \A e \in Envelope : position'[e] \in {0, position[e]}
BY InboundAssumption DEF Deleted, TypeInv, TypeOK

LEMMA AckRequestTyped ==
  ASSUME TypeInv, NEW p \in Proc, AckRequest(p)
  PROVE  TypeInv'
<1>1. PICK c \in SUBSET proc[p].ids : Deleted(c) /\ Become(p, Sent(p, c))
  BY DEF AckRequest, AckChunks, Sent
<1>2. proc[p].pc = "ack" /\ UNCHANGED <<next, mark, expired, store, imports, faults, judged>>
  BY DEF AckRequest
<1>3. proc[p] \in Acking  BY <1>2, ProcessAt DEF TypeInv
<1>4. c \subseteq Envelope /\ Sent(p, c) \in Acking  BY <1>3 DEF Acking, Sent
<1>5. Sent(p, c) \in Process  BY <1>4 DEF Process
<1>6. /\ position' \in [Envelope -> 0..MaxPosition] /\ acked' \subseteq Envelope
      /\ \A e \in Envelope : position'[e] \in {0, position[e]}
  BY <1>1, <1>4, DeletedTyped
<1>7. QED  BY <1>1, <1>2, <1>5, <1>6, ProcessTypeStep DEF TypeInv, TypeOK, store

Settled(p) == [proc[p] EXCEPT !.pc = "ack", !.sent = {}]

LEMMA AckSettleTyped ==
  ASSUME TypeInv, NEW p \in Proc, AckSettle(p)
  PROVE  TypeInv'
<1>1. /\ proc[p].pc = "settle" /\ pendingAck' = pendingAck \ proc[p].sent /\ Become(p, Settled(p))
      /\ UNCHANGED <<relay, contacts, rewalk, inbox, history, imports, faults, judged, acked>>
  BY DEF AckSettle, Settled
<1>2. proc[p] \in Acking  BY <1>1, ProcessAt DEF TypeInv
<1>3. Settled(p) \in Acking  BY <1>2 DEF Acking, Settled
<1>4. Settled(p) \in Process  BY <1>3 DEF Process
<1>5. QED  BY <1>1, <1>4, LocalTypeStep DEF TypeInv, TypeOK

LEMMA AckDoneTyped ==
  ASSUME TypeInv, NEW p \in Proc, AckDone(p)
  PROVE  TypeInv'
<1>1. Become(p, Idle) /\ UNCHANGED <<relay, store, imports, faults, judged, acked>>  BY DEF AckDone
<1>2. Idle \in Process  BY DEF Process
<1>3. QED  BY <1>1, <1>2, LocalTypeStep DEF TypeInv, TypeOK, store

LEMMA ImportTyped ==
  ASSUME TypeInv, NEW p \in Proc, NEW s \in Sender, ImportContact(p, s)
  PROVE  TypeInv'
<1>1. /\ Become(p, Importing) /\ contacts' = contacts \cup {s} /\ imports' = imports + 1
      /\ imports < MaxImports
      /\ UNCHANGED <<relay, rewalk, inbox, history, pendingAck, faults, judged, acked>>
  BY DEF ImportContact
<1>2. Importing \in Process  BY DEF Process
<1>3. contacts' \subseteq Sender /\ imports' \in 0..MaxImports
  BY <1>1, InboundAssumption DEF TypeInv, TypeOK
<1>4. QED  BY <1>1, <1>2, <1>3, LocalTypeStep DEF TypeInv, TypeOK

LEMMA RequestTyped ==
  ASSUME TypeInv, NEW p \in Proc, RequestMailboxRewalk(p)
  PROVE  TypeInv'
<1>1. /\ Become(p, Idle) /\ rewalk' = 0
      /\ UNCHANGED <<relay, contacts, inbox, history, pendingAck, imports, faults, judged, acked>>
  BY DEF RequestMailboxRewalk
<1>2. Idle \in Process  BY DEF Process
<1>3. rewalk' \in Token  BY <1>1, InboundAssumption DEF TypeInv, TypeOK, Token
<1>4. QED  BY <1>1, <1>2, <1>3, LocalTypeStep DEF TypeInv, TypeOK

\* A command that ends early has changed nothing but what its last request did.
LEMMA EndsTyped ==
  ASSUME TypeInv, NEW p \in Proc, NEW c, Ends(p, c),
         position' \in [Envelope -> 0..MaxPosition], acked' \subseteq Envelope,
         \A e \in Envelope : position'[e] \in {0, position[e]},
         mark' \in 0..(next - 1)
  PROVE  TypeInv'
<1>1. /\ Become(p, Idle) /\ faults < MaxFaults /\ faults' = faults + 1
      /\ UNCHANGED <<next, expired, store, imports, judged>>
  BY DEF Ends
<1>2. Idle \in Process  BY DEF Process
<1>3. faults' \in 0..MaxFaults  BY <1>1, InboundAssumption DEF TypeInv, TypeOK
<1>4. QED  BY <1>1, <1>2, <1>3, ProcessTypeStep DEF TypeInv, TypeOK, store

LEMMA FaultsTyped ==
  ASSUME TypeInv, NEW p \in Proc,
         PollEnds(p) \/ PageAnswerLost(p) \/ AckAnswerLost(p) \/ ImportEnds(p)
  PROVE  TypeInv'
<1>1. /\ position \in [Envelope -> 0..MaxPosition] /\ acked \subseteq Envelope
      /\ mark \in 0..(next - 1)
  BY DEF TypeInv, TypeOK
<1>2. CASE PollEnds(p) \/ ImportEnds(p)  BY <1>1, <1>2, EndsTyped DEF PollEnds, ImportEnds
<1>3. CASE PageAnswerLost(p)
  <2>1. mark' \in 0..(next - 1)
    BY <1>3, ProcessAt, PollFields, AdvancedTyped DEF TypeInv, PageAnswerLost
  <2>2. QED  BY <1>1, <1>3, <2>1, EndsTyped DEF PageAnswerLost
<1>4. CASE AckAnswerLost(p)
  <2>1. PICK d \in SUBSET proc[p].ids : Deleted(d)  BY <1>4 DEF AckAnswerLost, AckChunks
  <2>2. proc[p] \in Acking  BY <1>4, ProcessAt DEF TypeInv, AckAnswerLost
  <2>3. d \subseteq Envelope  BY <2>2 DEF Acking
  <2>4. QED  BY <1>1, <1>4, <2>1, <2>3, EndsTyped, DeletedTyped DEF AckAnswerLost
<1>5. QED  BY <1>2, <1>3, <1>4

\* Every state has its type, and no two stored envelopes share a position.
THEOREM InboundTyped == Spec => []TypeInv
<1>1. Init => TypeInv
  <2> SUFFICES ASSUME Init PROVE TypeInv  OBVIOUS
  <2>1. TypeOK
    BY InboundAssumption DEF Init, TypeOK, Token
  <2>2. PositionsDistinct  BY DEF Init, PositionsDistinct
  <2>3. QED  BY <2>1, <2>2 DEF TypeInv
<1>2. TypeInv /\ [Next]_vars => TypeInv'
  <2> SUFFICES ASSUME TypeInv, [Next]_vars PROVE TypeInv'  OBVIOUS
  <2>1. CASE UNCHANGED vars
    BY <2>1 DEF vars, TypeInv, TypeOK, Token, Poll, Acking, Idle, Importing, PositionsDistinct
  <2>2. ASSUME NEW e \in Envelope, Send(e) \/ Expire(e) PROVE TypeInv'
    BY <2>2, SendTyped, ExpireTyped
  <2>3. ASSUME NEW p \in Proc, PollStep(p) \/ RequestMailboxRewalk(p) PROVE TypeInv'
    BY <2>3, StartPollTyped, PageTyped, JudgeTyped, EndPageTyped, AckRequestTyped, AckSettleTyped,
       AckDoneTyped, RequestTyped DEF PollStep
  <2>4. ASSUME NEW p \in Proc, NEW s \in Sender, ImportContact(p, s) PROVE TypeInv'
    BY <2>4, ImportTyped
  <2>5. ASSUME NEW p \in Proc,
               PollEnds(p) \/ PageAnswerLost(p) \/ AckAnswerLost(p) \/ ImportEnds(p)
        PROVE  TypeInv'
    BY <2>5, FaultsTyped
  <2>6. QED  BY <2>1, <2>2, <2>3, <2>4, <2>5 DEF Next
<1>3. QED  BY <1>1, <1>2, PTL DEF Spec

-----------------------------------------------------------------------------
(* What is acknowledged is kept.                                           *)

Kept(e) == inbox[SlotOf(e)] = e.body

\* An empty slot of the inbox has no history.
HistoryFollowsInbox ==
    \A x \in Slot : history[x] <= 1 /\ (inbox[x] = Absent => history[x] = 0)

\* Whatever is waiting for its ack, in the store or in a request, is kept.
AcksAreKept ==
    /\ \A e \in acked \cup pendingAck : Kept(e)
    /\ \A p \in Proc : proc[p] \in Acking => \A e \in proc[p].ids \cup proc[p].sent : Kept(e)

KeptInv == HistoryFollowsInbox /\ AcksAreKept

LEMMA NoAckInIdleOrPoll ==
  /\ Idle \notin Acking /\ Importing \notin Acking
  /\ \A w \in Poll : w \notin Acking
<1>1. Idle.pc = "idle" /\ Importing.pc = "request"  BY DEF Idle, Importing
<1>2. \A w \in Poll : w.pc \in {"page", "judge"}  BY DEF Poll
<1>3. \A w \in Acking : w.pc \in {"ack", "settle"}  BY DEF Acking
<1>4. QED  BY <1>1, <1>2, <1>3

\* A step of one process that leaves the inbox and the history alone.
LEMMA KeptFrame ==
  ASSUME TypeInv, KeptInv, UNCHANGED <<next, inbox, history>>,
         NEW p \in Proc, NEW w \in Process, Become(p, w),
         w \in Acking => \A e \in w.ids \cup w.sent : Kept(e),
         \A e \in acked' \cup pendingAck' : Kept(e)
  PROVE  KeptInv'
<1>1. HistoryFollowsInbox'  BY DEF KeptInv, HistoryFollowsInbox
<1>2. \A e : Kept(e)' <=> Kept(e)  BY DEF Kept
<1>3. proc'[p] = w /\ \A q \in Proc \ {p} : proc'[q] = proc[q]  BY BecomeTyped DEF TypeInv
<1>4. Acking' = Acking  BY DEF Acking
<1>5. AcksAreKept'  BY <1>2, <1>3, <1>4 DEF KeptInv, AcksAreKept
<1>6. QED  BY <1>1, <1>5 DEF KeptInv

\* Judging an envelope never changes what a slot holds: what is accepted again
\* has the body that is there.
LEMMA AcceptKeeps ==
  ASSUME TypeInv, KeptInv, NEW e \in Envelope,
         IF Acceptable(e) THEN AcceptOne(e) ELSE Reject(e)
  PROVE  /\ HistoryFollowsInbox'
         /\ \A f \in Envelope : Kept(f) => Kept(f)'
         /\ \A f \in pendingAck' : f \in pendingAck \/ Kept(f)'
<1>1. /\ SlotOf(e) \in Slot /\ e.body \in Body /\ e.body # Absent
      /\ \A f \in Envelope : SlotOf(f) \in Slot /\ f.body \in Body /\ f.body # Absent
  BY InboundAssumption DEF SlotOf, Slot
<1>2. CASE Acceptable(e)
  <2>1. /\ inbox' = [inbox EXCEPT ![SlotOf(e)] = e.body]
        /\ history' = [history EXCEPT ![SlotOf(e)] =
                           IF Received(e) THEN history[SlotOf(e)] ELSE history[SlotOf(e)] + 1]
        /\ pendingAck' = pendingAck \cup {e}
    BY <1>2 DEF AcceptOne
  <2>2. Received(e) => inbox[SlotOf(e)] = e.body  BY <1>2 DEF Acceptable
  <2>3. \A f \in Envelope : Kept(f) => Kept(f)'
    BY <1>1, <2>1, <2>2 DEF Kept, Received, TypeInv, TypeOK
  <2>4. Kept(e)'  BY <1>1, <2>1 DEF Kept, TypeInv, TypeOK
  <2>5. HistoryFollowsInbox'
    <3> SUFFICES ASSUME NEW x \in Slot
                 PROVE  history'[x] <= 1 /\ (inbox'[x] = Absent => history'[x] = 0)
      BY DEF HistoryFollowsInbox
    <3>1. history[x] <= 1 /\ (inbox[x] = Absent => history[x] = 0) /\ history[x] \in Nat
      BY DEF KeptInv, HistoryFollowsInbox, TypeInv, TypeOK
    <3>2. CASE x = SlotOf(e)
      <4>1. inbox'[x] # Absent  BY <1>1, <2>1, <3>2 DEF TypeInv, TypeOK
      <4>2. history'[x] <= 1  BY <1>1, <2>1, <3>1, <3>2 DEF TypeInv, TypeOK, Received
      <4>3. QED  BY <4>1, <4>2
    <3>3. CASE x # SlotOf(e)  BY <2>1, <3>1, <3>3 DEF TypeInv, TypeOK
    <3>4. QED  BY <3>2, <3>3
  <2>6. QED  BY <2>1, <2>3, <2>4, <2>5
<1>3. CASE ~Acceptable(e)
  BY <1>3 DEF Reject, KeptInv, HistoryFollowsInbox, Kept
<1>4. QED  BY <1>2, <1>3

LEMMA JudgeKept ==
  ASSUME TypeInv, KeptInv, NEW p \in Proc, Judge(p)
  PROVE  KeptInv'
<1>1. PICK x \in proc[p].batch :
         /\ Become(p, Rest(proc[p], x))
         /\ IF Acceptable(x[2]) THEN AcceptOne(x[2]) ELSE Reject(x[2])
  BY DEF Judge, Rest
<1>2. proc[p].pc = "judge" /\ UNCHANGED <<relay, contacts, rewalk, imports, faults, acked>>
  BY DEF Judge
<1>3. proc[p] \in Poll  BY <1>2, ProcessAt DEF TypeInv
<1>4. x[2] \in Envelope  BY <1>3, PollFields
<1>5. Rest(proc[p], x) \in Poll /\ Rest(proc[p], x) \in Process  BY <1>3, RestTyped DEF Process
<1>6. proc'[p] \notin Acking /\ \A q \in Proc \ {p} : proc'[q] = proc[q]
  BY <1>1, <1>2, <1>5, BecomeTyped, NoAckInIdleOrPoll DEF TypeInv, relay
<1>7. /\ HistoryFollowsInbox'
      /\ \A f \in Envelope : Kept(f) => Kept(f)'
      /\ \A f \in pendingAck' : f \in pendingAck \/ Kept(f)'
  BY <1>1, <1>4, AcceptKeeps
<1>8. acked' = acked /\ acked \subseteq Envelope /\ pendingAck \subseteq Envelope
  BY <1>2 DEF TypeInv, TypeOK
<1>9. \A e \in acked' \cup pendingAck' : Kept(e)'  BY <1>7, <1>8 DEF KeptInv, AcksAreKept
<1>10. \A q \in Proc : proc'[q] \in Acking => \A e \in proc'[q].ids \cup proc'[q].sent : Kept(e)'
  <2> SUFFICES ASSUME NEW q \in Proc, proc'[q] \in Acking, NEW e \in proc'[q].ids \cup proc'[q].sent
               PROVE  Kept(e)'
    OBVIOUS
  <2>1. proc'[q] = proc[q]  BY <1>6
  <2>2. e \in Envelope  BY DEF Acking
  <2>3. Kept(e)  BY <2>1 DEF KeptInv, AcksAreKept
  <2>4. QED  BY <1>7, <2>2, <2>3
<1>11. QED  BY <1>7, <1>9, <1>10 DEF KeptInv, AcksAreKept, Acking

\* Steps that touch neither the acks nor the inbox.
LEMMA QuietKept ==
  ASSUME TypeInv, KeptInv, UNCHANGED <<next, inbox, history, acked, pendingAck>>,
         NEW p \in Proc, NEW w \in {Idle, Importing} \cup Poll, Become(p, w)
  PROVE  KeptInv'
<1>1. w \in Process /\ w \notin Acking  BY NoAckInIdleOrPoll DEF Process
<1>2. \A e \in acked' \cup pendingAck' : Kept(e)  BY DEF KeptInv, AcksAreKept
<1>3. QED  BY <1>1, <1>2, KeptFrame

LEMMA AckKept ==
  ASSUME TypeInv, KeptInv, NEW p \in Proc, AckRequest(p) \/ AckSettle(p) \/ AckAnswerLost(p)
  PROVE  KeptInv'
<1>1. proc[p].pc \in {"ack", "settle"}  BY DEF AckRequest, AckSettle, AckAnswerLost
<1>2. proc[p] \in Acking  BY <1>1, ProcessAt DEF TypeInv
<1>3. \A e \in proc[p].ids \cup proc[p].sent \cup acked \cup pendingAck : Kept(e)
  BY <1>2 DEF KeptInv, AcksAreKept
<1>4. CASE AckRequest(p)
  <2>1. PICK c \in SUBSET proc[p].ids : Deleted(c) /\ Become(p, Sent(p, c))
    BY <1>4 DEF AckRequest, AckChunks, Sent
  <2>2. Sent(p, c) \in Acking /\ Sent(p, c).ids = proc[p].ids \ c /\ Sent(p, c).sent = c
    BY <1>2 DEF Acking, Sent
  <2>3. \A e \in acked' \cup pendingAck' : Kept(e)  BY <1>3, <1>4, <2>1 DEF Deleted, AckRequest, store
  <2>4. QED  BY <1>3, <1>4, <2>1, <2>2, <2>3, KeptFrame DEF AckRequest, store, Process
<1>5. CASE AckSettle(p)
  <2>1. Become(p, Settled(p)) /\ pendingAck' \subseteq pendingAck  BY <1>5 DEF AckSettle, Settled
  <2>2. Settled(p) \in Acking /\ Settled(p).ids = proc[p].ids /\ Settled(p).sent = {}
    BY <1>2 DEF Acking, Settled
  <2>3. \A e \in acked' \cup pendingAck' : Kept(e)  BY <1>3, <1>5, <2>1 DEF AckSettle
  <2>4. QED  BY <1>3, <1>5, <2>1, <2>2, <2>3, KeptFrame DEF AckSettle, relay, Process
<1>6. CASE AckAnswerLost(p)
  <2>1. PICK d \in SUBSET proc[p].ids : Deleted(d)  BY <1>6 DEF AckAnswerLost, AckChunks
  <2>2. \A e \in acked' \cup pendingAck' : Kept(e)
    BY <1>3, <1>6, <2>1 DEF Deleted, AckAnswerLost, Ends, store
  <2>3. Become(p, Idle) /\ Idle \in Process  BY <1>6 DEF AckAnswerLost, Ends, Process
  <2>4. QED  BY <1>6, <2>2, <2>3, KeptFrame, NoAckInIdleOrPoll DEF AckAnswerLost, Ends, store
<1>7. QED  BY <1>4, <1>5, <1>6

LEMMA EndPageKept ==
  ASSUME TypeInv, KeptInv, NEW p \in Proc, EndPage(p)
  PROVE  KeptInv'
<1>1. /\ proc[p] \in Poll
      /\ UNCHANGED <<next, inbox, history, acked, pendingAck>>
  BY EndPageBecomes DEF relay
<1>2. CASE Become(p, Acks)
  <2>1. Acks \in Process /\ Acks.ids = pendingAck /\ Acks.sent = {}
    BY AcksTyped DEF Acks, TypeInv, Process
  <2>2. \A e \in acked' \cup pendingAck' : Kept(e)  BY <1>1 DEF KeptInv, AcksAreKept
  <2>3. QED  BY <1>1, <1>2, <2>1, <2>2, KeptFrame
<1>3. CASE ~Become(p, Acks)
  <2>1. PICK w \in {Idle, Importing} \cup Poll : Become(p, w)
    BY <1>3, EndPageBecomes, OnwardTyped
  <2>2. QED  BY <1>1, <2>1, QuietKept
<1>4. QED  BY <1>2, <1>3

LEMMA KeptInitially == Init => KeptInv
<1> SUFFICES ASSUME Init PROVE KeptInv  OBVIOUS
<1>1. HistoryFollowsInbox  BY DEF Init, HistoryFollowsInbox
<1>2. AcksAreKept  BY NoAckInIdleOrPoll DEF Init, AcksAreKept
<1>3. QED  BY <1>1, <1>2 DEF KeptInv

LEMMA KeptStep ==
  ASSUME TypeInv, KeptInv, [Next]_vars
  PROVE  KeptInv'
<1>1. CASE UNCHANGED vars
  BY <1>1 DEF vars, KeptInv, HistoryFollowsInbox, AcksAreKept, Kept, Acking
<1>2. ASSUME NEW e \in Envelope, Send(e) \/ Expire(e) PROVE KeptInv'
  BY <1>2 DEF Send, Expire, store, KeptInv, HistoryFollowsInbox, AcksAreKept, Kept, Acking
<1>3. ASSUME NEW p \in Proc, StartPoll(p) PROVE KeptInv'
  <2> DEFINE w == [pc |-> "page", rewalk |-> rewalk, cursor |-> rewalk,
                   readThrough |-> Absent, pages |-> 0, received |-> FALSE,
                   rejected |-> FALSE, batch |-> {}, next |-> Absent]
  <2>1. w \in Poll /\ Become(p, w) /\ UNCHANGED <<relay, store, acked>>
    BY <1>3, StartTyped DEF StartPoll, TypeInv
  <2> HIDE DEF w
  <2>2. QED  BY <2>1, QuietKept DEF relay, store
<1>4. ASSUME NEW p \in Proc, Page(p) PROVE KeptInv'
  <2>1. PICK n \in 1..PageLimit : Become(p, Served(p, n))  BY <1>4 DEF Page, Served, From
  <2>2. Served(p, n) \in Poll  BY <1>4, ServedTyped DEF Page
  <2>3. QED  BY <1>4, <2>1, <2>2, QuietKept DEF Page, store
<1>5. ASSUME NEW p \in Proc, AckDone(p) \/ RequestMailboxRewalk(p) \/ PollEnds(p) \/ PageAnswerLost(p)
                             \/ ImportEnds(p)
      PROVE  KeptInv'
  <2>1. Become(p, Idle) /\ UNCHANGED <<next, inbox, history, acked, pendingAck>>
    BY <1>5 DEF AckDone, RequestMailboxRewalk, PollEnds, PageAnswerLost, ImportEnds, Ends, store, relay
  <2>2. QED  BY <2>1, QuietKept
<1>6. ASSUME NEW p \in Proc, NEW s \in Sender, ImportContact(p, s) PROVE KeptInv'
  <2>1. Become(p, Importing) /\ UNCHANGED <<next, inbox, history, acked, pendingAck>>
    BY <1>6 DEF ImportContact, relay
  <2>2. QED  BY <2>1, QuietKept
<1>7. QED
  BY <1>1, <1>2, <1>3, <1>4, <1>5, <1>6, JudgeKept, AckKept, EndPageKept DEF Next, PollStep

\* A message enters the history at most once, however often its envelope is
\* offered, accepted, acknowledged and sent again (acceptOne).
THEOREM HistoryIsWrittenOnce == Spec => []HistoryOnce
<1>1. KeptInv => HistoryOnce  BY DEF KeptInv, HistoryFollowsInbox, HistoryOnce
<1>2. QED  BY <1>1, InboundTyped, KeptInitially, KeptStep, PTL DEF Spec

\* What an ack deletes from the relay was received with that body, whichever
\* commands overlap or end early (acceptOne before ackPending).
THEOREM WhatIsAckedIsKept == Spec => []AckedIsKept
<1>1. KeptInv => AckedIsKept  BY DEF KeptInv, AcksAreKept, Kept, AckedIsKept
<1>2. QED  BY <1>1, InboundTyped, KeptInitially, KeptStep, PTL DEF Spec

-----------------------------------------------------------------------------
(* The read mark and what has been judged.                                 *)

\* Everything up to a token has been judged.
JudgedTo(t) == t # Absent => \A e \in Envelope : position[e] \in 1..t => position[e] \in judged

\* A walk reports, goes on from and re-walks from judged positions only, and what
\* is not judged up to its continuation is in the page at hand.
WalkJudged(w) ==
    /\ JudgedTo(w.rewalk) /\ JudgedTo(w.cursor) /\ JudgedTo(w.readThrough)
    /\ w.pc = "judge" /\ w.next # Absent =>
          \A e \in Envelope : position[e] \in 1..w.next =>
              position[e] \in judged \/ \E x \in w.batch : x[1] = position[e]

JudgedInv ==
    /\ JudgedTo(mark)
    /\ JudgedTo(rewalk)
    /\ \A p \in Proc : proc[p] \in Poll => WalkJudged(proc[p])

LEMMA NoPollInIdleOrAcks ==
  Idle \notin Poll /\ Importing \notin Poll /\ \A w \in Acking : w \notin Poll
<1>1. Idle.pc = "idle" /\ Importing.pc = "request"  BY DEF Idle, Importing
<1>2. \A w \in Poll : w.pc \in {"page", "judge"}  BY DEF Poll
<1>3. \A w \in Acking : w.pc \in {"ack", "settle"}  BY DEF Acking
<1>4. QED  BY <1>1, <1>2, <1>3

\* Envelopes only leave the mailbox, and positions are only added to the judged.
LEMMA JudgedGrows ==
  ASSUME judged \subseteq judged', \A e \in Envelope : position'[e] \in {0, position[e]}
  PROVE  /\ \A t : JudgedTo(t) => JudgedTo(t)'
         /\ \A w : WalkJudged(w) => WalkJudged(w)'
<1>1. \A t : \A e \in Envelope : position'[e] \in 1..t => position'[e] = position[e]  OBVIOUS
<1>2. \A t : JudgedTo(t) => JudgedTo(t)'  BY <1>1 DEF JudgedTo
<1>3. QED  BY <1>1, <1>2 DEF WalkJudged

\* A step of one process.
LEMMA JudgedFrame ==
  ASSUME TypeInv, JudgedInv, UNCHANGED next, judged \subseteq judged',
         \A e \in Envelope : position'[e] \in {0, position[e]},
         NEW p \in Proc, NEW w \in Process, Become(p, w),
         JudgedTo(mark)', JudgedTo(rewalk)',
         w \in Poll => WalkJudged(w)'
  PROVE  JudgedInv'
<1>1. proc'[p] = w /\ \A q \in Proc \ {p} : proc'[q] = proc[q]  BY BecomeTyped DEF TypeInv
<1>2. Poll' = Poll  BY DEF Poll, Token
<1>3. ASSUME NEW q \in Proc, proc'[q] \in Poll PROVE WalkJudged(proc[q])'
  <2>1. CASE q = p  BY <1>1, <1>3, <2>1 DEF WalkJudged, JudgedTo
  <2>2. CASE q # p
    <3>1. PICK v : v = proc[q]  OBVIOUS
    <3>2. proc'[q] = v /\ WalkJudged(v)  BY <1>1, <1>3, <2>2, <3>1 DEF JudgedInv
    <3>3. \A u : WalkJudged(u) => WalkJudged(u)'  BY JudgedGrows
    <3>4. QED  BY <3>2, <3>3 DEF WalkJudged, JudgedTo
  <2>3. QED  BY <2>1, <2>2
<1>4. QED  BY <1>2, <1>3 DEF JudgedInv

\* A step of one process after which nothing but its own walk is new.
LEMMA QuietJudged ==
  ASSUME TypeInv, JudgedInv, UNCHANGED <<next, judged>>,
         \A e \in Envelope : position'[e] \in {0, position[e]},
         NEW p \in Proc, NEW w \in Process, Become(p, w),
         JudgedTo(mark'), JudgedTo(rewalk'),
         w \in Poll => WalkJudged(w)
  PROVE  JudgedInv'
<1>1. /\ \A t : JudgedTo(t) => JudgedTo(t)'
      /\ \A v : WalkJudged(v) => WalkJudged(v)'
  BY JudgedGrows
<1>2. JudgedTo(mark)' /\ JudgedTo(rewalk)'
  <2>1. \A m : m = mark' /\ JudgedTo(m) => JudgedTo(mark)'  BY <1>1 DEF JudgedTo
  <2>2. \A m : m = rewalk' /\ JudgedTo(m) => JudgedTo(rewalk)'  BY <1>1 DEF JudgedTo
  <2>3. QED  BY <2>1, <2>2
<1>3. w \in Poll => WalkJudged(w)'  BY <1>1
<1>4. QED  BY <1>2, <1>3, JudgedFrame

LEMMA SendJudged ==
  ASSUME TypeInv, JudgedInv, NEW e \in Envelope, Send(e)
  PROVE  JudgedInv'
<1>1. /\ position' = [position EXCEPT ![e] = next] /\ position[e] = 0
      /\ UNCHANGED <<mark, rewalk, proc, judged>>
  BY DEF Send, store
<1>2. next \in Nat /\ Absent \notin Nat  BY InboundAssumption DEF TypeInv, TypeOK
<1>3. \A t \in Token : t # Absent =>
          \A f \in Envelope : position'[f] \in 1..t => position'[f] = position[f] /\ position[f] \in 1..t
  BY <1>1, <1>2 DEF TypeInv, TypeOK, Token
<1>4. \A t \in Token : JudgedTo(t) => JudgedTo(t)'  BY <1>1, <1>3 DEF JudgedTo
<1>5. \A w \in Poll : WalkJudged(w) => WalkJudged(w)'
  <2> SUFFICES ASSUME NEW w \in Poll, WalkJudged(w) PROVE WalkJudged(w)'  OBVIOUS
  <2>1. JudgedTo(w.rewalk)' /\ JudgedTo(w.cursor)' /\ JudgedTo(w.readThrough)'
    BY <1>4, PollFields DEF WalkJudged
  <2>2. w.next \in Token  BY PollFields
  <2>3. QED  BY <1>1, <1>3, <2>1, <2>2 DEF WalkJudged
<1>6. \A q \in Proc : proc[q] \in Poll' => proc[q] \in Poll
  BY NoPollInIdleOrAcks, ProcessAt DEF TypeInv, TypeOK, Process, Poll
<1>7. mark \in Token /\ rewalk \in Token  BY DEF TypeInv, TypeOK, Token
<1>8. JudgedTo(mark)' /\ JudgedTo(rewalk)'
  BY <1>1, <1>3, <1>7 DEF JudgedInv, JudgedTo
<1>9. ASSUME NEW q \in Proc, proc'[q] \in Poll' PROVE WalkJudged(proc[q])'
  <2>1. PICK v : v = proc[q]  OBVIOUS
  <2>2. v \in Poll /\ WalkJudged(v) /\ proc'[q] = v  BY <1>1, <1>6, <1>9, <2>1 DEF JudgedInv
  <2>3. WalkJudged(v)'  BY <1>5, <2>2
  <2>4. QED  BY <2>2, <2>3 DEF WalkJudged, JudgedTo
<1>10. QED  BY <1>8, <1>9 DEF JudgedInv

LEMMA ExpireJudged ==
  ASSUME TypeInv, JudgedInv, NEW e \in Envelope, Expire(e)
  PROVE  JudgedInv'
<1>1. UNCHANGED <<next, mark, rewalk, proc, judged>>  BY DEF Expire, store
<1>2. \A f \in Envelope : position'[f] \in {0, position[f]}  BY DEF Expire, TypeInv, TypeOK
<1>3. /\ \A t : JudgedTo(t) => JudgedTo(t)'
      /\ \A w : WalkJudged(w) => WalkJudged(w)'
  BY <1>1, <1>2, JudgedGrows
<1>4. JudgedTo(mark)' /\ JudgedTo(rewalk)'  BY <1>1, <1>3 DEF JudgedInv, JudgedTo
<1>5. ASSUME NEW q \in Proc, proc'[q] \in Poll' PROVE WalkJudged(proc[q])'
  <2>1. PICK v : v = proc[q]  OBVIOUS
  <2>2. WalkJudged(v) /\ proc'[q] = v  BY <1>1, <1>5, <2>1 DEF JudgedInv, Poll, Token
  <2>3. QED  BY <1>3, <2>2 DEF WalkJudged, JudgedTo
<1>6. QED  BY <1>4, <1>5 DEF JudgedInv

LEMMA PageJudged ==
  ASSUME TypeInv, JudgedInv, NEW p \in Proc, Page(p)
  PROVE  JudgedInv'
<1>1. PICK n \in 1..PageLimit : Become(p, Served(p, n))  BY DEF Page, Served, From
<1>2. /\ proc[p].pc = "page" /\ mark' = Advanced(proc[p].readThrough)
      /\ UNCHANGED <<position, next, expired, store, imports, faults, judged, acked>>
  BY DEF Page
<1>3. proc[p] \in Poll /\ Served(p, n) \in Poll /\ From(p) \in 0..(next - 1)
  BY <1>2, ProcessAt, ServedTyped DEF TypeInv
<1>4. WalkJudged(proc[p]) /\ JudgedTo(mark)  BY <1>3 DEF JudgedInv
<1>5. JudgedTo(mark')
  BY <1>2, <1>3, <1>4, PollFields, AdvancedTyped DEF WalkJudged, TypeInv
<1>6. JudgedTo(From(p)) /\ From(p) # Absent
  BY <1>3, <1>4, <1>5, InboundAssumption DEF WalkJudged, From
<1>7. /\ Served(p, n).rewalk = proc[p].rewalk /\ Served(p, n).cursor = proc[p].cursor
      /\ Served(p, n).readThrough = proc[p].readThrough
      /\ Served(p, n).batch = {<<position[e], e>> : e \in FirstAfter(From(p), n)}
      /\ Served(p, n).next = Continuation(From(p), n)
  BY <1>3 DEF Served, Poll
<1>8. ASSUME Continuation(From(p), n) # Absent, NEW e \in Envelope,
             position[e] \in 1..Continuation(From(p), n)
      PROVE  position[e] \in judged \/ \E x \in Served(p, n).batch : x[1] = position[e]
  <2>1. FirstAfter(From(p), n) # After(From(p))  BY <1>8 DEF Continuation
  <2>2. From(p) \in Nat /\ n \in Nat \ {0} /\ position[e] \in Nat
    BY <1>3, InboundAssumption DEF TypeInv, TypeOK
  <2>3. /\ Continuation(From(p), n) \in Nat
        /\ \A f \in After(From(p)) :
              f \in FirstAfter(From(p), n) <=> position[f] <= Continuation(From(p), n)
    BY <2>1, <2>2, PageCut DEF TypeInv
  <2>4. CASE position[e] > From(p)
    <3>1. e \in FirstAfter(From(p), n)  BY <1>8, <2>2, <2>3, <2>4 DEF After
    <3>2. <<position[e], e>> \in Served(p, n).batch  BY <1>7, <3>1
    <3>3. QED  BY <3>2
  <2>5. CASE position[e] <= From(p)
    <3>1. position[e] \in 1..From(p)  BY <1>8, <2>2, <2>3, <2>5
    <3>2. QED  BY <1>6, <3>1 DEF JudgedTo
  <2>6. QED  BY <2>2, <2>4, <2>5
<1>9. WalkJudged(Served(p, n))  BY <1>4, <1>7, <1>8 DEF WalkJudged
<1>10. \A e \in Envelope : position'[e] \in {0, position[e]}  BY <1>2
<1>11. JudgedTo(rewalk')  BY <1>2 DEF JudgedInv, store
<1>12. QED  BY <1>1, <1>2, <1>3, <1>5, <1>9, <1>10, <1>11, QuietJudged DEF Process

LEMMA JudgeJudged ==
  ASSUME TypeInv, JudgedInv, NEW p \in Proc, Judge(p)
  PROVE  JudgedInv'
<1>1. PICK x \in proc[p].batch : Become(p, Rest(proc[p], x)) /\ judged' = judged \cup {x[1]}
  BY DEF Judge, Rest
<1>2. proc[p].pc = "judge" /\ UNCHANGED <<position, next, mark, rewalk>>  BY DEF Judge, relay
<1>3. proc[p] \in Poll /\ WalkJudged(proc[p])  BY <1>2, ProcessAt DEF TypeInv, JudgedInv
<1>4. /\ Rest(proc[p], x) \in Poll /\ Rest(proc[p], x).batch = proc[p].batch \ {x}
      /\ Rest(proc[p], x).rewalk = proc[p].rewalk /\ Rest(proc[p], x).cursor = proc[p].cursor
      /\ Rest(proc[p], x).readThrough = proc[p].readThrough /\ Rest(proc[p], x).next = proc[p].next
  BY <1>3, RestTyped
<1>5. \A e \in Envelope : position'[e] \in {0, position[e]}  BY <1>2
<1>6. /\ \A t : JudgedTo(t) => JudgedTo(t)'
      /\ JudgedTo(mark)' /\ JudgedTo(rewalk)'
  BY <1>1, <1>2 DEF JudgedInv, JudgedTo
<1>7. PICK w, v : w = Rest(proc[p], x) /\ v = proc[p]  OBVIOUS
<1>8. WalkJudged(w)'
  <2>1. /\ w.batch = v.batch \ {x} /\ w.rewalk = v.rewalk /\ w.cursor = v.cursor
        /\ w.readThrough = v.readThrough /\ w.next = v.next /\ WalkJudged(v) /\ v.pc = "judge"
    BY <1>2, <1>3, <1>4, <1>7
  <2>2. QED  BY <1>1, <1>2, <2>1 DEF WalkJudged, JudgedTo
<1>9. w \in Process /\ Become(p, w)  BY <1>1, <1>4, <1>7 DEF Process
<1>10. judged \subseteq judged' /\ UNCHANGED next  BY <1>1, <1>2
<1>11. QED  BY <1>5, <1>6, <1>8, <1>9, <1>10, JudgedFrame

LEMMA EndPageJudged ==
  ASSUME TypeInv, JudgedInv, NEW p \in Proc, EndPage(p)
  PROVE  JudgedInv'
<1>1. /\ proc[p] \in Poll /\ proc[p].pc = "judge" /\ proc[p].batch = {}
      /\ rewalk' = RewalkAfter(proc[p]) /\ UNCHANGED <<position, next, mark, judged>>
  BY EndPageBecomes DEF relay
<1>2. WalkJudged(proc[p])  BY <1>1 DEF JudgedInv
<1>3. JudgedTo(proc[p].next)  BY <1>1, <1>2 DEF WalkJudged, JudgedTo
<1>4. JudgedTo(rewalk') /\ JudgedTo(mark')  BY <1>1, <1>3 DEF JudgedInv, RewalkAfter
<1>5. \A e \in Envelope : position'[e] \in {0, position[e]}  BY <1>1
<1>6. PICK w \in Process : Become(p, w) /\ (w \in Poll => WalkJudged(w))
  <2>1. CASE /\ proc[p].pages + 1 # MaxPages
             /\ Become(p, Onward(proc[p]))
    <3>1. /\ Onward(proc[p]) \in Poll /\ Onward(proc[p]).pc = "page"
          /\ Onward(proc[p]).cursor = proc[p].next /\ Onward(proc[p]).readThrough = proc[p].next
          /\ Onward(proc[p]).rewalk \in {Absent, proc[p].next}
      BY <1>1, <2>1, OnwardTyped
    <3>2. JudgedTo(Absent)  BY DEF JudgedTo
    <3>3. WalkJudged(Onward(proc[p]))  BY <1>3, <3>1, <3>2 DEF WalkJudged
    <3>4. QED  BY <2>1, <3>1, <3>3 DEF Process
  <2>2. CASE Become(p, Idle)  BY <2>2, NoPollInIdleOrAcks DEF Process
  <2>3. CASE Become(p, Acks)  BY <2>3, AcksTyped, NoPollInIdleOrAcks DEF Process, TypeInv
  <2>4. QED  BY <2>1, <2>2, <2>3, EndPageBecomes
<1>7. QED  BY <1>1, <1>4, <1>5, <1>6, QuietJudged

LEMMA JudgedStep ==
  ASSUME TypeInv, JudgedInv, [Next]_vars
  PROVE  JudgedInv'
<1>1. CASE UNCHANGED vars
  BY <1>1 DEF vars, JudgedInv, JudgedTo, WalkJudged, Poll, Token
<1>2. ASSUME NEW p \in Proc, StartPoll(p) PROVE JudgedInv'
  <2> DEFINE w == [pc |-> "page", rewalk |-> rewalk, cursor |-> rewalk,
                   readThrough |-> Absent, pages |-> 0, received |-> FALSE,
                   rejected |-> FALSE, batch |-> {}, next |-> Absent]
  <2>1. w \in Poll /\ Become(p, w) /\ UNCHANGED <<position, next, mark, rewalk, judged>>
    BY <1>2, StartTyped DEF StartPoll, TypeInv, relay, store
  <2>2. w.pc = "page" /\ w.rewalk = rewalk /\ w.cursor = rewalk /\ w.readThrough = Absent  OBVIOUS
  <2> HIDE DEF w
  <2>3. WalkJudged(w)  BY <2>2 DEF WalkJudged, JudgedInv, JudgedTo
  <2>4. \A e \in Envelope : position'[e] \in {0, position[e]}  BY <2>1
  <2>5. JudgedTo(mark') /\ JudgedTo(rewalk')  BY <2>1 DEF JudgedInv
  <2>6. QED  BY <2>1, <2>3, <2>4, <2>5, QuietJudged DEF Process
<1>3. ASSUME NEW p \in Proc, NEW w \in {Idle, Importing} \cup Acking, Become(p, w),
             UNCHANGED <<next, judged>>, JudgedTo(mark'), rewalk' \in {rewalk, 0},
             \A e \in Envelope : position'[e] \in {0, position[e]}
      PROVE  JudgedInv'
  <2>1. w \in Process /\ w \notin Poll  BY <1>3, NoPollInIdleOrAcks DEF Process
  <2>2. JudgedTo(rewalk')  BY <1>3 DEF JudgedInv, JudgedTo
  <2>3. QED  BY <1>3, <2>1, <2>2, QuietJudged
<1>4. JudgedTo(mark)  BY DEF JudgedInv
<1>5. ASSUME NEW p \in Proc, AckRequest(p) PROVE JudgedInv'
  <2>1. PICK c \in SUBSET proc[p].ids : Deleted(c) /\ Become(p, Sent(p, c))
    BY <1>5 DEF AckRequest, AckChunks, Sent
  <2>2. proc[p] \in Acking  BY <1>5, ProcessAt DEF TypeInv, AckRequest
  <2>3. c \subseteq Envelope /\ Sent(p, c) \in Acking  BY <2>2 DEF Acking, Sent
  <2>4. \A e \in Envelope : position'[e] \in {0, position[e]}  BY <2>1, <2>3, DeletedTyped
  <2>5. UNCHANGED <<next, judged, mark, rewalk>>  BY <1>5 DEF AckRequest, store
  <2>6. QED  BY <1>3, <1>4, <2>1, <2>3, <2>4, <2>5
<1>6. ASSUME NEW p \in Proc, AckSettle(p) PROVE JudgedInv'
  <2>1. proc[p] \in Acking  BY <1>6, ProcessAt DEF TypeInv, AckSettle
  <2>2. Settled(p) \in Acking  BY <2>1 DEF Acking, Settled
  <2>3. Become(p, Settled(p)) /\ UNCHANGED <<position, next, judged, mark, rewalk>>
    BY <1>6 DEF AckSettle, Settled, relay
  <2>4. QED  BY <1>3, <1>4, <2>2, <2>3
<1>7. ASSUME NEW p \in Proc, AckDone(p) \/ RequestMailboxRewalk(p) \/ PollEnds(p) \/ ImportEnds(p)
      PROVE  JudgedInv'
  <2>1. Become(p, Idle) /\ UNCHANGED <<position, next, judged, mark>> /\ rewalk' \in {rewalk, 0}
    BY <1>7 DEF AckDone, RequestMailboxRewalk, PollEnds, ImportEnds, Ends, relay, store
  <2>2. QED  BY <1>3, <1>4, <2>1
<1>8. ASSUME NEW p \in Proc, PageAnswerLost(p) PROVE JudgedInv'
  <2>1. proc[p] \in Poll /\ mark' = Advanced(proc[p].readThrough)
    BY <1>8, ProcessAt DEF TypeInv, PageAnswerLost
  <2>2. JudgedTo(mark')
    BY <1>4, <2>1, PollFields, AdvancedTyped DEF JudgedInv, WalkJudged, TypeInv
  <2>3. Become(p, Idle) /\ UNCHANGED <<position, next, judged, rewalk>>
    BY <1>8 DEF PageAnswerLost, Ends, store
  <2>4. QED  BY <1>3, <2>2, <2>3
<1>9. ASSUME NEW p \in Proc, AckAnswerLost(p) PROVE JudgedInv'
  <2>1. PICK d \in SUBSET proc[p].ids : Deleted(d)  BY <1>9 DEF AckAnswerLost, AckChunks
  <2>2. proc[p] \in Acking  BY <1>9, ProcessAt DEF TypeInv, AckAnswerLost
  <2>3. d \subseteq Envelope  BY <2>2 DEF Acking
  <2>4. \A e \in Envelope : position'[e] \in {0, position[e]}  BY <2>1, <2>3, DeletedTyped
  <2>5. Become(p, Idle) /\ UNCHANGED <<next, judged, mark, rewalk>>
    BY <1>9 DEF AckAnswerLost, Ends, store
  <2>6. QED  BY <1>3, <1>4, <2>4, <2>5
<1>10. ASSUME NEW p \in Proc, NEW s \in Sender, ImportContact(p, s) PROVE JudgedInv'
  <2>1. Become(p, Importing) /\ UNCHANGED <<position, next, judged, mark, rewalk>>
    BY <1>10 DEF ImportContact, relay
  <2>2. QED  BY <1>3, <1>4, <2>1
<1>11. QED
  BY <1>1, <1>2, <1>5, <1>6, <1>7, <1>8, <1>9, <1>10, SendJudged, ExpireJudged, PageJudged,
     JudgeJudged, EndPageJudged DEF Next, PollStep

\* The read mark only ever passes envelopes a walk has judged, whatever requests
\* fail and whichever walks overlap (poll).
THEOREM MarkPassesOnlyJudged == Spec => []MarkOnlyOverJudged
<1>1. Init => JudgedInv
  <2> SUFFICES ASSUME Init PROVE JudgedInv  OBVIOUS
  <2>1. JudgedTo(mark) /\ JudgedTo(rewalk)  BY DEF Init, JudgedTo
  <2>2. QED  BY <2>1, NoPollInIdleOrAcks DEF Init, JudgedInv
<1>2. TypeInv /\ JudgedInv => MarkOnlyOverJudged
  BY InboundAssumption DEF TypeInv, TypeOK, JudgedInv, JudgedTo, MarkOnlyOverJudged
<1>3. QED  BY <1>1, <1>2, InboundTyped, JudgedStep, PTL DEF Spec

-----------------------------------------------------------------------------
(* A trusted envelope is not left behind.  One command at a time, and an    *)
(* import that has trusted a sender goes on to ask for its re-walk.         *)

OneCommand == (\E p : Proc = {p}) /\ "import" \notin EndsIn

\* After the place the next walk starts from.
Ahead(e) == position[e] > IF rewalk = Absent THEN mark ELSE rewalk

\* A walk carries the re-walk that is pending, reports nothing a waiting envelope
\* is not ahead of, and what waits is on the page at hand or after it.
WalkAhead(w) ==
    /\ w.rewalk = rewalk
    /\ w.pc = "page" =>
          /\ rewalk # Absent => w.cursor = rewalk
          /\ rewalk = Absent \/ w.readThrough # Absent => w.cursor = w.readThrough
          /\ w.readThrough # Absent =>
                \A e \in Envelope : Waiting(e) => position[e] > w.readThrough
    /\ w.pc = "judge" =>
          \A e \in Envelope : Waiting(e) =>
              \/ \E x \in w.batch : x[2] = e
              \/ position[e] > IF w.next = Absent THEN mark ELSE w.next

AheadInv ==
    /\ \A e \in expired : position[e] = 0
    /\ (\E p \in Proc : proc[p] = Importing) \/ \A e \in Envelope : Waiting(e) => Ahead(e)
    /\ \A p \in Proc : proc[p] \in Poll => WalkAhead(proc[p])

LEMMA NoImportInPollOrAcks ==
  Idle # Importing /\ Importing \notin Poll /\ Importing \notin Acking
<1>1. Idle.pc = "idle" /\ Importing.pc = "request"  BY DEF Idle, Importing
<1>2. QED  BY <1>1, NoPollInIdleOrAcks, NoAckInIdleOrPoll

\* The step of the one process.
LEMMA OnlyProcess ==
  ASSUME OneCommand, TypeInv, UNCHANGED next, NEW p \in Proc, NEW w \in Process, Become(p, w)
  PROVE  proc'[p] = w /\ \A q \in Proc : q = p
BY BecomeTyped DEF OneCommand, TypeInv

\* Nothing new waits.
LEMMA WaitingShrinks ==
  ASSUME UNCHANGED contacts, \A e \in Envelope : position'[e] \in {0, position[e]},
         \A e \in Envelope : Received(e) => Received(e)'
  PROVE  \A e \in Envelope : Waiting(e)' => Waiting(e) /\ position'[e] = position[e]
BY DEF Waiting

\* A step of the one process that leaves the contacts alone and does not start or
\* finish an import.
LEMMA AheadFrame ==
  ASSUME OneCommand, TypeInv, AheadInv, UNCHANGED <<next, expired, contacts>>,
         \A e \in Envelope : position'[e] \in {0, position[e]},
         \A e \in Envelope : Received(e) => Received(e)',
         NEW p \in Proc, NEW w \in Process, Become(p, w),
         \A e \in Envelope : Waiting(e) =>
             position[e] > IF rewalk' = Absent THEN mark' ELSE rewalk',
         w \in Poll => WalkAhead(w)'
  PROVE  AheadInv'
<1>1. proc'[p] = w /\ \A q \in Proc : q = p  BY OnlyProcess
<1>2. \A e \in Envelope : Waiting(e)' => Waiting(e) /\ position'[e] = position[e]
  BY WaitingShrinks
<1>3. \A e \in Envelope : Waiting(e)' => Ahead(e)'  BY <1>2 DEF Ahead
<1>4. Poll' = Poll  BY DEF Poll, Token
<1>5. \A e \in expired' : position'[e] = 0  BY DEF AheadInv, TypeInv, TypeOK
<1>6. ASSUME NEW q \in Proc, proc'[q] \in Poll' PROVE WalkAhead(proc[q])'
  BY <1>1, <1>4, <1>6 DEF WalkAhead
<1>7. QED  BY <1>3, <1>5, <1>6 DEF AheadInv

LEMMA SendAhead ==
  ASSUME TypeInv, AheadInv, NEW e \in Envelope, Send(e)
  PROVE  AheadInv'
<1>1. /\ position' = [position EXCEPT ![e] = next] /\ position[e] = 0 /\ e \notin expired
      /\ UNCHANGED <<mark, expired, contacts, rewalk, inbox, proc>>
  BY DEF Send, store
<1>2. next \in Nat /\ Absent \notin Nat  BY InboundAssumption DEF TypeInv, TypeOK
<1>3. \A f \in Envelope : Waiting(f)' => (f = e \/ Waiting(f))  BY <1>1 DEF Waiting, Received, TypeInv, TypeOK
<1>4. \A t \in Token : t # Absent => position'[e] > t
  BY <1>1, <1>2 DEF TypeInv, TypeOK, Token
<1>5. \A f \in Envelope : f # e => position'[f] = position[f]  BY <1>1 DEF TypeInv, TypeOK
<1>6. mark \in Token /\ mark # Absent /\ rewalk \in Token  BY <1>2 DEF TypeInv, TypeOK, Token
<1>7. \A f \in expired' : position'[f] = 0  BY <1>1, <1>5 DEF AheadInv, TypeInv, TypeOK
<1>8. (\E p \in Proc : proc[p] = Importing)' \/ \A f \in Envelope : Waiting(f)' => Ahead(f)'
  <2>1. Importing' = Importing  BY DEF Importing
  <2>2. CASE \E p \in Proc : proc[p] = Importing  BY <1>1, <2>1, <2>2
  <2>3. CASE \A f \in Envelope : Waiting(f) => Ahead(f)
    BY <1>1, <1>3, <1>4, <1>5, <1>6, <2>3 DEF Ahead
  <2>4. QED  BY <2>2, <2>3 DEF AheadInv
<1>9. ASSUME NEW q \in Proc, proc'[q] \in Poll' PROVE WalkAhead(proc[q])'
  <2>1. PICK w : w = proc[q]  OBVIOUS
  <2>2. w \in Poll
    BY <1>1, <1>9, <2>1, NoPollInIdleOrAcks, ProcessAt DEF TypeInv, TypeOK, Process, Poll
  <2>3. WalkAhead(w) /\ proc'[q] = w  BY <1>1, <2>1, <2>2 DEF AheadInv
  <2>4. w.readThrough \in Token /\ w.next \in Token  BY <2>2, PollFields
  <2>5. WalkAhead(w)'
    <3>1. w.rewalk = rewalk'  BY <1>1, <2>3 DEF WalkAhead
    <3>2. w.pc = "page" =>
            /\ rewalk' # Absent => w.cursor = rewalk'
            /\ rewalk' = Absent \/ w.readThrough # Absent => w.cursor = w.readThrough
      BY <1>1, <2>3 DEF WalkAhead
    <3>3. w.pc = "page" /\ w.readThrough # Absent =>
              \A f \in Envelope : Waiting(f)' => position'[f] > w.readThrough
      BY <1>3, <1>4, <1>5, <2>3, <2>4 DEF WalkAhead
    <3>4. w.pc = "judge" =>
              \A f \in Envelope : Waiting(f)' =>
                  \/ \E x \in w.batch : x[2] = f
                  \/ position'[f] > IF w.next = Absent THEN mark' ELSE w.next
      BY <1>1, <1>3, <1>4, <1>5, <1>6, <2>3, <2>4 DEF WalkAhead
    <3>5. QED  BY <3>1, <3>2, <3>3, <3>4 DEF WalkAhead
  <2>6. QED  BY <2>3, <2>5 DEF WalkAhead
<1>10. QED  BY <1>7, <1>8, <1>9 DEF AheadInv

LEMMA ExpireAhead ==
  ASSUME TypeInv, AheadInv, NEW e \in Envelope, Expire(e)
  PROVE  AheadInv'
<1>1. /\ position' = [position EXCEPT ![e] = 0] /\ expired' = expired \cup {e}
      /\ UNCHANGED <<next, mark, contacts, rewalk, inbox, proc>>
  BY DEF Expire, store
<1>2. \A f \in Envelope : position'[f] \in {0, position[f]}  BY <1>1 DEF TypeInv, TypeOK
<1>3. \A f \in Envelope : Waiting(f)' => Waiting(f) /\ position'[f] = position[f]
  BY <1>1, <1>2, WaitingShrinks DEF Received
<1>4. \A f \in expired' : position'[f] = 0  BY <1>1 DEF AheadInv, TypeInv, TypeOK
<1>5. (\E p \in Proc : proc[p] = Importing)' \/ \A f \in Envelope : Waiting(f)' => Ahead(f)'
  BY <1>1, <1>3 DEF AheadInv, Ahead, Importing
<1>6. ASSUME NEW q \in Proc, proc'[q] \in Poll' PROVE WalkAhead(proc[q])'
  <2>1. PICK w : w = proc[q]  OBVIOUS
  <2>2. WalkAhead(w) /\ proc'[q] = w  BY <1>1, <1>6, <2>1 DEF AheadInv, Poll, Token
  <2>3. QED  BY <1>1, <1>3, <2>2 DEF WalkAhead
<1>7. QED  BY <1>4, <1>5, <1>6 DEF AheadInv

\* A walk is never under way beside an import.
LEMMA WalksAlone ==
  ASSUME OneCommand, TypeInv, AheadInv, NEW p \in Proc, proc[p] # Importing
  PROVE  \A e \in Envelope : Waiting(e) => Ahead(e)
BY DEF OneCommand, AheadInv

\* What the mark becomes when a walk's read position is reported.
LEMMA ReportAhead ==
  ASSUME OneCommand, TypeInv, AheadInv, NEW p \in Proc, proc[p].pc = "page",
         mark' = Advanced(proc[p].readThrough), rewalk' = rewalk,
         NEW e \in Envelope, Waiting(e)
  PROVE  /\ position[e] > IF rewalk' = Absent THEN mark' ELSE rewalk'
         /\ position[e] > From(p)
<1>1. proc[p] \in Poll  BY ProcessAt DEF TypeInv
<1>2. WalkAhead(proc[p]) /\ Ahead(e)  BY <1>1, WalksAlone, NoImportInPollOrAcks DEF AheadInv
<1>3. rewalk' = Absent => position[e] > mark'
  BY <1>2, InboundAssumption DEF WalkAhead, Ahead, Advanced
<1>4. rewalk' # Absent => position[e] > rewalk'  BY <1>2 DEF Ahead
<1>5. position[e] > From(p)  BY <1>2, <1>3 DEF From, WalkAhead, Ahead
<1>6. QED  BY <1>3, <1>4, <1>5

LEMMA PageAhead ==
  ASSUME OneCommand, TypeInv, AheadInv, NEW p \in Proc, Page(p)
  PROVE  AheadInv'
<1>1. PICK n \in 1..PageLimit : Become(p, Served(p, n))  BY DEF Page, Served, From
<1>2. /\ proc[p].pc = "page" /\ mark' = Advanced(proc[p].readThrough)
      /\ UNCHANGED <<position, next, expired, contacts, rewalk, inbox>>
  BY DEF Page, store
<1>3. proc[p] \in Poll /\ Served(p, n) \in Poll /\ From(p) \in 0..(next - 1)
  BY <1>2, ProcessAt, ServedTyped DEF TypeInv
<1>4. WalkAhead(proc[p])  BY <1>3 DEF AheadInv
<1>5. PICK w : w = Served(p, n)  OBVIOUS
<1>6. /\ w.pc = "judge" /\ w.rewalk = proc[p].rewalk
      /\ w.batch = {<<position[e], e>> : e \in FirstAfter(From(p), n)}
      /\ w.next = Continuation(From(p), n)
  BY <1>3, <1>5 DEF Served, Poll
<1>7. \A e \in Envelope : Waiting(e) =>
        /\ position[e] > IF rewalk' = Absent THEN mark' ELSE rewalk'
        /\ position[e] > From(p)
  BY <1>2, ReportAhead
<1>8. \A e \in Envelope : Received(e)' <=> Received(e)  BY <1>2 DEF Received
<1>9. \A e \in Envelope : Waiting(e)' <=> Waiting(e)  BY <1>2, <1>8 DEF Waiting
<1>10. ASSUME NEW e \in Envelope, Waiting(e)
       PROVE  \/ \E x \in w.batch : x[2] = e
              \/ position[e] > IF w.next = Absent THEN mark' ELSE w.next
  <2>1. e \in After(From(p))  BY <1>7, <1>10 DEF After
  <2>2. CASE e \in FirstAfter(From(p), n)
    <3>1. <<position[e], e>> \in w.batch  BY <1>6, <2>2
    <3>2. QED  BY <3>1
  <2>3. CASE e \notin FirstAfter(From(p), n)
    <3>1. From(p) \in Nat /\ n \in Nat \ {0} /\ position[e] \in Nat
      BY <1>3, InboundAssumption DEF TypeInv, TypeOK
    <3>2. /\ w.next \in Nat
          /\ \A f \in After(From(p)) : f \in FirstAfter(From(p), n) <=> position[f] <= w.next
      BY <1>6, <2>1, <2>3, <3>1, PageCut DEF TypeInv
    <3>3. position[e] > w.next /\ w.next # Absent  BY <2>1, <2>3, <3>1, <3>2, InboundAssumption
    <3>4. QED  BY <3>3
  <2>4. QED  BY <2>2, <2>3
<1>11. WalkAhead(w)'  BY <1>2, <1>4, <1>6, <1>9, <1>10 DEF WalkAhead
<1>12. \A e \in Envelope : position'[e] \in {0, position[e]}  BY <1>2
<1>13. w \in Process /\ Become(p, w)  BY <1>1, <1>3, <1>5 DEF Process
<1>14. QED  BY <1>2, <1>7, <1>8, <1>11, <1>12, <1>13, AheadFrame

\* What is judged while it waits is received.
LEMMA JudgeReceives ==
  ASSUME TypeInv, AheadInv, NEW e \in Envelope,
         IF Acceptable(e) THEN AcceptOne(e) ELSE Reject(e)
  PROVE  /\ Waiting(e) => Received(e)'
         /\ \A f \in Envelope : Received(f) => Received(f)'
<1>1. /\ SlotOf(e) \in Slot /\ e.body # Absent
      /\ \A f \in Envelope : SlotOf(f) \in Slot
  BY InboundAssumption DEF SlotOf, Slot
<1>2. Waiting(e) => Acceptable(e)  BY DEF Waiting, Acceptable, AheadInv
<1>3. CASE Acceptable(e)
  <2>1. inbox' = [inbox EXCEPT ![SlotOf(e)] = e.body]  BY <1>3 DEF AcceptOne
  <2>2. QED  BY <1>1, <2>1 DEF Received, TypeInv, TypeOK
<1>4. CASE ~Acceptable(e)  BY <1>2, <1>4 DEF Reject, Received
<1>5. QED  BY <1>3, <1>4

LEMMA JudgeAhead ==
  ASSUME OneCommand, TypeInv, AheadInv, NEW p \in Proc, Judge(p)
  PROVE  AheadInv'
<1>1. PICK x \in proc[p].batch :
         /\ Become(p, Rest(proc[p], x))
         /\ IF Acceptable(x[2]) THEN AcceptOne(x[2]) ELSE Reject(x[2])
  BY DEF Judge, Rest
<1>2. proc[p].pc = "judge" /\ UNCHANGED <<position, next, mark, expired, contacts, rewalk>>
  BY DEF Judge, relay
<1>3. proc[p] \in Poll /\ WalkAhead(proc[p])  BY <1>2, ProcessAt DEF TypeInv, AheadInv
<1>4. x[2] \in Envelope  BY <1>3, PollFields
<1>5. PICK w : w = Rest(proc[p], x)  OBVIOUS
<1>6. /\ w \in Poll /\ w.batch = proc[p].batch \ {x} /\ w.pc = "judge"
      /\ w.rewalk = proc[p].rewalk /\ w.next = proc[p].next
  BY <1>2, <1>3, <1>5, RestTyped
<1>7. /\ Waiting(x[2]) => Received(x[2])'
      /\ \A f \in Envelope : Received(f) => Received(f)'
  BY <1>1, <1>4, JudgeReceives
<1>8. \A e \in Envelope : position'[e] \in {0, position[e]}  BY <1>2
<1>9. \A e \in Envelope : Waiting(e)' => Waiting(e) /\ e # x[2]
  <2>1. \A e \in Envelope : Waiting(e)' => Waiting(e)  BY <1>2, <1>7, <1>8, WaitingShrinks
  <2>2. ~Waiting(x[2])'
    <3>1. Waiting(x[2])' => ~Received(x[2])'  BY DEF Waiting
    <3>2. QED  BY <1>4, <1>7, <2>1, <3>1
  <2>3. \A e : e = x[2] => (Waiting(e)' <=> Waiting(x[2])')
    BY <1>1 DEF Waiting, Received, Rest, Become
  <2>4. QED  BY <2>1, <2>2, <2>3
<1>10. WalkAhead(w)'
  <2>1. \A e \in Envelope : Waiting(e)' =>
            \/ \E y \in w.batch : y[2] = e
            \/ position'[e] > IF w.next = Absent THEN mark' ELSE w.next
    <3> SUFFICES ASSUME NEW e \in Envelope, Waiting(e)'
                 PROVE  \/ \E y \in w.batch : y[2] = e
                        \/ position'[e] > IF w.next = Absent THEN mark' ELSE w.next
      OBVIOUS
    <3>1. Waiting(e) /\ e # x[2]  BY <1>9
    <3>2. \/ \E y \in proc[p].batch : y[2] = e
          \/ position[e] > IF w.next = Absent THEN mark ELSE w.next
      BY <1>2, <1>3, <1>6, <3>1 DEF WalkAhead
    <3>3. CASE \E y \in proc[p].batch : y[2] = e  BY <1>6, <3>1, <3>3
    <3>4. QED  BY <1>2, <3>2, <3>3
  <2>2. w.rewalk = rewalk'  BY <1>2, <1>3, <1>6 DEF WalkAhead
  <2>3. QED  BY <1>6, <2>1, <2>2 DEF WalkAhead
<1>11. \A e \in Envelope : Waiting(e) => position[e] > IF rewalk' = Absent THEN mark' ELSE rewalk'
  BY <1>2, <1>3, WalksAlone, NoImportInPollOrAcks DEF Ahead
<1>12. w \in Process /\ Become(p, w)  BY <1>1, <1>5, <1>6 DEF Process
<1>13. QED  BY <1>2, <1>7, <1>8, <1>10, <1>11, <1>12, AheadFrame

LEMMA EndPageAhead ==
  ASSUME OneCommand, TypeInv, AheadInv, NEW p \in Proc, EndPage(p)
  PROVE  AheadInv'
<1>1. /\ proc[p] \in Poll /\ proc[p].pc = "judge" /\ proc[p].batch = {}
      /\ rewalk' = RewalkAfter(proc[p])
      /\ UNCHANGED <<position, next, mark, expired, contacts, inbox>>
  BY EndPageBecomes DEF relay
<1>2. WalkAhead(proc[p])  BY <1>1 DEF AheadInv
<1>3. \A e \in Envelope : Waiting(e) =>
          /\ position[e] > IF proc[p].next = Absent THEN mark ELSE proc[p].next
          /\ Ahead(e)
  BY <1>1, <1>2, WalksAlone, NoImportInPollOrAcks DEF WalkAhead
<1>4. rewalk' = IF rewalk = Absent THEN Absent ELSE proc[p].next
  BY <1>1, <1>2 DEF WalkAhead, RewalkAfter
<1>5. \A e \in Envelope : Waiting(e) => position[e] > IF rewalk' = Absent THEN mark' ELSE rewalk'
  BY <1>1, <1>3, <1>4 DEF Ahead
<1>6. \A e \in Envelope : (Received(e)' <=> Received(e)) /\ (Waiting(e)' <=> Waiting(e))
  BY <1>1 DEF Received, Waiting
<1>7. PICK w \in Process : Become(p, w) /\ (w \in Poll => WalkAhead(w)')
  <2>1. CASE /\ proc[p].next # Absent /\ proc[p].pages + 1 # MaxPages
             /\ Become(p, Onward(proc[p]))
    <3>1. PICK w : w = Onward(proc[p])  OBVIOUS
    <3>2. /\ w \in Poll /\ w.pc = "page" /\ w.cursor = proc[p].next
          /\ w.readThrough = proc[p].next
          /\ w.rewalk = IF proc[p].rewalk = Absent THEN Absent ELSE proc[p].next
      BY <1>1, <2>1, <3>1, OnwardTyped
    <3>3. w.rewalk = rewalk'  BY <1>2, <1>4, <3>2 DEF WalkAhead
    <3>4. \A e \in Envelope : Waiting(e)' => position'[e] > w.readThrough
      BY <1>1, <1>3, <1>6, <2>1, <3>2
    <3>5. WalkAhead(w)'  BY <1>4, <2>1, <3>2, <3>3, <3>4 DEF WalkAhead
    <3>6. QED  BY <2>1, <3>1, <3>2, <3>5 DEF Process
  <2>2. CASE Become(p, Idle)  BY <2>2, NoPollInIdleOrAcks DEF Process
  <2>3. CASE Become(p, Acks)  BY <2>3, AcksTyped, NoPollInIdleOrAcks DEF Process, TypeInv
  <2>4. QED  BY <2>1, <2>2, <2>3, EndPageBecomes
<1>8. \A e \in Envelope : position'[e] \in {0, position[e]}  BY <1>1
<1>9. QED  BY <1>1, <1>5, <1>6, <1>7, <1>8, AheadFrame

LEMMA AheadStep ==
  ASSUME OneCommand, TypeInv, AheadInv, [Next]_vars
  PROVE  AheadInv'
<1>1. CASE UNCHANGED vars
  BY <1>1 DEF vars, AheadInv, Ahead, WalkAhead, Waiting, Received, Poll, Token, Importing
<1>2. ASSUME NEW p \in Proc, NEW w \in {Idle} \cup Acking, Become(p, w), proc[p] # Importing,
             UNCHANGED <<next, expired, contacts, mark, rewalk, inbox>>,
             \A e \in Envelope : position'[e] \in {0, position[e]}
      PROVE  AheadInv'
  <2>1. w \in Process /\ w \notin Poll  BY <1>2, NoPollInIdleOrAcks DEF Process
  <2>2. \A e \in Envelope : Waiting(e) => position[e] > IF rewalk' = Absent THEN mark' ELSE rewalk'
    BY <1>2, WalksAlone DEF Ahead
  <2>3. \A e \in Envelope : Received(e) => Received(e)'  BY <1>2 DEF Received
  <2>4. QED  BY <1>2, <2>1, <2>2, <2>3, AheadFrame
<1>3. ASSUME NEW p \in Proc, StartPoll(p) PROVE AheadInv'
  <2>1. PICK w : w = [pc |-> "page", rewalk |-> rewalk, cursor |-> rewalk,
                      readThrough |-> Absent, pages |-> 0, received |-> FALSE,
                      rejected |-> FALSE, batch |-> {}, next |-> Absent]
    OBVIOUS
  <2>2. /\ w \in Poll /\ Become(p, w) /\ proc[p] = Idle
        /\ UNCHANGED <<position, next, mark, expired, contacts, rewalk, inbox>>
    BY <1>3, <2>1, StartTyped DEF StartPoll, TypeInv, relay, store
  <2>3. w.pc = "page" /\ w.rewalk = rewalk /\ w.cursor = rewalk /\ w.readThrough = Absent  BY <2>1
  <2>4. WalkAhead(w)'  BY <2>2, <2>3 DEF WalkAhead
  <2>5. \A e \in Envelope : Waiting(e) => position[e] > IF rewalk' = Absent THEN mark' ELSE rewalk'
    BY <2>2, WalksAlone, NoImportInPollOrAcks DEF Ahead
  <2>6. \A e \in Envelope : (Received(e) => Received(e)') /\ position'[e] \in {0, position[e]}
    BY <2>2 DEF Received
  <2>7. QED  BY <2>2, <2>4, <2>5, <2>6, AheadFrame DEF Process
<1>4. ASSUME NEW p \in Proc, AckRequest(p) PROVE AheadInv'
  <2>1. PICK c \in SUBSET proc[p].ids : Deleted(c) /\ Become(p, Sent(p, c))
    BY <1>4 DEF AckRequest, AckChunks, Sent
  <2>2. proc[p] \in Acking  BY <1>4, ProcessAt DEF TypeInv, AckRequest
  <2>3. c \subseteq Envelope /\ Sent(p, c) \in Acking  BY <2>2 DEF Acking, Sent
  <2>4. \A e \in Envelope : position'[e] \in {0, position[e]}  BY <2>1, <2>3, DeletedTyped
  <2>5. UNCHANGED <<next, expired, contacts, mark, rewalk, inbox>>  BY <1>4 DEF AckRequest, store
  <2>6. QED  BY <1>2, <2>1, <2>2, <2>3, <2>4, <2>5, NoImportInPollOrAcks
<1>5. ASSUME NEW p \in Proc, AckSettle(p) PROVE AheadInv'
  <2>1. proc[p] \in Acking  BY <1>5, ProcessAt DEF TypeInv, AckSettle
  <2>2. Settled(p) \in Acking  BY <2>1 DEF Acking, Settled
  <2>3. /\ Become(p, Settled(p))
        /\ UNCHANGED <<position, next, expired, contacts, mark, rewalk, inbox>>
    BY <1>5 DEF AckSettle, Settled, relay
  <2>4. QED  BY <1>2, <2>1, <2>2, <2>3, NoImportInPollOrAcks
<1>6. ASSUME NEW p \in Proc, AckDone(p) \/ PollEnds(p) PROVE AheadInv'
  <2>1. /\ Become(p, Idle) /\ proc[p] # Importing
        /\ UNCHANGED <<position, next, expired, contacts, mark, rewalk, inbox>>
    BY <1>6 DEF AckDone, PollEnds, Ends, relay, store, Importing
  <2>2. QED  BY <1>2, <2>1
<1>7. ASSUME NEW p \in Proc, AckAnswerLost(p) PROVE AheadInv'
  <2>1. PICK d \in SUBSET proc[p].ids : Deleted(d)  BY <1>7 DEF AckAnswerLost, AckChunks
  <2>2. proc[p] \in Acking  BY <1>7, ProcessAt DEF TypeInv, AckAnswerLost
  <2>3. d \subseteq Envelope  BY <2>2 DEF Acking
  <2>4. \A e \in Envelope : position'[e] \in {0, position[e]}  BY <2>1, <2>3, DeletedTyped
  <2>5. Become(p, Idle) /\ UNCHANGED <<next, expired, contacts, mark, rewalk, inbox>>
    BY <1>7 DEF AckAnswerLost, Ends, store
  <2>6. QED  BY <1>2, <2>2, <2>4, <2>5, NoImportInPollOrAcks
<1>8. ASSUME NEW p \in Proc, PageAnswerLost(p) PROVE AheadInv'
  <2>1. /\ proc[p].pc = "page" /\ mark' = Advanced(proc[p].readThrough) /\ Become(p, Idle)
        /\ UNCHANGED <<position, next, expired, contacts, rewalk, inbox>>
    BY <1>8 DEF PageAnswerLost, Ends, store
  <2>2. \A e \in Envelope : Waiting(e) => position[e] > IF rewalk' = Absent THEN mark' ELSE rewalk'
    BY <2>1, ReportAhead
  <2>3. Idle \in Process /\ Idle \notin Poll  BY NoPollInIdleOrAcks DEF Process
  <2>4. \A e \in Envelope : (Received(e) => Received(e)') /\ position'[e] \in {0, position[e]}
    BY <2>1 DEF Received
  <2>5. QED  BY <2>1, <2>2, <2>3, <2>4, AheadFrame
<1>9. ASSUME NEW p \in Proc, ImportEnds(p) PROVE AheadInv'
  BY <1>9 DEF ImportEnds, Ends, OneCommand
<1>10. ASSUME NEW p \in Proc, NEW s \in Sender, ImportContact(p, s) PROVE AheadInv'
  <2>1. Become(p, Importing) /\ UNCHANGED <<position, next, expired>>
    BY <1>10 DEF ImportContact, relay
  <2>2. proc'[p] = Importing /\ \A q \in Proc : q = p  BY <2>1, OnlyProcess DEF Process
  <2>3. Importing' = Importing /\ Poll' = Poll  BY <2>1 DEF Importing, Poll, Token
  <2>4. \A q \in Proc : proc'[q] \notin Poll'  BY <2>2, <2>3, NoPollInIdleOrAcks
  <2>5. \A e \in expired' : position'[e] = 0  BY <2>1 DEF AheadInv
  <2>6. QED  BY <2>2, <2>3, <2>4, <2>5 DEF AheadInv
<1>11. ASSUME NEW p \in Proc, RequestMailboxRewalk(p) PROVE AheadInv'
  <2>1. Become(p, Idle) /\ rewalk' = 0 /\ UNCHANGED <<position, next, expired, contacts, inbox>>
    BY <1>11 DEF RequestMailboxRewalk, relay
  <2>2. \A e \in Envelope : Waiting(e) => position[e] > IF rewalk' = Absent THEN mark' ELSE rewalk'
    BY <2>1, InboundAssumption DEF Waiting, TypeInv, TypeOK
  <2>3. Idle \in Process /\ Idle \notin Poll  BY NoPollInIdleOrAcks DEF Process
  <2>4. \A e \in Envelope : (Received(e) => Received(e)') /\ position'[e] \in {0, position[e]}
    BY <2>1 DEF Received
  <2>5. QED  BY <2>1, <2>2, <2>3, <2>4, AheadFrame
<1>12. QED
  BY <1>1, <1>3, <1>4, <1>5, <1>6, <1>7, <1>8, <1>9, <1>10, <1>11, SendAhead, ExpireAhead,
     PageAhead, JudgeAhead, EndPageAhead DEF Next, PollStep

\* While one command runs at a time and no import ends between its transactions,
\* a trusted envelope that waits is never behind both the read mark and the
\* re-walk, however polls are cut short (poll, keepMailboxRewalk).
THEOREM TrustedIsNeverLeftBehind == ASSUME OneCommand PROVE Spec => []TrustedStaysAhead
<1>1. Init => AheadInv
  <2> SUFFICES ASSUME Init PROVE AheadInv  OBVIOUS
  <2>1. \A e \in Envelope : ~Waiting(e)  BY DEF Init, Waiting
  <2>2. QED  BY <2>1, NoPollInIdleOrAcks DEF Init, AheadInv
<1>2. AheadInv => TrustedStaysAhead
  <2> SUFFICES ASSUME AheadInv, NEW e \in Envelope, Waiting(e)
               PROVE  \/ position[e] > mark
                      \/ rewalk # Absent /\ rewalk < position[e]
                      \/ \E p \in Proc : proc[p] = Importing
    BY DEF TrustedStaysAhead
  <2>1. (\E p \in Proc : proc[p] = Importing) \/ Ahead(e)  BY DEF AheadInv
  <2>2. Ahead(e) => position[e] > mark \/ (rewalk # Absent /\ rewalk < position[e])  BY DEF Ahead
  <2>3. QED  BY <2>1, <2>2
<1>3. TypeInv /\ AheadInv /\ [Next]_vars => AheadInv'  BY AheadStep
<1>4. QED  BY <1>1, <1>2, <1>3, InboundTyped, PTL DEF Spec
=============================================================================
