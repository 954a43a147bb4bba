----------------------------- MODULE BadgerTxn -----------------------------
(***************************************************************************)
(* The optimistic transactions of the Badger store, as the relay's         *)
(* repositories use them through db.Update: the callback runs over a       *)
(* snapshot, and at commit the transaction conflicts when a key it read    *)
(* has been written since.  A key is read by txn.Get and by Iterator.Item; *)
(* a prefix that is walked without calling Item leaves nothing to check,   *)
(* and no walk notices a key inserted into its range.  A callback that     *)
(* writes nothing commits without a check.                                 *)
(***************************************************************************)
CONSTANTS
    Proc,     \* the goroutines that run transactions
    NoTxn     \* stands in snap for a goroutine without a transaction

VARIABLES
    db,       \* the committed value of every key
    snap,     \* the snapshot each open transaction reads
    dirty     \* the keys written since each open transaction began

TxnInit(d) ==
    /\ db = d
    /\ snap = [p \in Proc |-> NoTxn]
    /\ dirty = [p \in Proc |-> {}]

Open(p) == snap[p] # NoTxn

Begin(p) ==
    /\ snap' = [snap EXCEPT ![p] = db]
    /\ UNCHANGED <<db, dirty>>

Conflicts(p, reads, writes) == DOMAIN writes # {} /\ reads \cap dirty[p] # {}

\* The transaction ends without a trace.
Discard(p) ==
    /\ snap' = [snap EXCEPT ![p] = NoTxn]
    /\ dirty' = [dirty EXCEPT ![p] = {}]
    /\ UNCHANGED db

\* writes is a function from the written keys to their new values.
Commit(p, writes) ==
    /\ db' = [k \in DOMAIN db |-> IF k \in DOMAIN writes THEN writes[k] ELSE db[k]]
    /\ snap' = [snap EXCEPT ![p] = NoTxn]
    /\ dirty' = [q \in Proc |-> IF q # p /\ Open(q) THEN dirty[q] \cup DOMAIN writes ELSE {}]
=============================================================================
