----------------------------- MODULE TrustGate -----------------------------
(***************************************************************************)
(* What every surface of the client promises about trust: a subject (a     *)
(* contact card, and where there are several profiles the profile it goes  *)
(* into) is trusted only after it was put before the operator, who agreed  *)
(* to it while it was on the screen.  The terminal console and the web     *)
(* station each implement this specification.                              *)
(***************************************************************************)
EXTENDS FiniteSets

CONSTANT Subject

VARIABLES
    shown,     \* the subject on the screen: a set of at most one
    agreed,    \* agreements on their way to the profile store
    trusted    \* what the store trusts

\* The store may hold what earlier sessions agreed to.
Init == shown = {} /\ agreed = {} /\ trusted \subseteq Subject

\* A subject is put on the screen in place of what was there.
Present(s) == shown' = {s} /\ UNCHANGED <<agreed, trusted>>

\* The screen no longer shows it.
Withdraw == shown' = {} /\ UNCHANGED <<agreed, trusted>>

\* The operator agrees to exactly what the screen shows.
Agree(s) ==
    /\ s \in shown
    /\ shown' \in {shown, {}}
    /\ agreed' = agreed \cup {s}
    /\ UNCHANGED trusted

\* An agreement takes effect once ...
Trust(s) ==
    /\ s \in agreed
    /\ trusted' = trusted \cup {s}
    /\ agreed' \in {agreed, agreed \ {s}}
    /\ UNCHANGED shown

\* ... or is lost with the command that carried it, or is spent.
Drop(s) ==
    /\ s \in agreed
    /\ agreed' = agreed \ {s}
    /\ shown' \in {shown, {}}
    /\ UNCHANGED trusted

Next == Withdraw \/ \E s \in Subject : Present(s) \/ Agree(s) \/ Trust(s) \/ Drop(s)

Spec == Init /\ [][Next]_<<shown, agreed, trusted>>

=============================================================================
