----------------------------- MODULE PublishGate -----------------------------
(***************************************************************************)
(* The promise the whole system is built around: nothing becomes public    *)
(* that a human has not approved and a human has not released.  A run      *)
(* passes three gates in order, and a gate once passed is on record.       *)
(***************************************************************************)
CONSTANT Run

VARIABLES approved, released, public

gates == <<approved, released, public>>

TypeOK == approved \subseteq Run /\ released \subseteq Run /\ public \subseteq Run

Init == approved = {} /\ released = {} /\ public = {}

Approve(r) ==
    /\ approved' = approved \cup {r}
    /\ UNCHANGED <<released, public>>

Release(r) ==
    /\ r \in approved
    /\ released' = released \cup {r}
    /\ UNCHANGED <<approved, public>>

Publish(r) ==
    /\ r \in released
    /\ public' = public \cup {r}
    /\ UNCHANGED <<approved, released>>

Next == \E r \in Run : Approve(r) \/ Release(r) \/ Publish(r)

Spec == Init /\ [][Next]_gates

=============================================================================
