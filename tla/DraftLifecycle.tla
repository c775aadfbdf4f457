--------------------------- MODULE DraftLifecycle ---------------------------
(***************************************************************************)
(* What the lifecycle table promises of anything that has a lifecycle      *)
(* state: it starts in Start and moves only along an edge of the table.    *)
(***************************************************************************)
EXTENDS Lifecycle

CONSTANTS Thing, Start

VARIABLE stage

TypeOK == stage \in [Thing -> DraftState]

Init == stage = [x \in Thing |-> Start]

Move(x, e) ==
    /\ e.from = stage[x]
    /\ stage' = [stage EXCEPT ![x] = e.to]

Next == \E x \in Thing, e \in LIFECYCLE_TRANSITIONS : Move(x, e)

Spec == Init /\ [][Next]_stage

=============================================================================
