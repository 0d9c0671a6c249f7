--------------------------- MODULE MCCoordinator ---------------------------
(* Instances of Coordinator for TLC. *)
EXTENDS CoordinatorRefinement

CONSTANT MaxInputs  \* bound: requests, crashes, cancellations and faults together

ASSUME MaxInputsAssumption == MaxInputs \in Nat

\* A server with nothing left to do, in a behaviour whose bounds are used up,
\* may idle for ever; any other state without a successor is a deadlock.
Idle ==
    /\ phase = "running"
    /\ rx = <<>> /\ cancelRx = <<>> /\ completionRx = <<>>
    /\ \A k \in TaskIds : ~Live(k)
    /\ \A t \in Tickets : rpc[t] = NoRpc
    /\ UNCHANGED vars

\* No step that has to happen counts as an input, so the bound takes nothing from
\* the fair behaviours but those with more of them.
Bounded == requests + crashes + cancels + faults <= MaxInputs

MCNext == Next \/ Idle
MCSpec == Init /\ [][MCNext]_vars
MCFairSpec == MCSpec /\ Fairness
=============================================================================
