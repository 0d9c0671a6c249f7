---------------------------- MODULE MCLifecycle ----------------------------
(* Instances of Lifecycle for TLC. *)
EXTENDS Lifecycle

CONSTANT MaxDisturbances  \* bound: what operators, reviewers and faults do together

ASSUME MaxDisturbancesAssumption == MaxDisturbances \in Nat

Disturbances ==
    Len(comments) + redrives + troubles + crashes + faults
        + (IF ticket.autoapprove THEN 1 ELSE 0)

Bounded == Disturbances <= MaxDisturbances
=============================================================================
