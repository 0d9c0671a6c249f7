---------------------------- MODULE MCWorkerPool ----------------------------
(* Instances of WorkerPool for TLC. *)
EXTENDS WorkerPool

CONSTANT MaxTroubles  \* bound: crashes, dropped launches, faults and losses together

ASSUME MaxTroublesAssumption == MaxTroubles \in Nat

\* No step that has to happen is a trouble.
Bounded == crashes + cancels + faults + losses <= MaxTroubles

\* Every worker id has been used and no request is being served: the bounds
\* are used up, the server idles.
Idle ==
    /\ up
    /\ \A w \in Workers : launch[w] = Launched
    /\ \A i \in StopCalls : stop[i] = NoStop
    /\ UNCHANGED vars

MCNext == Next \/ Idle
MCSpec == Init /\ [][MCNext]_vars
MCFairSpec == MCSpec /\ Fairness
=============================================================================
