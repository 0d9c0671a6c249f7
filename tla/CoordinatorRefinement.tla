----------------------- MODULE CoordinatorRefinement -----------------------
(***************************************************************************)
(* The coordinator implements TransitionQueue: the slot of a ticket is its *)
(* job, which is being worked on as long as the slot's task lives, and the *)
(* workflow_intent rows are what a restart finds.                          *)
(***************************************************************************)
EXTENDS Coordinator

Working(t) == inFlight[t].task # NoTask /\ Live(inFlight[t].task)

JobOf(t) == [target |-> inFlight[t].target, working |-> Working(t)]

Recorded(t) == {i.target : i \in {j \in intents : j.ticket = t}}

Queue == INSTANCE TransitionQueue WITH
    mode <- phase,
    job <- [t \in Tickets |-> JobOf(t)],
    waiting <- [t \in Tickets |-> inFlight[t].pending],
    unfinished <- [t \in Tickets |-> Recorded(t)],
    doubtful <- exposed

\* Every step of select! loop, handler tasks, recovery and RPCs is a step of
\* the abstract queue or invisible there: a waiting request is started only
\* when the task before it has ended, the newest one is the one that waits,
\* no intent disappears but the running handler's own, and a restart begins
\* with what the table holds.
ImplementsQueue == Queue!Spec
=============================================================================
