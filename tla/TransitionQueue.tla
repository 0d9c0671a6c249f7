-------------------------- MODULE TransitionQueue --------------------------
(***************************************************************************)
(* What the workflow coordinator promises to the senders of transitions,   *)
(* without its channels, tasks and rows (the comments on                   *)
(* WorkflowCoordinator in coordinator.rs): for every ticket one transition *)
(* is worked on at a time, the newest request waits behind it and replaces *)
(* an older one, and what is not finished survives a crash and is started  *)
(* again.  A ticket that was cancelled in this run of the server, or that  *)
(* had two unfinished transitions when it started, is in doubt: nothing is *)
(* promised of it until the next start.                                    *)
(***************************************************************************)
CONSTANTS Tickets, Targets, None

VARIABLES
    mode,        \* "down", "recovering" or "running"
    job,         \* ticket -> the transition being worked on
    waiting,     \* ticket -> the target that waits behind it
    unfinished,  \* ticket -> the targets that a restart has to start again
    doubtful     \* tickets in doubt

queueVars == <<mode, job, waiting, unfinished, doubtful>>

NoJob == [target |-> None, working |-> FALSE]
Job(s) == [target |-> s, working |-> TRUE]

\* Nothing but ticket t is touched.
OnlyTicket(t) ==
    /\ \A u \in Tickets \ {t} : /\ job'[u] = job[u] /\ waiting'[u] = waiting[u]
                                /\ unfinished'[u] = unfinished[u]
    /\ UNCHANGED <<mode, doubtful>>

\* A request is recorded, then started or kept waiting.
Accept(t, s) ==
    /\ mode = "running"
    /\ unfinished'[t] = unfinished[t] \cup {s}
    /\ \/ job[t] = NoJob /\ job'[t] = Job(s) /\ waiting'[t] = waiting[t]
       \/ job[t] # NoJob /\ job'[t] = job[t] /\ waiting'[t] = s
    /\ OnlyTicket(t)

\* The record of the transition is removed while it is still the current one.
Settle(t) ==
    /\ job[t].working
    /\ unfinished'[t] = unfinished[t] \ {job[t].target}
    /\ job'[t] = job[t] /\ waiting'[t] = waiting[t]
    /\ OnlyTicket(t)

Finish(t) ==
    /\ job[t].working
    /\ job'[t] = [target |-> job[t].target, working |-> FALSE]
    /\ waiting'[t] = waiting[t] /\ unfinished'[t] = unfinished[t]
    /\ OnlyTicket(t)

\* Only when the transition has ended does the waiting one take its place.
HandOver(t) ==
    /\ mode = "running"
    /\ job[t] # NoJob /\ ~job[t].working
    /\ job'[t] = IF waiting[t] = None THEN NoJob ELSE Job(waiting[t])
    /\ waiting'[t] = None
    /\ unfinished'[t] = unfinished[t]
    /\ OnlyTicket(t)

\* The next start begins with the unfinished transitions, or gives them up.
Resume(t, s) ==
    /\ mode = "recovering"
    /\ job[t] = NoJob /\ s \in unfinished[t]
    /\ \/ job'[t] = Job(s) /\ unfinished'[t] = unfinished[t]
       \/ job'[t] = NoJob /\ unfinished'[t] = unfinished[t] \ {s}
    /\ waiting'[t] = waiting[t]
    /\ OnlyTicket(t)

Doubt(t) == doubtful' = doubtful \cup {t} /\ UNCHANGED <<mode, job, waiting, unfinished>>
Anything(t) == t \in doubtful /\ OnlyTicket(t)

Crash ==
    /\ mode' = "down" /\ doubtful' = {}
    /\ job' = [t \in Tickets |-> NoJob] /\ waiting' = [t \in Tickets |-> None]
    /\ UNCHANGED unfinished

Start ==
    /\ mode = "down" /\ mode' = "recovering"
    /\ doubtful' \subseteq Tickets
    /\ \A t \in Tickets \ doubtful' : \A r, s \in unfinished[t] : r = s
    /\ UNCHANGED <<job, waiting, unfinished>>

Serve == mode = "recovering" /\ mode' = "running" /\ UNCHANGED <<job, waiting, unfinished, doubtful>>

Init ==
    /\ mode = "running" /\ doubtful = {}
    /\ job = [t \in Tickets |-> NoJob]
    /\ waiting = [t \in Tickets |-> None]
    /\ unfinished = [t \in Tickets |-> {}]

Next ==
    \/ Crash \/ Start \/ Serve
    \/ \E t \in Tickets :
          \/ \E s \in Targets : Accept(t, s) \/ Resume(t, s)
          \/ Settle(t) \/ Finish(t) \/ HandOver(t) \/ Doubt(t) \/ Anything(t)

Spec == Init /\ [][Next]_queueVars
=============================================================================
