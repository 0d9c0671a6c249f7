---------------------------- MODULE WorkerDaemon ----------------------------
(***************************************************************************)
(* workerd, the daemon next to the agent in a worker container             *)
(* (workerd/src/main.rs, grpc_service.rs, exit_watcher.rs).  The server    *)
(* loads the dispatch buffer; every idle report of the agent's hooks takes *)
(* one command out of it, and when it is drained either reports the step   *)
(* to the server or nudges the agent.  Texts are typed into the agent's    *)
(* tmux session by detached tasks and by the handlers of a dispatch.       *)
(*                                                                         *)
(* The agent and the server are external.  A dispatch is its number; the   *)
(* texts carry it.  A text typed while the agent is not at its prompt is   *)
(* queued as a message and its slash command is not run (comment of        *)
(* spawn_deferred_send).  The agent is in its hook until after NotifyIdle  *)
(* has replied, and the calls to the server leave before the reply, so     *)
(* that the next dispatch can find the agent still in the hook.  The grace *)
(* of 750 ms of deferred texts is taken to be longer than the return of    *)
(* the hook, as HOOK_RETURN_GRACE says.                                    *)
(***************************************************************************)
EXTENDS Naturals, Sequences, SequencesExt

CONSTANTS
    MaxDispatches,   \* Implement, Design and AddressFeedbackTickets calls
    MaxRedrives,     \* calls that do not wait for the worker
    MaxFaults,       \* failing calls to the server, send-keys and pane queries
    MaxPauses,       \* pause-nudge calls
    MaxLoose,        \* turns that a human starts, and step-complete in them
    MaxTroubles,     \* all of the last four together, the last two counted twice
    DesignWorker     \* is_design_worker

ASSUME LimitsAssumption ==
    /\ {MaxDispatches, MaxRedrives, MaxFaults, MaxPauses, MaxLoose, MaxTroubles} \subseteq Nat
    /\ DesignWorker \in BOOLEAN

VARIABLES
    main,         \* run_daemon_only: the step it is at
    buf,          \* DispatchBuffer
    idleRpc,      \* the NotifyIdle call under way: where it stands
    typing,       \* first commands that the handlers of a dispatch are about to type
    deferred,     \* texts of spawn_deferred_send tasks that still sleep
    session,      \* texts typed into the session and not yet taken
    agent,        \* the agent process
    reports,      \* WorkflowStepComplete calls under way
    idles,        \* UpdateAgentStatus calls under way
    server,       \* what the server knows of the worker
    watch,        \* the exit watcher
    \* observed:
    loaded,       \* the dispatch the buffer was last loaded with, 0 when cleared
    overlapped,   \* dispatches that met a worker that was not ready, or a human
    unheeded,     \* dispatches whose clear the agent took as a message
    asked,        \* dispatches in whose work the agent asked for a human
    finished,     \* dispatches whose work the agent has finished
    reported,     \* dispatches reported to the server
    dispatches, redrives, faults, pauses, loose

counters == <<dispatches, redrives, faults, pauses, loose>>
observed == <<loaded, overlapped, unheeded, asked, finished, reported>>
vars == <<main, buf, idleRpc, typing, deferred, session, agent, reports, idles, server, watch,
          observed, counters>>

Dispatch == 1..MaxDispatches
Steps    == {"implementing", "designing", "addressing_feedback"}
Text     == [kind : {"clear", "skill"}, d : Dispatch] \cup [kind : {"nudge", "human"}, d : {0}]
Typed    == [text : Text, atPrompt : BOOLEAN]

NoBuffer == [commands |-> <<>>, complete |-> FALSE, step |-> "", suppressed |-> FALSE]

Fault == faults < MaxFaults /\ faults' = faults + 1

\* The agent takes input, and runs a slash command that is typed now.
AtPrompt == agent.state = "prompt"

\* send-keys; whether the text is run as a command depends on the agent.
SendKeys(text) ==
    session' = Append(session, [text |-> text, atPrompt |-> AtPrompt])

\* send-keys from a task or handler that only logs a failure.
TrySendKeys(text) ==
    \/ SendKeys(text) /\ UNCHANGED faults
    \/ Fault /\ UNCHANGED session

-----------------------------------------------------------------------------
(* Start: the listener is bound before the agent is launched, so that the   *)
(* idle report of its SessionStart hook waits in the backlog.               *)

Start ==
    /\ \/ main = "bind" /\ main' = "launch"
       \/ main = "launch" /\ main' = "serve"
       \/ main = "serve" /\ main' = "serving"
    /\ agent' = IF main = "launch" THEN [agent EXCEPT !.state = "booting"] ELSE agent
    /\ UNCHANGED <<buf, idleRpc, typing, deferred, session, reports, idles, server, watch, observed,
                   counters>>

Bound == main \in {"launch", "serve", "serving"}
Serving == main = "serving"

-----------------------------------------------------------------------------
(* The server's calls. *)

\* Ready: the worker reported idle or its last step, and nothing is with it.
\* Whether its hook has returned the server cannot know.
Ready ==
    /\ server.expects /\ loaded = 0 /\ typing = <<>> /\ session = <<>> /\ deferred = <<>>
    /\ agent.state = "prompt" \/ idleRpc = "returning"
    /\ agent.on = 0 /\ ~agent.job

Skill(d) == [kind |-> "skill", d |-> d]
Clear(d) == [kind |-> "clear", d |-> d]

\* Mutant: only the first dispatch clears.
DispatchUncleared(d) == IF d = 1 THEN <<Clear(d), Skill(d)>> ELSE <<Skill(d), Skill(d)>>

\* dispatch_commands: clear, then the skill.
DispatchCommands(d) == <<Clear(d), Skill(d)>>

\* The buffer after a dispatch: the first command is taken out to be typed.
Loaded(step, d) ==
    [commands |-> Tail(DispatchCommands(d)), complete |-> FALSE, step |-> step,
     suppressed |-> FALSE]

\* The buffer is loaded under its lock ...
Load(step) ==
    /\ Serving /\ watch # "stopped" /\ dispatches < MaxDispatches
    /\ \/ Ready /\ UNCHANGED <<redrives, overlapped>>
       \/ /\ ~Ready /\ redrives < MaxRedrives
          /\ redrives' = redrives + 1
          /\ overlapped' = overlapped \cup {dispatches + 1}
    /\ dispatches' = dispatches + 1
    /\ loaded' = dispatches + 1
    /\ buf' = Loaded(step, dispatches + 1)
    /\ typing' = Append(typing, Head(DispatchCommands(dispatches + 1)))
    /\ server' = [server EXCEPT !.expects = FALSE, !.stalled = FALSE]
    /\ UNCHANGED <<main, idleRpc, deferred, session, agent, reports, idles, watch, unheeded, asked,
                   finished, reported, faults, pauses, loose>>

\* ... and the first command typed after the lock was released, with no grace
\* for the hook that the agent may still be in.
TypeFirst ==
    /\ \E i \in DOMAIN typing : TrySendKeys(typing[i]) /\ typing' = RemoveAt(typing, i)
    /\ UNCHANGED <<main, buf, idleRpc, deferred, agent, reports, idles, server, watch, observed,
                   dispatches, redrives, pauses, loose>>

Implement == Load("implementing")
Design    == Load("designing")
AddressFeedbackTickets == Load("addressing_feedback")

\* send_message: a text typed on behalf of a human.
SendMessage ==
    /\ Serving /\ watch # "stopped" /\ loose < MaxLoose
    /\ loose' = loose + 1
    /\ SendKeys([kind |-> "human", d |-> 0])
    /\ overlapped' = IF loaded = 0 THEN overlapped ELSE overlapped \cup {loaded}
    /\ UNCHANGED <<main, buf, idleRpc, typing, deferred, agent, reports, idles, server, watch, loaded,
                   unheeded, asked, finished, reported, dispatches, redrives, faults, pauses>>

-----------------------------------------------------------------------------
(* NotifyIdle: the agent waits for the hook, which ends some time after the *)
(* reply.  What the call spawns is under way by then.                       *)

IdleFrame == UNCHANGED <<main, typing, session, agent, watch, overlapped, unheeded, asked, finished, counters>>

Reply == idleRpc' = "returning"

\* spawn_deferred_send
Defer(text) == deferred' = Append(deferred, text)

\* Case 1: the buffer has commands.
IdlePops ==
    /\ Serving /\ idleRpc = "called" /\ buf.commands # <<>>
    /\ buf' = [buf EXCEPT !.commands = Tail(@)]
    /\ Defer(Head(buf.commands))
    /\ Reply
    /\ IdleFrame /\ UNCHANGED <<reports, idles, server, loaded, reported>>

Drained == Serving /\ idleRpc = "called" /\ buf.commands = <<>>

\* Mutant: a drained buffer is taken for a complete step.
IdleReportsDrained ==
    /\ Drained /\ (buf.complete \/ buf.step # "")
    /\ buf' = [buf EXCEPT !.commands = <<>>, !.complete = FALSE, !.step = ""]
    /\ reports' = Append(reports, loaded)
    /\ reported' = reported \cup {loaded}
    /\ loaded' = 0
    /\ Reply
    /\ IdleFrame /\ UNCHANGED <<deferred, idles, server>>

\* Case 2: drained and complete.  The call to the server is sent once.
IdleReports ==
    /\ Drained /\ buf.complete
    /\ buf' = [buf EXCEPT !.commands = <<>>, !.complete = FALSE, !.step = ""]
    /\ reports' = Append(reports, loaded)
    /\ reported' = reported \cup {loaded}
    /\ loaded' = 0
    /\ Reply
    /\ IdleFrame /\ UNCHANGED <<deferred, idles, server>>

Nudgeable == buf.step # "" /\ buf.step # "designing"

\* Mutant: an idle agent with an open step is left alone.
IdleAsksNever ==
    /\ Drained /\ ~buf.complete /\ Nudgeable
    /\ Reply
    /\ IdleFrame /\ UNCHANGED <<buf, deferred, reports, idles, server, loaded, reported>>

\* Case 3: an open step; suppressed nudges end the call, others first ask the
\* server whether the worker is stalled.
IdleAsks ==
    /\ Drained /\ ~buf.complete /\ Nudgeable
    /\ idleRpc' = IF buf.suppressed THEN "returning" ELSE "asking"
    /\ IdleFrame /\ UNCHANGED <<buf, deferred, reports, idles, server, loaded, reported>>

\* Case 4: no active dispatch: idle goes to the server, once.
IdleForwards ==
    /\ Drained /\ ~buf.complete /\ ~Nudgeable
    /\ idles' = idles + 1
    /\ Reply
    /\ IdleFrame /\ UNCHANGED <<buf, deferred, reports, server, loaded, reported>>

\* is_stalled: the lock is free while the server is asked; a call that fails
\* counts as stalled.
IsStalled ==
    /\ idleRpc = "asking"
    /\ \/ server.stalled /\ UNCHANGED <<deferred, faults>>
       \/ Fault /\ UNCHANGED deferred
       \/ ~server.stalled /\ Defer([kind |-> "nudge", d |-> 0]) /\ UNCHANGED faults
    /\ Reply
    /\ UNCHANGED <<main, buf, typing, session, agent, reports, idles, server, watch, observed,
                   dispatches, redrives, pauses, loose>>

\* The hook returns and the agent is back at its prompt.
HookReturns ==
    /\ idleRpc = "returning"
    /\ idleRpc' = "none" /\ agent' = [agent EXCEPT !.state = "prompt"]
    /\ UNCHANGED <<main, buf, typing, deferred, session, reports, idles, server, watch, observed, counters>>

\* The task of spawn_deferred_send wakes; the hook has returned by then.
DeferredSend ==
    /\ agent.state # "hook"
    /\ \E i \in DOMAIN deferred : TrySendKeys(deferred[i]) /\ deferred' = RemoveAt(deferred, i)
    /\ UNCHANGED <<main, buf, idleRpc, typing, agent, reports, idles, server, watch, observed,
                   dispatches, redrives, pauses, loose>>

\* send_workflow_step_complete: delivered or lost, never sent again.
ReportArrives ==
    /\ \E i \in DOMAIN reports : reports' = RemoveAt(reports, i)
    /\ \/ server' = [server EXCEPT !.expects = TRUE] /\ UNCHANGED faults
       \/ Fault /\ UNCHANGED server
    /\ UNCHANGED <<main, buf, idleRpc, typing, deferred, session, agent, idles, watch, observed,
                   dispatches, redrives, pauses, loose>>

\* forward_idle_to_server: the same.
IdleArrives ==
    /\ idles > 0 /\ idles' = idles - 1
    /\ \/ server' = [server EXCEPT !.expects = TRUE, !.stalled = FALSE] /\ UNCHANGED faults
       \/ Fault /\ UNCHANGED server
    /\ UNCHANGED <<main, buf, idleRpc, typing, deferred, session, agent, reports, watch, observed,
                   dispatches, redrives, pauses, loose>>

-----------------------------------------------------------------------------
(* The calls the agent makes while it works. *)

StepComplete ==
    /\ Serving /\ agent.state = "busy"
    /\ buf' = [buf EXCEPT !.complete = TRUE, !.suppressed = FALSE]
    /\ finished' = IF agent.on = 0 THEN finished ELSE finished \cup {agent.on}
    /\ UNCHANGED <<main, idleRpc, typing, deferred, session, agent, reports, idles, server, watch,
                   loaded, overlapped, unheeded, asked, reported, counters>>

\* The agent waits for a background job: the job starts a new turn when it ends.
PauseNudge ==
    /\ Serving /\ agent.state = "busy" /\ agent.on # 0 /\ pauses < MaxPauses
    /\ pauses' = pauses + 1
    /\ buf' = [buf EXCEPT !.suppressed = TRUE]
    /\ agent' = [agent EXCEPT !.job = TRUE]
    /\ UNCHANGED <<main, idleRpc, typing, deferred, session, reports, idles, server, watch, observed,
                   dispatches, redrives, faults, loose>>

\* Five minutes have passed.
PauseEnds ==
    /\ buf.suppressed
    /\ buf' = [buf EXCEPT !.suppressed = FALSE]
    /\ UNCHANGED <<main, idleRpc, typing, deferred, session, agent, reports, idles, server, watch, observed,
                   counters>>

\* request-human goes to the server directly.
RequestHuman ==
    /\ agent.state = "busy" /\ agent.on # 0 /\ ~server.stalled
    /\ server' = [server EXCEPT !.stalled = TRUE]
    /\ asked' = asked \cup {agent.on}
    /\ UNCHANGED <<main, buf, idleRpc, typing, deferred, session, agent, reports, idles, watch, loaded,
                   overlapped, unheeded, finished, reported, counters>>

-----------------------------------------------------------------------------
(* The agent. *)

AgentFrame == UNCHANGED <<main, buf, typing, deferred, reports, idles, server, watch, counters>>

\* A hook calls NotifyIdle, which is refused before the listener is bound.
Hook ==
    IF Bound
    THEN idleRpc' = "called" /\ agent' = [agent EXCEPT !.state = "hook"]
    ELSE idleRpc' = "none" /\ agent' = [agent EXCEPT !.state = "prompt"]

\* The SessionStart hook of the agent's start.
AgentBoots ==
    /\ agent.state = "booting"
    /\ Hook
    /\ UNCHANGED <<session, observed>> /\ AgentFrame

\* The agent takes what was typed.  A clear that is run starts a session and
\* with it a hook; a skill that is run is the agent's work from then on;
\* anything else is a message that it answers.
AgentTakes ==
    /\ agent.state = "prompt" /\ session # <<>>
    /\ session' = Tail(session)
    /\ LET t == Head(session).text
           run == Head(session).atPrompt
       IN  /\ \/ /\ run /\ t.kind = "clear"
                 /\ idleRpc' = "called"
                 /\ agent' = [agent EXCEPT !.state = "hook", !.on = 0, !.context = {}]
              \/ /\ run /\ t.kind = "skill"
                 /\ agent' = [agent EXCEPT !.state = "busy", !.on = t.d, !.context = @ \cup {t.d}]
                 /\ UNCHANGED idleRpc
              \/ /\ ~run \/ t.kind \in {"nudge", "human"}
                 /\ agent' = [agent EXCEPT !.state = "busy"]
                 /\ UNCHANGED idleRpc
           /\ unheeded' = unheeded \cup (IF t.kind = "clear" /\ ~run THEN {t.d} ELSE {})
    /\ AgentFrame /\ UNCHANGED <<loaded, overlapped, asked, finished, reported>>

\* A turn ends with the Stop hook, whether the step is complete or not.
AgentStops ==
    /\ agent.state = "busy"
    /\ idleRpc' = "called"
    /\ agent' = [agent EXCEPT !.state = "hook", !.on = IF @ \in finished THEN 0 ELSE @]
    /\ UNCHANGED <<session, observed>> /\ AgentFrame

\* The background job ends and the agent goes on.
JobEnds ==
    /\ agent.job /\ agent.state = "prompt"
    /\ agent' = [agent EXCEPT !.state = "busy", !.job = FALSE]
    /\ UNCHANGED <<idleRpc, session, observed>> /\ AgentFrame

\* The agent process ends and leaves the shell it was started from.
AgentExits ==
    /\ DesignWorker
    /\ agent.state \in {"prompt", "busy"} /\ idleRpc = "none"
    /\ agent' = [agent EXCEPT !.state = "gone", !.on = 0, !.job = FALSE]
    /\ UNCHANGED <<idleRpc, session, observed>> /\ AgentFrame

-----------------------------------------------------------------------------
(* The exit watcher. *)

Foreground == IF agent.state \in {"off", "booting", "gone"} THEN "shell" ELSE "agent"

\* Mutant: a shell in the foreground always means that the agent has exited.
AdvanceHasty(state) == [state |-> "running", stop |-> Foreground = "shell"]

\* advance_agent_watch_state
Advance(state) ==
    IF state = "waiting"
    THEN [state |-> IF Foreground = "shell" THEN "waiting" ELSE "running", stop |-> FALSE]
    ELSE [state |-> "running", stop |-> Foreground = "shell"]

\* agent_exited asks the server for WorkerStop, and ends the process when that
\* fails; either way the container ends.
Watching == Bound /\ main # "launch" /\ watch # "stopped"
WatchFrame == UNCHANGED <<main, buf, idleRpc, typing, deferred, session, agent, reports, idles, server,
                          observed, dispatches, redrives, pauses, loose>>

\* One poll of a design worker; other workers are only asked for a dead pane.
Watch ==
    /\ Watching /\ DesignWorker
    /\ watch' = IF Advance(watch).stop THEN "stopped" ELSE Advance(watch).state
    /\ WatchFrame /\ UNCHANGED faults

\* The pane could not be queried.
ProbeFailed ==
    /\ Watching /\ Fault
    /\ watch' = "stopped"
    /\ WatchFrame

-----------------------------------------------------------------------------

Init ==
    /\ main = "bind" /\ buf = NoBuffer /\ idleRpc = "none"
    /\ typing = <<>> /\ deferred = <<>> /\ session = <<>> /\ reports = <<>> /\ idles = 0
    /\ agent = [state |-> "off", on |-> 0, context |-> {}, job |-> FALSE]
    /\ server = [expects |-> FALSE, stalled |-> FALSE]
    /\ watch = "waiting"
    /\ loaded = 0 /\ overlapped = {} /\ unheeded = {} /\ asked = {}
    /\ finished = {} /\ reported = {}
    /\ dispatches = 0 /\ redrives = 0 /\ faults = 0 /\ pauses = 0 /\ loose = 0

Idle == IdlePops \/ IdleReports \/ IdleAsks \/ IdleForwards \/ IsStalled \/ HookReturns
Agent == AgentBoots \/ AgentTakes \/ AgentStops \/ JobEnds

Next ==
    \/ Start \/ Implement \/ Design \/ AddressFeedbackTickets \/ SendMessage
    \/ TypeFirst \/ Idle \/ DeferredSend \/ ReportArrives \/ IdleArrives
    \/ StepComplete \/ PauseNudge \/ PauseEnds \/ RequestHuman
    \/ Agent \/ AgentExits \/ Watch \/ ProbeFailed

Spec == Init /\ [][Next]_vars

\* workerd's tasks run, sleeping tasks wake, calls are answered.  The agent
\* takes what is typed and ends its turns, and one that is asked again and
\* again ends its step.
FairSpec ==
    /\ Spec
    /\ WF_vars(Start) /\ WF_vars(TypeFirst) /\ WF_vars(Idle) /\ WF_vars(DeferredSend)
    /\ WF_vars(ReportArrives) /\ WF_vars(IdleArrives) /\ WF_vars(Watch) /\ WF_vars(Agent)
    /\ SF_vars(StepComplete /\ agent.on # 0 /\ agent.on \notin finished)

\* No fair step is left out by this bound: none of them needs a trouble.
Bounded == redrives + faults + 2 * (pauses + loose) <= MaxTroubles

-----------------------------------------------------------------------------
(* Properties *)

Buffers == [commands : Seq(Text), complete : BOOLEAN, step : Steps \cup {""}, suppressed : BOOLEAN]
Agents  == [state : {"off", "booting", "hook", "prompt", "busy", "gone"},
            on : 0..MaxDispatches, context : SUBSET Dispatch, job : BOOLEAN]

\* Every variable holds a value of its kind.
TypeOK ==
    /\ main \in {"bind", "launch", "serve", "serving"}
    /\ buf \in Buffers
    /\ idleRpc \in {"none", "called", "asking", "returning"} /\ idles \in Nat
    /\ typing \in Seq(Text) /\ deferred \in Seq(Text) /\ session \in Seq(Typed) /\ reports \in Seq(0..MaxDispatches)
    /\ agent \in Agents
    /\ server \in [expects : BOOLEAN, stalled : BOOLEAN]
    /\ watch \in {"waiting", "running", "stopped"}
    /\ loaded \in 0..dispatches /\ overlapped \subseteq 1..dispatches 
    /\ unheeded \subseteq Dispatch /\ asked \subseteq Dispatch
    /\ finished \subseteq Dispatch /\ reported \subseteq 0..dispatches
    /\ dispatches \in 0..MaxDispatches /\ redrives \in 0..MaxRedrives
    /\ faults \in 0..MaxFaults /\ pauses \in 0..MaxPauses /\ loose \in 0..MaxLoose

\* The server is told that a step is complete only when the agent has finished
\* that step: step_complete names no step, so this rests on the order in which
\* buffer, flag and hook are served (and on dispatches that wait for the worker,
\* and whose clear is not answered as a message).
ReportedIsFinished == \A d \in reported \ {0} : d \in finished \cup overlapped \cup unheeded

\* An agent works in a context that holds nothing of the dispatch before, unless
\* it was still in its hook when the clear of this dispatch was typed, and took
\* it as a message: the first command has no grace, the ones that follow come
\* after the idle report that answers it, whatever was lost or late in between.
FreshContext ==
    agent.on # 0 /\ agent.on \notin overlapped \cup unheeded =>
        agent.context \subseteq {agent.on} \cup overlapped

\* "Text typed at that point ... lands in its queued-message buffer instead of
\* being executed ... Deferring the send fixes that" (spawn_deferred_send): it
\* does for every command but the first, which implement, design and
\* address_feedback_tickets type at once.
EveryClearRuns == unheeded \subseteq overlapped

\* A worker that asks for no human, is not paused and loses no call ends every
\* step it was given: an agent that stops too early is nudged until it reports.
StepsEnd ==
    \A d \in Dispatch :
        loaded = d ~> \/ loaded # d \/ faults > 0 \/ pauses > 0 \/ d \in asked \/ overlapped # {}
                      \/ buf.step = "designing" \/ agent.state = "gone"

\* "a missed nudge is harmless" (is_stalled): a step ends although the question
\* whether the worker is stalled failed once, and although an idle report came
\* while nudges were paused ("suppressing nudges for 5 minutes", pause_nudge).
MissedNudgeHarmless ==
    \A d \in Dispatch :
        loaded = d ~> \/ loaded # d \/ d \in asked \/ overlapped # {}
                      \/ buf.step = "designing" \/ agent.state = "gone" \/ watch = "stopped"

\* The first idle report reaches the server, although the agent's hook may call
\* before workerd serves.
FirstIdleHeard == main = "launch" ~> server.expects \/ dispatches > 0 \/ faults > 0 \/ agent.state = "gone"

\* The watcher stops no container whose agent is at work or has yet to start,
\* unless a query of the pane failed.
StopsOnlyTheGone == watch = "stopped" => agent.state = "gone" \/ faults > 0

\* An agent seen running whose process ends takes its container with it.
ExitNoticed == agent.state = "gone" /\ watch = "running" ~> watch = "stopped"
=============================================================================
