----------------------------- MODULE Lifecycle -----------------------------
(***************************************************************************)
(* The life of one ticket's workflow, from awaiting_dispatch to done: the  *)
(* handlers of crates/server/src/workflow/handlers, the step router and    *)
(* the worker RPCs of grpc.rs that drive it, and the GitHub poller, which  *)
(* reads the pull request, records conditions and comments, and asks for   *)
(* the next status.                                                        *)
(*                                                                         *)
(* The coordinator is reduced to what it promises (module Coordinator): it *)
(* runs one handler of the ticket at a time, keeps the latest request that *)
(* arrives meanwhile, and runs the interrupted handler again after a       *)
(* crash.  The pull request and the agent are the environment.             *)
(***************************************************************************)
EXTENDS Integers, Sequences, FiniteSets

CONSTANTS
    MaxImplementCycles, \* max_implement_cycles of the project or the server
    HookOutcomes,       \* what the verification hook may do
    PushResults,        \* what `git push` and `git push --force-with-lease` may answer
    ProtectedBranch,    \* is the ticket's branch one of protected_branches?
    MergeOutcomes,      \* what `gh pr merge` may do
    CommentKinds,       \* the comments a reviewer may write
    CheckKinds,         \* the check runs that GitHub may list of the pull request
    MergeableAnswers,   \* what GitHub may say of mergeability when asked
    HumanClosings,      \* how a human may end the pull request
    AutoApprove,        \* may `ur flow autoapprove` be used?
    RedriveTargets,     \* statuses `ur flow redrive` may ask for
    RxCap,              \* capacity of the transition channel (256 in main.rs)
    MaxComments,        \* bound: comments on the pull request
    MaxPushes,          \* bound: pushes that reach GitHub
    MaxRedrives,        \* bound: redrive RPCs
    MaxTroubles,        \* bound: containers that stop, agents that ask for a human
    MaxCrashes,         \* bound: crashes of the server process
    MaxFaults           \* bound: failing calls

None == "none"
Terminal == {"done", "cancelled"}
Statuses == {"awaiting_dispatch", "implementing", "verifying", "pushing", "in_review",
             "addressing_feedback", "merging"} \cup Terminal

ASSUME OutcomesAssumption ==
    /\ HookOutcomes \subseteq {"unconfigured", "pass", "fail"}
    /\ PushResults \subseteq {"ok", "rejected", "remote_rejected", "hook_failed", "error"}
    /\ ProtectedBranch \in BOOLEAN
    /\ MergeOutcomes \subseteq {"ok", "refused", "error"}
    /\ CommentKinds \subseteq {"approve", "respond", "other"}
    /\ CheckKinds \subseteq {"ignored", "running", "passed", "failed"}
    /\ MergeableAnswers \subseteq {"unknown", "mergeable", "conflict"}
    /\ HumanClosings \subseteq {"merged", "closed"}
    /\ AutoApprove \in BOOLEAN
    /\ RedriveTargets \subseteq Statuses \ Terminal
ASSUME LimitsAssumption ==
    /\ {MaxImplementCycles, RxCap, MaxComments, MaxPushes, MaxRedrives, MaxTroubles, MaxCrashes,
        MaxFaults} \subseteq Nat
    /\ RxCap > 0

VARIABLES
    wf,        \* the workflow row
    ticket,    \* the ticket row and its metadata
    worker,    \* the worker bound to the workflow, as workerd and the agent have it
    acks,      \* WorkflowStepComplete RPCs that the server has not read yet
    stepRpc,   \* the WorkflowStepComplete RPC being served: the row it has read
    rx,        \* the transition channel
    task,      \* the handler that runs for the ticket
    pending,   \* the request that waits for it
    poll,      \* the poller's pass over the ticket
    gh,        \* the pull request on GitHub
    comments,  \* its conversation, oldest first
    seen,      \* workflow_comments: the comments recorded
    created    \* workflow_comments: those with feedback_created

\* Observers: implement RPCs sent since the cycle counter was last zero, the
\* comments the agent was shown, and who merged.
VARIABLES dispatches, offered, mergedBy

VARIABLES pushes, redrives, troubles, crashes, faults

server   == <<acks, stepRpc, rx, task, pending, poll>>
remote   == <<gh, comments, mergedBy>>
feedback == <<seen, created, offered>>
counters == <<pushes, redrives, troubles, crashes, faults>>
vars == <<wf, ticket, worker, server, remote, feedback, dispatches, counters>>

Row == [status : Statuses, stalled : BOOLEAN, cycles : Nat, mode : {None, "now", "later"},
        ci : {"pending", "succeeded", "failed"},
        mergeable : {"unknown", "mergeable", "conflict"},
        review : {"pending", "approved", "changes_requested"}]
\* meta: "number" has pr_number only, "full" has gh_repo too.
TicketRow == [closed : BOOLEAN, branch : BOOLEAN, meta : {None, "number", "full"},
              autoapprove : BOOLEAN]
\* up: the container runs; linked: the server's rows say so and hold its slot.
Worker == [up : BOOLEAN, linked : BOOLEAN, agentStalled : BOOLEAN,
           step : {None, "implementing", "addressing_feedback"}, commitAt : 0..MaxComments]
TaskPc == {"status", "limit", "dispatch", "feedback", "hook", "push", "pr", "pr_number",
           "gh_repo", "conditions", "gate", "kill", "merge", "kill_closed", "finish", "close", "noop"}
NoTask == [target |-> None, pc |-> None]
Task == [target : Statuses, pc : TaskPc] \cup {NoTask}
Poll == [pc : {"idle", "meta", "load", "ci", "mergeable", "review", "evaluate", "manual", "kill",
               "reopen", "record", "send"},
         ci : {None, "pending", "succeeded", "failed"},
         mergeable : {None, "unknown", "mergeable", "conflict"},
         review : {None, "pending", "approved", "changes_requested"},
         signal : {None, "approve", "respond", "merged", "closed", "pending"},
         unseen : 0..MaxComments,
         target : {None, "addressing_feedback", "merging"},
         mode : {None, "now", "later"}]
NoPoll == [pc |-> "idle", ci |-> None, mergeable |-> None, review |-> None, signal |-> None,
           unseen |-> 0, target |-> None, mode |-> None]
NoStep == [status |-> None, mode |-> None]
\* stale: a commit on the branch is newer than the comments up to this one.
PullRequest == [state : {None, "open", "merged", "closed"}, stale : 0..MaxComments]

-----------------------------------------------------------------------------
(* workflow_repo.rs: an update touches the row only while it is active, and *)
(* get_workflow_by_ticket finds it only then.                               *)

Active == wf.status \notin Terminal

\* Mutant: the update does not look at the status of the row.
UpdatedAlways(row) == row

Updated(row) == IF Active THEN row ELSE wf

Room == Len(rx) < RxCap

\* transition_tx.send: the sender waits for room in the channel.
Send(s) == Room /\ rx' = Append(rx, s)

\* A dispatch that is counted and not yet sent is paid from the old budget.
FreshBudget == IF task.pc = "dispatch" THEN -1 ELSE 0

Fault == faults < MaxFaults /\ faults' = faults + 1

-----------------------------------------------------------------------------
(* The coordinator: one handler at a time, the latest request waits. *)

Begin(s) == [target |-> s, pc |-> "status"]

HandleRequest ==
    /\ rx # <<>>
    /\ rx' = Tail(rx)
    /\ IF task = NoTask
       THEN task' = Begin(Head(rx)) /\ UNCHANGED pending
       ELSE pending' = Head(rx) /\ UNCHANGED task
    /\ UNCHANGED <<wf, ticket, worker, acks, stepRpc, poll, remote, feedback, dispatches,
                   counters>>

TaskAt(pc) == task.pc = pc

Goto(pc) == task' = [task EXCEPT !.pc = pc]

\* The handler returned: a failure stalls the workflow, and the request that
\* waited is taken up.
Finish(ok, row) ==
    /\ wf' = IF Active /\ ~ok THEN [row EXCEPT !.stalled = TRUE] ELSE row
    /\ task' = IF pending = None THEN NoTask ELSE Begin(pending)
    /\ pending' = None

Fail == Finish(FALSE, wf)

FirstStep(s) ==
    CASE s = "implementing"        -> "limit"
      [] s = "verifying"           -> "hook"
      [] s = "pushing"             -> "push"
      [] s = "addressing_feedback" -> "feedback"
      [] s = "merging"             -> "gate"
      [] OTHER                     -> "noop"

TaskFrame == UNCHANGED <<acks, stepRpc, poll, comments>>

\* run_handler writes the status before it calls the handler.
TaskStatus ==
    /\ TaskAt("status")
    /\ wf' = Updated([wf EXCEPT !.status = task.target])
    /\ Goto(FirstStep(task.target))
    /\ TaskFrame
    /\ UNCHANGED <<ticket, worker, rx, pending, gh, mergedBy, feedback, dispatches, counters>>

\* AwaitingDispatchHandler and ReviewStartHandler do nothing.
TaskNoop ==
    /\ TaskAt("noop")
    /\ Finish(TRUE, wf)
    /\ TaskFrame
    /\ UNCHANGED <<ticket, worker, rx, gh, mergedBy, feedback, dispatches, counters>>

-----------------------------------------------------------------------------
(* ImplementHandler *)

\* Mutant: one cycle too many.
LimitReachedLate == wf.cycles > MaxImplementCycles

LimitReached == wf.cycles >= MaxImplementCycles

\* check_cycle_limit, then increment_implement_cycles
TaskLimit ==
    /\ TaskAt("limit")
    /\ \/ ~Active /\ Fail
       \/ /\ Active /\ LimitReached
          /\ Finish(TRUE, [wf EXCEPT !.stalled = TRUE])
       \/ /\ Active /\ ~LimitReached
          /\ wf' = [wf EXCEPT !.cycles = @ + 1]
          /\ Goto("dispatch")
          /\ UNCHANGED pending
    /\ TaskFrame
    /\ UNCHANGED <<ticket, worker, rx, gh, mergedBy, feedback, dispatches, counters>>

\* The worker row must be running; its branch is kept on the ticket before
\* the implement RPC is sent.
TaskDispatch ==
    /\ TaskAt("dispatch")
    /\ \/ /\ ~(Active /\ worker.linked)
          /\ Fail /\ UNCHANGED <<ticket, worker, dispatches, faults>>
       \/ /\ Active /\ worker.linked /\ worker.up
          /\ ticket' = [ticket EXCEPT !.branch = TRUE]
          /\ worker' = [worker EXCEPT !.step = "implementing"]
          /\ dispatches' = dispatches + 1
          /\ Finish(TRUE, wf) /\ UNCHANGED faults
       \/ /\ Active /\ worker.linked
          /\ \/ ~worker.up /\ UNCHANGED faults
             \/ worker.up /\ Fault
          /\ ticket' \in {ticket, [ticket EXCEPT !.branch = TRUE]}
          /\ Fail /\ UNCHANGED <<worker, dispatches>>
    /\ TaskFrame
    /\ UNCHANGED <<rx, gh, mergedBy, feedback, pushes, redrives, troubles, crashes>>

-----------------------------------------------------------------------------
(* VerifyHandler and PushHandler *)

\* Without a hook, or when it cannot run, verification passes; without a
\* configuration of the project, before the workflow and its worker are looked up.
TaskHook ==
    /\ TaskAt("hook")
    /\ \/ ~(Active /\ worker.linked) /\ Fail /\ UNCHANGED rx
       \/ \E out \in HookOutcomes :
              /\ out = "unconfigured" \/ (Active /\ worker.linked)
              /\ Send(IF out = "fail" THEN "implementing" ELSE "pushing")
              /\ Finish(TRUE, wf)
    /\ TaskFrame
    /\ UNCHANGED <<ticket, worker, gh, mergedBy, feedback, dispatches, counters>>

\* perform_non_protected_retry: a force push that is rejected as well asks the
\* agent for a rebase.
AfterForcePush(result) ==
    CASE result \in {"rejected", "remote_rejected", "hook_failed"} -> "implementing"
      [] OTHER -> result

\* handle_push_rejected: the push is retried by force unless the branch is
\* protected.
AfterRejection ==
    IF ProtectedBranch THEN {"agent_stalled"} ELSE {AfterForcePush(r) : r \in PushResults}

\* What the handler does about the result of the push ("ok" is also a forced
\* update and nothing to push).
AfterPush(result) ==
    CASE result = "rejected"        -> AfterRejection
      [] result = "remote_rejected" -> {"agent_stalled"}
      [] result = "hook_failed"     -> {"implementing"}
      [] OTHER                      -> {result}

\* The push is over: there is a pull request to make, an agent to stall or to
\* send back, or an error to report.
PushSucceeded ==
    /\ pushes < MaxPushes
    /\ pushes' = pushes + 1
    /\ gh' = [gh EXCEPT !.stale = worker.commitAt]
    /\ Goto("pr")
    /\ UNCHANGED <<wf, worker, rx, pending>>

StallAgent ==
    /\ worker' = [worker EXCEPT !.agentStalled = TRUE]
    /\ Finish(TRUE, wf) /\ UNCHANGED <<rx, gh, pushes>>

PushSentBack ==
    /\ Send("implementing")
    /\ Finish(TRUE, wf) /\ UNCHANGED <<worker, gh, pushes>>

TaskPush ==
    /\ TaskAt("push")
    /\ \/ /\ ~(ticket.branch /\ Active /\ worker.linked)
          /\ Fail /\ UNCHANGED <<worker, rx, gh, pushes>>
       \/ /\ ticket.branch /\ Active /\ worker.linked
          /\ \E after \in UNION {AfterPush(r) : r \in PushResults} :
                \/ after = "ok" /\ PushSucceeded
                \/ after = "agent_stalled" /\ StallAgent
                \/ after = "implementing" /\ PushSentBack
                \/ after = "error" /\ Fail /\ UNCHANGED <<worker, rx, gh, pushes>>
    /\ TaskFrame
    /\ UNCHANGED <<ticket, mergedBy, feedback, dispatches, redrives, troubles, crashes, faults>>

\* ensure_pr: a ticket that has pr_number gets no second pull request, and
\* GitHub refuses a second one for the branch.
TaskEnsurePr ==
    /\ TaskAt("pr")
    /\ \/ ticket.meta # None /\ Goto("conditions") /\ UNCHANGED <<wf, pending, gh, faults>>
       \/ /\ ticket.meta = None /\ gh.state # "open"
          /\ gh' = [gh EXCEPT !.state = "open"]
          /\ Goto("pr_number")
          /\ UNCHANGED <<wf, pending, faults>>
       \/ ticket.meta = None /\ gh.state = "open" /\ Fail /\ UNCHANGED <<gh, faults>>
       \/ ticket.meta = None /\ Fault /\ Fail /\ UNCHANGED gh
    /\ TaskFrame
    /\ UNCHANGED <<ticket, worker, rx, mergedBy, feedback, dispatches,
                   pushes, redrives, troubles, crashes>>

\* set_meta, twice: a failure leaves a pull request whose number or repository
\* the ticket does not have.
TaskPrMeta ==
    /\ task.pc \in {"pr_number", "gh_repo"}
    /\ \/ /\ ticket' = [ticket EXCEPT !.meta = IF TaskAt("pr_number") THEN "number" ELSE "full"]
          /\ Goto(IF TaskAt("pr_number") THEN "gh_repo" ELSE "conditions")
          /\ UNCHANGED <<wf, pending, faults>>
       \/ Fault /\ Fail /\ UNCHANGED ticket
    /\ TaskFrame
    /\ UNCHANGED <<worker, rx, gh, mergedBy, feedback, dispatches,
                   pushes, redrives, troubles, crashes>>

\* initialize_conditions_and_emit_event
InitialConditions ==
    [wf EXCEPT !.ci = "pending", !.mergeable = "unknown",
               !.review = IF ticket.autoapprove THEN "approved" ELSE "pending"]

TaskConditions ==
    /\ TaskAt("conditions")
    /\ Send("in_review")
    /\ Finish(TRUE, Updated(InitialConditions))
    /\ TaskFrame
    /\ UNCHANGED <<ticket, worker, gh, mergedBy, feedback, dispatches, counters>>

-----------------------------------------------------------------------------
(* FeedbackAddressHandler *)

\* The agent is given the comments that need no ticket any more, reads the
\* pull request and works on the rest.
TaskFeedback ==
    /\ TaskAt("feedback")
    /\ LET able == Active /\ ticket.meta # None /\ worker.linked
       IN  \/ ~able /\ Fail /\ UNCHANGED <<worker, offered, faults>>
           \/ /\ able /\ worker.up
              /\ worker' = [worker EXCEPT !.step = "addressing_feedback"]
              /\ offered' = offered \cup (DOMAIN comments \ created)
              /\ Finish(TRUE, wf) /\ UNCHANGED faults
           \/ /\ able
              /\ \/ ~worker.up /\ UNCHANGED faults
                 \/ worker.up /\ Fault
              /\ Fail /\ UNCHANGED <<worker, offered>>
    /\ TaskFrame
    /\ UNCHANGED <<ticket, rx, gh, mergedBy, seen, created, dispatches,
                   pushes, redrives, troubles, crashes>>

-----------------------------------------------------------------------------
(* MergeHandler *)

\* autoapprove promotes the review before the gate
Promoted == IF ticket.autoapprove THEN Updated([wf EXCEPT !.review = "approved"]) ELSE wf

\* Mutant: the review is not part of the gate.
PreMergeUnreviewed(row) == row.ci = "succeeded" /\ row.mergeable = "mergeable"

\* check_pre_merge_conditions
PreMerge(row) ==
    row.ci = "succeeded" /\ row.mergeable = "mergeable" /\ row.review = "approved"

\* get_pr: a pull request in state "closed" is taken for merged.
TaskGate ==
    /\ TaskAt("gate")
    /\ \/ /\ Active /\ PreMerge(Promoted) /\ ticket.meta = "full"
          /\ wf' = Promoted
          /\ Goto(IF gh.state = "open" THEN "kill" ELSE "kill_closed")
          /\ UNCHANGED <<pending, faults>>
       \/ /\ \/ ~(Active /\ PreMerge(Promoted) /\ ticket.meta = "full") /\ UNCHANGED faults
             \/ Fault
          /\ Finish(FALSE, Promoted)
    /\ TaskFrame
    /\ UNCHANGED <<ticket, worker, rx, gh, mergedBy, feedback, dispatches,
                   pushes, redrives, troubles, crashes>>

Stopped == [worker EXCEPT !.up = FALSE, !.linked = FALSE, !.step = None]

\* kill_worker comes before the merge.
TaskKill ==
    /\ task.pc \in {"kill", "kill_closed"}
    /\ \/ /\ worker' = Stopped
          /\ Goto(IF TaskAt("kill") THEN "merge" ELSE "finish")
          /\ UNCHANGED <<wf, pending, faults>>
       \/ Fault /\ Fail /\ UNCHANGED worker
    /\ TaskFrame
    /\ UNCHANGED <<ticket, rx, gh, mergedBy, feedback, dispatches,
                   pushes, redrives, troubles, crashes>>

\* A refused merge (conflict or rejection) asks for implementing and returns
\* Ok, so the handler goes on to finish.
MergeRefused ==
    /\ Send("implementing")
    /\ Goto("finish") /\ UNCHANGED <<wf, pending, gh, mergedBy>>

TaskMerge ==
    /\ TaskAt("merge")
    /\ \E out \in MergeOutcomes \cup (IF gh.state = "open" THEN {} ELSE {"refused"}) :
        \/ /\ out = "ok" /\ gh.state = "open"
           /\ gh' = [gh EXCEPT !.state = "merged"]
           /\ mergedBy' = "server"
           /\ Goto("finish") /\ UNCHANGED <<wf, pending, rx>>
        \/ out = "refused" /\ MergeRefused
        \/ out = "error" /\ Fail /\ UNCHANGED <<rx, gh, mergedBy>>
    /\ TaskFrame
    /\ UNCHANGED <<ticket, worker, feedback, dispatches, counters>>

Closed == [ticket EXCEPT !.closed = TRUE]

\* The workflow is done, which may fail with a warning only.
TaskFinish ==
    /\ TaskAt("finish")
    /\ \/ wf' = Updated([wf EXCEPT !.status = "done"]) /\ UNCHANGED faults
       \/ Fault /\ UNCHANGED wf
    /\ Goto("close")
    /\ TaskFrame
    /\ UNCHANGED <<pending, ticket, worker, rx, gh, mergedBy, feedback, dispatches,
                   pushes, redrives, troubles, crashes>>

\* close_ticket
TaskClose ==
    /\ TaskAt("close")
    /\ \/ Finish(TRUE, wf) /\ ticket' = Closed /\ UNCHANGED faults
       \/ Fault /\ Fail /\ UNCHANGED ticket
    /\ TaskFrame
    /\ UNCHANGED <<worker, rx, gh, mergedBy, feedback, dispatches,
                   pushes, redrives, troubles, crashes>>

TaskStep ==
    \/ TaskStatus \/ TaskNoop \/ TaskLimit \/ TaskDispatch \/ TaskHook \/ TaskPush
    \/ TaskEnsurePr \/ TaskPrMeta \/ TaskConditions \/ TaskFeedback \/ TaskGate
    \/ TaskKill \/ TaskMerge \/ TaskFinish \/ TaskClose

-----------------------------------------------------------------------------
(* The worker RPCs of grpc.rs. *)

RpcFrame == UNCHANGED <<ticket, task, pending, poll, remote, offered, seen, dispatches>>

\* update_agent_status(idle): the agent's first idle report starts the work.
AgentIdle ==
    /\ worker.up /\ worker.step = None
    /\ worker' = [worker EXCEPT !.agentStalled = FALSE]
    /\ IF wf.status = "awaiting_dispatch" THEN Send("implementing") ELSE UNCHANGED rx
    /\ RpcFrame
    /\ UNCHANGED <<wf, acks, stepRpc, created, counters>>

\* update_agent_status(stalled): the agent asks for a human.
RequestHuman ==
    /\ worker.up /\ worker.step # None /\ troubles < MaxTroubles
    /\ troubles' = troubles + 1
    /\ worker' = [worker EXCEPT !.agentStalled = TRUE]
    /\ wf' = Updated([wf EXCEPT !.stalled = TRUE])
    /\ RpcFrame
    /\ UNCHANGED <<acks, stepRpc, rx, created, pushes, redrives, crashes, faults>>

\* The agent ends its step: workerd sends WorkflowStepComplete, once.
StepComplete ==
    /\ worker.up /\ worker.step # None
    /\ worker' = [worker EXCEPT !.step = None,
                                !.commitAt = IF @ < Len(comments) /\ worker.step = "implementing"
                                             THEN Len(comments) ELSE @]
    /\ acks' = acks + 1
    /\ RpcFrame
    /\ UNCHANGED <<wf, stepRpc, rx, created, counters>>

\* handle_workflow_step_complete reads the row of the worker's ticket.
StepArrives ==
    /\ acks > 0 /\ stepRpc = NoStep
    /\ acks' = acks - 1
    /\ stepRpc' = IF Active THEN [status |-> wf.status, mode |-> wf.mode] ELSE NoStep
    /\ RpcFrame
    /\ UNCHANGED <<wf, worker, rx, created, counters>>

\* Mutant: no route after feedback.
RouteWorkOnly(status, mode) == IF status = "implementing" THEN "verifying" ELSE None

\* WorkerdNextStepRouter
Route(status, mode) ==
    CASE status = "implementing"        -> "verifying"
      [] status = "addressing_feedback" -> IF mode = "now" THEN "implementing" ELSE "merging"
      [] OTHER                          -> None

\* The pending comments are marked before the transition is sent.
StepRoutes ==
    /\ stepRpc # NoStep
    /\ stepRpc' = NoStep
    /\ created' = IF stepRpc.status = "addressing_feedback" THEN seen ELSE created
    /\ LET to == Route(stepRpc.status, stepRpc.mode)
       IN  IF to = None THEN UNCHANGED rx ELSE Send(to)
    /\ RpcFrame
    /\ UNCHANGED <<wf, worker, acks, counters>>

\* redrive_ticket: clears the stall and the cycle counter, then sends.
Redrive(s) ==
    /\ redrives < MaxRedrives
    /\ redrives' = redrives + 1
    /\ wf' = Updated([wf EXCEPT !.stalled = FALSE, !.cycles = 0])
    /\ dispatches' = IF Active THEN FreshBudget ELSE dispatches
    /\ Send(s)
    /\ UNCHANGED <<ticket, worker, acks, stepRpc, task, pending, poll, remote, feedback,
                   pushes, troubles, crashes, faults>>

\* ur flow autoapprove
SetAutoApprove ==
    /\ AutoApprove /\ ~ticket.autoapprove
    /\ ticket' = [ticket EXCEPT !.autoapprove = TRUE]
    /\ UNCHANGED <<wf, worker, server, remote, feedback, dispatches, counters>>

-----------------------------------------------------------------------------
(* GithubPollerManager: one pass over the ticket, call by call. *)

PollAt(pc) == poll.pc = pc

PollFrame == UNCHANGED <<acks, stepRpc, task, pending, remote, created, offered,
                         pushes, redrives, troubles, crashes>>

\* ticket_ids_by_workflow_status
PollList ==
    /\ PollAt("idle") /\ wf.status = "in_review"
    /\ poll' = [poll EXCEPT !.pc = "meta"]
    /\ PollFrame /\ UNCHANGED <<wf, ticket, worker, rx, seen, dispatches, faults>>

\* Only a ticket with pr_number and gh_repo is looked at, and an autoapproved
\* one is sent on at once.
PollMeta ==
    /\ PollAt("meta")
    /\ poll' = CASE ticket.meta # "full" -> NoPoll
                 [] ticket.meta = "full" /\ ticket.autoapprove ->
                        [NoPoll EXCEPT !.pc = "send", !.target = "addressing_feedback",
                                       !.mode = "later"]
                 [] OTHER -> [poll EXCEPT !.pc = "load"]
    /\ PollFrame /\ UNCHANGED <<wf, ticket, worker, rx, seen, dispatches, faults>>

\* The row as the rest of the pass uses it, whatever its status is by now.
PollLoad ==
    /\ PollAt("load")
    /\ poll' = IF Active
               THEN [poll EXCEPT !.pc = "ci", !.ci = wf.ci, !.mergeable = wf.mergeable,
                                 !.review = wf.review]
               ELSE NoPoll
    /\ PollFrame /\ UNCHANGED <<wf, ticket, worker, rx, seen, dispatches, faults>>

\* evaluate_ci_runs, of the check runs whose names the project does not ignore:
\* one failure is enough while others still run, and no check is a success.
CiStatus(runs) ==
    CASE "failed" \in runs  -> "failed"
      [] "running" \in runs -> "pending"
      [] OTHER              -> "succeeded"

CiAnswers == {CiStatus(runs \ {"ignored"}) : runs \in SUBSET CheckKinds}

\* A condition is written when GitHub's answer differs from the row read; a
\* call that fails leaves what was read.
PollCi ==
    /\ PollAt("ci")
    /\ \/ \E now \in CiAnswers :
            /\ wf' = IF now # poll.ci THEN Updated([wf EXCEPT !.ci = now]) ELSE wf
            /\ poll' = [poll EXCEPT !.pc = "mergeable", !.ci = now]
            /\ UNCHANGED faults
       \/ /\ Fault
          /\ poll' = [poll EXCEPT !.pc = "mergeable"]
          /\ UNCHANGED wf
    /\ PollFrame /\ UNCHANGED <<ticket, worker, rx, seen, dispatches>>

\* check_mergeable answers "unknown" when it fails.
PollMergeable ==
    /\ PollAt("mergeable")
    /\ \E now \in MergeableAnswers \cup {"unknown"} :
        /\ IF now \in MergeableAnswers THEN UNCHANGED faults ELSE Fault
        /\ wf' = IF now # poll.mergeable THEN Updated([wf EXCEPT !.mergeable = now]) ELSE wf
        /\ poll' = [poll EXCEPT !.pc = "review", !.mergeable = now]
    /\ PollFrame /\ UNCHANGED <<ticket, worker, rx, seen, dispatches>>

Unseen == DOMAIN comments \ seen

Newest == CHOOSE i \in Unseen : \A j \in Unseen : j <= i

\* check_review_signal: the newest unseen comment speaks, unless it is one of
\* the first `stale`, which a commit came after.
SignalAfter(stale) ==
    IF gh.state \in {"merged", "closed"} THEN gh.state
    ELSE IF Unseen = {} THEN "pending"
    ELSE IF Newest <= stale \/ comments[Newest] = "other" THEN "pending"
    ELSE comments[Newest]

ReviewSignal == SignalAfter(gh.stale)

\* Mutant: an approval is not written down.
ReviewOfChanges(signal, current) == IF signal = "respond" THEN "changes_requested" ELSE current

ReviewOf(signal, current) ==
    CASE signal = "approve" -> "approved"
      [] signal = "respond" -> "changes_requested"
      [] OTHER              -> current

\* When the commits cannot be read, an outdated comment speaks.
PollReview ==
    /\ PollAt("review")
    /\ \/ \E signal \in {ReviewSignal, SignalAfter(0)} :
          LET review == ReviewOf(signal, poll.review)
          IN  /\ IF signal = ReviewSignal THEN UNCHANGED faults ELSE Fault
              /\ wf' = IF review # poll.review THEN Updated([wf EXCEPT !.review = review]) ELSE wf
              /\ poll' = [poll EXCEPT !.pc = "evaluate", !.review = review, !.signal = signal,
                                      !.unseen = IF gh.state = "open" THEN Cardinality(Unseen)
                                                 ELSE 0]
       \/ /\ Fault
          /\ poll' = [poll EXCEPT !.pc = "evaluate", !.signal = "pending"]
          /\ UNCHANGED wf
    /\ PollFrame /\ UNCHANGED <<ticket, worker, rx, seen, dispatches>>

\* evaluate_transition, in the order of its tests.
IsMerged   == poll.signal = "merged"
IsClosed   == poll.signal = "closed"
IsChanges  == ~IsMerged /\ ~IsClosed /\ poll.review = "changes_requested"
IsFailure  == /\ ~IsMerged /\ ~IsClosed /\ ~IsChanges
              /\ poll.ci = "failed" \/ poll.mergeable = "conflict"
IsGreen    == /\ ~IsMerged /\ ~IsClosed /\ ~IsChanges /\ ~IsFailure
              /\ poll.review = "approved" /\ poll.ci = "succeeded" /\ poll.mergeable = "mergeable"

\* Feedback is skipped when at most one comment is unseen.
TargetFor(unseen) == IF unseen <= 1 THEN "merging" ELSE "addressing_feedback"

Record(target, mode) == poll' = [NoPoll EXCEPT !.pc = "record", !.target = target, !.mode = mode]

\* handle_manual_merge: the merge proves the conditions; the comments are
\* counted by a call of their own.
PollManualMerge ==
    /\ \/ /\ PollAt("evaluate") /\ IsMerged
          /\ wf' = Updated([wf EXCEPT !.review = "approved", !.ci = "succeeded",
                                      !.mergeable = "mergeable"])
          /\ poll' = [NoPoll EXCEPT !.pc = "manual"]
          /\ UNCHANGED faults
       \/ /\ PollAt("manual")
          /\ \/ Record(TargetFor(Cardinality(Unseen)), "later") /\ UNCHANGED faults
             \/ Record(TargetFor(0), "later") /\ Fault
          /\ UNCHANGED wf
    /\ PollFrame /\ UNCHANGED <<ticket, worker, rx, seen, dispatches>>

\* Mutant: the workflow is cancelled and its worker left alone.
KillNobody == [NoPoll EXCEPT !.pc = "reopen"]

\* The worker is the one of the active row.
KillNext == [NoPoll EXCEPT !.pc = IF Active THEN "kill" ELSE "reopen"]

\* cancel_workflow_and_revert: the row first, then the worker, if its lookup
\* succeeded, then the ticket.
PollCancel ==
    /\ \/ /\ PollAt("evaluate") /\ IsClosed
          /\ \/ /\ wf' = Updated([wf EXCEPT !.status = "cancelled"])
                /\ \/ poll' = KillNext /\ UNCHANGED faults
                   \/ poll' = [NoPoll EXCEPT !.pc = "reopen"] /\ Fault
             \/ Fault /\ poll' = NoPoll /\ UNCHANGED wf
          /\ UNCHANGED <<worker, ticket>>
       \/ /\ PollAt("kill")
          /\ \/ worker' = Stopped /\ UNCHANGED faults
             \/ Fault /\ UNCHANGED worker
          /\ poll' = [poll EXCEPT !.pc = "reopen"]
          /\ UNCHANGED <<wf, ticket>>
       \/ /\ PollAt("reopen")
          /\ ticket' = [ticket EXCEPT !.closed = FALSE]
          /\ poll' = NoPoll
          /\ UNCHANGED <<wf, worker, faults>>
    /\ PollFrame /\ UNCHANGED <<rx, seen, dispatches>>

PollChangesRequested ==
    /\ PollAt("evaluate") /\ IsChanges
    /\ wf' = Updated([wf EXCEPT !.cycles = 0])
    /\ dispatches' = IF Active THEN FreshBudget ELSE dispatches
    /\ Record("addressing_feedback", "now")
    /\ PollFrame /\ UNCHANGED <<ticket, worker, rx, seen, faults>>

PollFailure ==
    /\ PollAt("evaluate") /\ IsFailure
    /\ Send("implementing")
    /\ poll' = NoPoll
    /\ PollFrame /\ UNCHANGED <<wf, ticket, worker, seen, dispatches, faults>>

PollGreen ==
    /\ PollAt("evaluate") /\ IsGreen
    /\ Record(TargetFor(poll.unseen), "later")
    /\ PollFrame /\ UNCHANGED <<wf, ticket, worker, rx, seen, dispatches, faults>>

PollStay ==
    /\ PollAt("evaluate")
    /\ ~(IsMerged \/ IsClosed \/ IsChanges \/ IsFailure \/ IsGreen)
    /\ poll' = NoPoll
    /\ PollFrame /\ UNCHANGED <<wf, ticket, worker, rx, seen, dispatches, faults>>

\* record_comments_and_transition fetches the comments again and records them
\* all, whatever was counted before.
PollRecord ==
    /\ PollAt("record")
    /\ \/ seen' = DOMAIN comments /\ UNCHANGED faults
       \/ Fault /\ UNCHANGED seen
    /\ poll' = [poll EXCEPT !.pc = "send"]
    /\ PollFrame /\ UNCHANGED <<wf, ticket, worker, rx, dispatches>>

\* set_feedback_mode_and_transition: no mode, no transition.
PollSend ==
    /\ PollAt("send")
    /\ \/ /\ wf' = Updated([wf EXCEPT !.mode = poll.mode])
          /\ Send(poll.target)
          /\ UNCHANGED faults
       \/ Fault /\ UNCHANGED <<wf, rx>>
    /\ poll' = NoPoll
    /\ PollFrame /\ UNCHANGED <<ticket, worker, seen, dispatches>>

PollStep ==
    \/ PollList \/ PollMeta \/ PollLoad \/ PollCi \/ PollMergeable \/ PollReview \/ PollManualMerge
    \/ PollCancel \/ PollChangesRequested \/ PollFailure \/ PollGreen \/ PollStay
    \/ PollRecord \/ PollSend

-----------------------------------------------------------------------------
(* GitHub, the reviewers, containers that stop, and the server's crashes. *)

GhFrame == UNCHANGED <<wf, ticket, worker, server, feedback, dispatches, counters>>

Comment(kind) ==
    /\ gh.state \in {"open", "merged"} /\ Len(comments) < MaxComments
    /\ comments' = Append(comments, kind)
    /\ GhFrame /\ UNCHANGED <<gh, mergedBy>>

HumanCloses(how) ==
    /\ gh.state = "open"
    /\ gh' = [gh EXCEPT !.state = how]
    /\ mergedBy' = IF how = "merged" THEN "human" ELSE mergedBy
    /\ GhFrame /\ UNCHANGED comments

WorkerDies ==
    /\ worker.up /\ troubles < MaxTroubles
    /\ troubles' = troubles + 1
    /\ worker' = [worker EXCEPT !.up = FALSE, !.step = None]
    /\ UNCHANGED <<wf, ticket, server, remote, feedback, dispatches,
                   pushes, redrives, crashes, faults>>

\* The process dies and starts again: the channel, the poller's pass and the
\* RPC being served are gone, an RPC in flight may be, and the handler that ran is run again
\* from its intent unless the workflow is stalled.  Two intents of a ticket
\* at once are module Coordinator's concern.
Crash ==
    /\ crashes < MaxCrashes /\ pending = None
    /\ crashes' = crashes + 1
    /\ rx' = <<>>
    /\ poll' = NoPoll
    /\ stepRpc' = NoStep
    /\ acks' \in 0..acks
    /\ task' = IF task = NoTask \/ (Active /\ wf.stalled) THEN NoTask ELSE Begin(task.target)
    /\ UNCHANGED <<wf, ticket, worker, pending, remote, feedback, dispatches,
                   pushes, redrives, troubles, faults>>

-----------------------------------------------------------------------------

\* create_workflow and launch have run: the row is bound to a worker that is
\* up, and the transition to awaiting_dispatch waits in the channel.
Init ==
    /\ wf = [status |-> "awaiting_dispatch", stalled |-> FALSE, cycles |-> 0, mode |-> None,
             ci |-> "pending", mergeable |-> "unknown", review |-> "pending"]
    /\ ticket = [closed |-> FALSE, branch |-> FALSE, meta |-> None, autoapprove |-> FALSE]
    /\ worker = [up |-> TRUE, linked |-> TRUE, agentStalled |-> FALSE, step |-> None,
                 commitAt |-> 0]
    /\ acks = 0 /\ stepRpc = NoStep
    /\ rx = <<"awaiting_dispatch">>
    /\ task = NoTask /\ pending = None
    /\ poll = NoPoll
    /\ gh = [state |-> None, stale |-> 0]
    /\ comments = <<>> /\ seen = {} /\ created = {} /\ offered = {}
    /\ dispatches = 0 /\ mergedBy = None
    /\ pushes = 0 /\ redrives = 0 /\ troubles = 0 /\ crashes = 0 /\ faults = 0

Next ==
    \/ HandleRequest \/ TaskStep \/ PollStep
    \/ AgentIdle \/ RequestHuman \/ StepComplete \/ StepArrives \/ StepRoutes
    \/ SetAutoApprove \/ WorkerDies \/ Crash
    \/ \E s \in RedriveTargets : Redrive(s)
    \/ \E k \in CommentKinds : Comment(k)
    \/ \E h \in HumanClosings : HumanCloses(h)

Spec == Init /\ [][Next]_vars

\* The server's tasks run, the poller's timer ticks, the agent ends the steps it
\* is given and reports that it is idle.  Reviewers and operators owe nothing.
FairSpec ==
    /\ Spec
    /\ WF_vars(HandleRequest) /\ WF_vars(TaskStep) /\ WF_vars(PollStep)
    /\ WF_vars(AgentIdle) /\ WF_vars(StepComplete) /\ WF_vars(StepArrives)
    /\ WF_vars(StepRoutes)

-----------------------------------------------------------------------------
(* Properties *)

\* Every variable holds a value of its kind.
TypeOK ==
    /\ wf \in Row /\ ticket \in TicketRow /\ worker \in Worker
    /\ acks \in Nat
    /\ stepRpc \in [status : Statuses \ Terminal, mode : {None, "now", "later"}] \cup {NoStep}
    /\ rx \in Seq(Statuses \ Terminal) /\ Len(rx) <= RxCap
    /\ task \in Task /\ pending \in (Statuses \ Terminal) \cup {None}
    /\ poll \in Poll /\ gh \in PullRequest
    /\ comments \in Seq({"approve", "respond", "other"})
    /\ created \subseteq seen /\ seen \subseteq DOMAIN comments /\ offered \subseteq DOMAIN comments
    /\ mergedBy \in {None, "human", "server"}
    /\ dispatches \in Nat \cup {-1}
    /\ {pushes, redrives, troubles, crashes, faults} \subseteq Nat

\* Between two resets of the counter, by a redrive or by a reviewer who asks
\* for changes, the agent is sent to implement at most max_implement_cycles
\* times, whatever fails, crashes or comes twice (dispatch_implement.rs counts
\* before it sends).
DispatchesBounded == dispatches <= MaxImplementCycles

\* The server merges a pull request only if someone approved it, with a
\* comment or with autoapprove, whichever way the workflow got to merging.
MergeNeedsApproval ==
    mergedBy = "server" =>
        ticket.autoapprove \/ \E i \in DOMAIN comments : comments[i] = "approve"

\* A workflow that has ended, by merging or because the pull request was
\* closed, leaves no worker running once the poller has cleaned up.  A crash or
\* a failing stop in between may.
NoOrphanWorker ==
    wf.status \in Terminal /\ poll.pc # "kill" /\ crashes = 0 /\ faults = 0 => ~worker.up

\* A workflow that is done or cancelled stays so, whatever requests, RPCs and
\* passes of the poller were still on their way (every update of
\* workflow_repo.rs looks for an active row).
EndedStaysEnded == [][wf.status \in Terminal => wf'.status = wf.status]_vars

Stuck ==
    wf.status \notin Terminal \cup {"in_review"} /\ ~wf.stalled /\ worker.up /\ ~worker.agentStalled

\* While the server runs, a workflow that nobody has to look at moves on: it
\* gets to review or to its end, or it is marked as stalled (the handlers, the
\* step router and the coordinator's queue drop no transition that matters).
NeverSilentlyStuck == Stuck ~> ~Stuck

\* An approval that stands on a pull request in review, with checks that pass,
\* ends in a merge, unless the workflow stalls or a pass of the poller that had
\* read an older comment sends the work back, and a newer commit outdates the
\* approval (github_poller.rs, feedback_address.rs, merge.rs).
ApprovedMerges ==
    (wf.status = "in_review" /\ gh.state = "open" /\ ReviewSignal = "approve")
        ~> (mergedBy = "server" \/ wf.stalled \/ gh.stale = Len(comments))

\* A merge that GitHub refuses does not end the workflow: "transitions to
\* Implementing" (docs/codeflows/lifecycle-workflow.md, the comment on
\* MergeHandler).
RefusedIsNotDone == wf.status = "done" => gh.state # "open"

\* A pull request closed without a merge cancels the workflow and is never
\* taken for merged work.
ClosedIsNotDone == wf.status = "done" => gh.state # "closed"

\* After a manual merge, feedback is skipped only "if no unseen comments to
\* address": a comment that is no command and was recorded has been shown to the
\* agent before the workflow is done.
FeedbackOffered ==
    wf.status = "done" => \A i \in seen : comments[i] = "other" => i \in offered

\* "Changes requested takes priority": the server does not merge when the last
\* command it has recorded asks for changes.
RespondHeeded ==
    mergedBy = "server" /\ seen # {} =>
        comments[CHOOSE i \in seen : \A j \in seen : j <= i] # "respond"

\* `ur flow autoapprove` lets the workflow go from review to the merge on its own.
AutoApproveMerges ==
    (ticket.autoapprove /\ wf.status = "in_review") ~> mergedBy = "server"
=============================================================================
