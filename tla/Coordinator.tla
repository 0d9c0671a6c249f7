---------------------------- MODULE Coordinator ----------------------------
(***************************************************************************)
(* The workflow coordinator of ur-server                                   *)
(* (crates/server/src/workflow/coordinator.rs): a select! loop that reads  *)
(* cancel, completion and request channels, records every request as a     *)
(* workflow_intent row, runs handler tasks, one slot per ticket, and       *)
(* replays the intents that are left when the server starts again.         *)
(*                                                                         *)
(* What the handlers do is left open here: a handler may take any number   *)
(* of steps, send requests, stall or finish the workflow, and succeed or   *)
(* fail.  The senders of requests (worker RPCs, GitHub poller, handlers,   *)
(* CLI) are the action Submit and the RPCs of grpc_ticket.rs.              *)
(***************************************************************************)
EXTENDS Integers, Sequences, FiniteSets

CONSTANTS
    Tickets,        \* ticket ids
    Targets,        \* target statuses that requests ask for
    TaskIds,        \* identities of spawned tasks (JoinHandles)
    RxCap,          \* capacity of the transition channel (256 in main.rs)
    CancelCap,      \* capacity of the cancel channel (256 in main.rs)
    CompletionCap,  \* capacity of the completion channel (64)
    MaxRequests,    \* bound: transition requests sent in a behaviour
    MaxCrashes,     \* bound: crashes of the server process
    MaxCancels,     \* bound: cancel_workflow RPCs
    MaxRpcs,        \* bound: create/redrive/stall RPCs
    MaxFaults       \* bound: failing database calls

LifecycleStatus ==
    {"open", "design", "awaiting_dispatch", "implementing", "verifying", "pushing",
     "in_review", "addressing_feedback", "merging", "done", "cancelled"}

\* A workflow row in one of these is never updated again.
Terminal == {"done", "cancelled"}

\* The statuses build_handlers registers a handler for.
Handled == {"awaiting_dispatch", "implementing", "verifying", "pushing",
            "addressing_feedback", "merging", "in_review"}

None == "none"
NoTask == 0

ASSUME TargetsAssumption == Targets \subseteq LifecycleStatus
ASSUME TaskIdsAssumption == TaskIds \subseteq Nat \ {NoTask}
ASSUME BoundsAssumption ==
    {RxCap, CancelCap, CompletionCap, MaxRequests, MaxCrashes, MaxCancels, MaxRpcs, MaxFaults}
        \subseteq Nat

VARIABLES
    phase,         \* server process: "down", "recovering" or "running"
    rx,            \* transition channel: requests not yet received
    cancelRx,      \* cancel channel: tickets
    completionRx,  \* completion channel: tickets whose handler task ended
    inFlight,      \* ticket -> slot (running task, pending target)
    tasks,         \* the spawned handler tasks
    toRecover,     \* intents that recover() has listed and not yet processed
    intents,       \* workflow_intent rows
    wf,            \* the newest workflow row of a ticket
    lifecycle,     \* tickets.lifecycle_status
    rpc            \* the workflow RPC being served for a ticket

\* Observers: the newest accepted request, and the tickets whose
\* serialisation a cancellation or a double recovery has put in doubt.
VARIABLES latest, exposed

VARIABLES nextIntent, requests, crashes, cancels, rpcs, faults

channels == <<rx, cancelRx, completionRx>>
memory   == <<phase, inFlight, tasks, toRecover, rpc>>
database == <<intents, wf, lifecycle>>
observers == <<latest, exposed>>
counters == <<nextIntent, requests, crashes, cancels, rpcs, faults>>
vars == <<channels, memory, database, observers, counters>>

Request == [ticket : Tickets, target : Targets]
Intent == [id : Nat, ticket : Tickets, target : Targets]
TaskPc == {"status", "sync", "body", "fail", "cleanup", "notify"}
FreeTask == [ticket |-> None, target |-> None, pc |-> "free", aborted |-> FALSE]
Task == [ticket : Tickets, target : Targets, pc : TaskPc, aborted : BOOLEAN] \cup {FreeTask}
\* Two fields are observers: `target`, what the running task was spawned for,
\* and `previous`, what the task before it in this slot was spawned for.
Slot == [task : TaskIds \cup {NoTask}, target : Targets \cup {None},
         previous : Targets \cup {None}, pending : Targets \cup {None}]
WorkflowRow == [status : LifecycleStatus \cup {None}, stalled : BOOLEAN]
NoRpc == [op |-> None, target |-> None]
Rpc == [op : {"send"}, target : Targets]
       \cup [op : {"cancel_read", "cancel_signalled", "cancel_deleted"}, target : {None}]
       \cup {NoRpc}

NoSlot == [task |-> NoTask, target |-> None, previous |-> None, pending |-> None]
NoWorkflow == [status |-> None, stalled |-> FALSE]

-----------------------------------------------------------------------------
(* workflow_repo.rs: every update is restricted to active rows. *)

Active(row) == row.status \notin Terminal \cup {None}

\* update_workflow_status
WithStatus(t, s) ==
    IF Active(wf[t]) THEN [wf EXCEPT ![t].status = s] ELSE wf

\* set_workflow_stalled
Stalled(t) == IF Active(wf[t]) THEN [wf EXCEPT ![t].stalled = TRUE] ELSE wf

\* clear_workflow_stall
Unstalled(t) == IF Active(wf[t]) THEN [wf EXCEPT ![t].stalled = FALSE] ELSE wf

Live(k) == tasks[k].pc # "free"

\* A handle is reused only once its task has ended and no slot holds it.
Unused(k) == ~Live(k) /\ \A t \in Tickets : inFlight[t].task # k

NextTask(k) == Unused(k) /\ \A j \in TaskIds : Unused(j) => k <= j

\* Mutant: the request that is started stays in the slot.
SpawnKeepsPending(t, s) ==
    \E k \in TaskIds :
        /\ NextTask(k)
        /\ tasks' = [tasks EXCEPT ![k] = [ticket |-> t, target |-> s,
                                          pc |-> "status", aborted |-> FALSE]]
        /\ inFlight' = [inFlight EXCEPT ![t].task = k, ![t].target = s,
                                        ![t].previous = inFlight[t].target]

\* spawn_handler_task: start the task and put it in the ticket's slot.
Spawn(t, s) ==
    \E k \in TaskIds :
        /\ NextTask(k)
        /\ tasks' = [tasks EXCEPT ![k] = [ticket |-> t, target |-> s,
                                          pc |-> "status", aborted |-> FALSE]]
        /\ inFlight' = [inFlight EXCEPT ![t] = [task |-> k, target |-> s,
                                                 previous |-> inFlight[t].target,
                                                 pending |-> None]]

-----------------------------------------------------------------------------
(* run: the biased select! loop, cancel before completion before request. *)

HandleCancel ==
    /\ phase = "running"
    /\ cancelRx # <<>>
    /\ LET t == Head(cancelRx)
           k == inFlight[t].task
       IN  /\ inFlight' = [inFlight EXCEPT ![t] = NoSlot]
           /\ tasks' = IF k # NoTask /\ Live(k)
                       THEN [tasks EXCEPT ![k].aborted = TRUE] ELSE tasks
    /\ cancelRx' = Tail(cancelRx)
    /\ UNCHANGED <<rx, completionRx, phase, toRecover, rpc, database, observers, counters>>

\* Mutant: the pending request is spawned without looking whether there is one.
HasPendingUnchecked(t) == TRUE

HasPending(t) == inFlight[t].pending # None

HandleCompletion ==
    /\ phase = "running"
    /\ cancelRx = <<>>
    /\ completionRx # <<>>
    /\ LET t == Head(completionRx)
       IN  IF HasPending(t)
           THEN Spawn(t, inFlight[t].pending)
           ELSE /\ inFlight' = [inFlight EXCEPT ![t] = NoSlot]
                /\ UNCHANGED tasks
    /\ completionRx' = Tail(completionRx)
    /\ UNCHANGED <<rx, cancelRx, phase, toRecover, rpc, database, observers, counters>>

\* The loop takes a request only when the other two channels are empty.
ReceiveRequest ==
    /\ phase = "running"
    /\ cancelRx = <<>>
    /\ completionRx = <<>>
    /\ rx # <<>>
    /\ rx' = Tail(rx)

\* Mutant: in_flight is not consulted.
IsInFlightForgotten(t) == FALSE

IsInFlight(t) == inFlight[t] # NoSlot

\* slot.pending.replace(request)
Replaced(slot, s) == [slot EXCEPT !.pending = s]

\* The intent is written first; the request then waits in the slot of a
\* running handler, replacing the one that waited there, or is spawned.
HandleRequest ==
    /\ ReceiveRequest
    /\ LET t == Head(rx).ticket
           s == Head(rx).target
       IN  /\ intents' = intents \cup {[id |-> nextIntent, ticket |-> t, target |-> s]}
           /\ latest' = [latest EXCEPT ![t] = s]
           /\ IF IsInFlight(t)
              THEN /\ inFlight' = [inFlight EXCEPT ![t] = Replaced(inFlight[t], s)]
                   /\ UNCHANGED tasks
              ELSE Spawn(t, s)
    /\ nextIntent' = nextIntent + 1
    /\ UNCHANGED <<cancelRx, completionRx, phase, toRecover, rpc, wf, lifecycle, exposed,
                   requests, crashes, cancels, rpcs, faults>>

\* create_intent fails: the request is logged and dropped.
HandleRequestFault ==
    /\ ReceiveRequest
    /\ faults < MaxFaults
    /\ faults' = faults + 1
    /\ UNCHANGED <<cancelRx, completionRx, memory, database, observers,
                   nextIntent, requests, crashes, cancels, rpcs>>

-----------------------------------------------------------------------------
(* run_handler, inside the spawned task. *)

\* An aborted task may finish the poll it is in, and then is gone.
Advance(k, next) ==
    tasks' = [tasks EXCEPT ![k] = IF tasks[k].aborted THEN FreeTask
                                  ELSE [tasks[k] EXCEPT !.pc = next]]

TaskAt(k, pc) == phase # "down" /\ tasks[k].pc = pc

TaskUnchanged == UNCHANGED <<channels, phase, inFlight, toRecover, rpc, observers,
                             nextIntent, requests, crashes, cancels, rpcs>>

\* A database call that fails is logged and the task goes on.
Fault == faults < MaxFaults /\ faults' = faults + 1

TaskStatus(k) ==
    /\ TaskAt(k, "status")
    /\ \/ wf' = WithStatus(tasks[k].ticket, tasks[k].target) /\ UNCHANGED faults
       \/ Fault /\ UNCHANGED wf
    /\ Advance(k, "sync")
    /\ TaskUnchanged /\ UNCHANGED <<intents, lifecycle>>

TaskSync(k) ==
    /\ TaskAt(k, "sync")
    /\ \/ lifecycle' = [lifecycle EXCEPT ![tasks[k].ticket] = tasks[k].target]
          /\ UNCHANGED faults
       \/ Fault /\ UNCHANGED lifecycle
    /\ Advance(k, IF tasks[k].target \in Handled THEN "body" ELSE "cleanup")
    /\ TaskUnchanged /\ UNCHANGED <<intents, wf>>

\* What a handler writes while it runs: the implement handler stalls the
\* workflow at its cycle limit, the merge handler finishes the workflow and
\* closes the ticket.
TaskBody(k) ==
    LET t == tasks[k].ticket IN
    /\ TaskAt(k, "body")
    /\ \/ /\ tasks[k].target = "implementing"
          /\ wf' = Stalled(t)
          /\ UNCHANGED lifecycle
       \/ /\ tasks[k].target = "merging"
          /\ wf' = WithStatus(t, "done")
          /\ UNCHANGED lifecycle
       \/ /\ tasks[k].target = "merging"
          /\ lifecycle' = [lifecycle EXCEPT ![t] = "done"]
          /\ UNCHANGED wf
    /\ Advance(k, "body")
    /\ TaskUnchanged /\ UNCHANGED <<intents, faults>>

TaskReturns(k, ok) ==
    /\ TaskAt(k, "body")
    /\ Advance(k, IF ok THEN "cleanup" ELSE "fail")
    /\ TaskUnchanged /\ UNCHANGED <<database, faults>>

\* handle_failure, up to its call of cleanup_intent
TaskFail(k) ==
    /\ TaskAt(k, "fail")
    /\ \/ wf' = Stalled(tasks[k].ticket) /\ UNCHANGED faults
       \/ Fault /\ UNCHANGED wf
    /\ Advance(k, "cleanup")
    /\ TaskUnchanged /\ UNCHANGED <<intents, lifecycle>>

\* Mutant: every row of the ticket is deleted.
MatchingTicket(t, s) == {i \in intents : i.ticket = t}

\* cleanup_intent: the rows with this ticket and this target.
Matching(t, s) == {i \in intents : i.ticket = t /\ i.target = s}

TaskCleanup(k) ==
    /\ TaskAt(k, "cleanup")
    /\ \/ intents' = intents \ Matching(tasks[k].ticket, tasks[k].target)
          /\ UNCHANGED faults
       \/ Fault /\ UNCHANGED intents
    /\ Advance(k, "notify")
    /\ TaskUnchanged /\ UNCHANGED <<wf, lifecycle>>

Notified(t) == Append(completionRx, t)

TaskNotify(k) ==
    /\ TaskAt(k, "notify")
    /\ Len(completionRx) < CompletionCap
    /\ completionRx' = Notified(tasks[k].ticket)
    /\ tasks' = [tasks EXCEPT ![k] = FreeTask]
    /\ UNCHANGED <<rx, cancelRx, phase, inFlight, toRecover, rpc, database, observers, counters>>

\* An aborted task is dropped at its next suspension point.
TaskDropped(k) ==
    /\ tasks[k].aborted
    /\ tasks' = [tasks EXCEPT ![k] = FreeTask]
    /\ UNCHANGED <<channels, phase, inFlight, toRecover, rpc, database, observers, counters>>

TaskStep(k) ==
    \/ TaskStatus(k) \/ TaskSync(k) \/ TaskBody(k)
    \/ \E ok \in BOOLEAN : TaskReturns(k, ok)
    \/ TaskFail(k) \/ TaskCleanup(k) \/ TaskNotify(k) \/ TaskDropped(k)

\* What moves a task towards its end: everything but the handler's own writes.
TaskProgress(k) ==
    \/ TaskStatus(k) \/ TaskSync(k)
    \/ \E ok \in BOOLEAN : TaskReturns(k, ok)
    \/ TaskFail(k) \/ TaskCleanup(k) \/ TaskNotify(k) \/ TaskDropped(k)

-----------------------------------------------------------------------------
(* Crash and restart. *)

Crash ==
    /\ phase # "down"
    /\ crashes < MaxCrashes
    /\ crashes' = crashes + 1
    /\ phase' = "down"
    /\ rx' = <<>> /\ cancelRx' = <<>> /\ completionRx' = <<>>
    /\ inFlight' = [t \in Tickets |-> NoSlot]
    /\ tasks' = [k \in TaskIds |-> FreeTask]
    /\ toRecover' = {}
    /\ rpc' = [t \in Tickets |-> NoRpc]
    /\ exposed' = {}
    /\ UNCHANGED <<database, latest, nextIntent, requests, cancels, rpcs, faults>>

\* Mutant: nothing is recovered.
ListedNothing == {}

\* list_intents
Listed == intents

\* recover() lists the intents once, and recovers none if that fails.  A
\* ticket with two of them is exposed: both get a task.
Restart ==
    /\ phase = "down"
    /\ phase' = "recovering"
    /\ \/ toRecover' = Listed /\ UNCHANGED faults
       \/ Fault /\ toRecover' = {}
    /\ exposed' = {t \in Tickets :
                      \E i, j \in intents : i # j /\ i.ticket = t /\ j.ticket = t}
    /\ UNCHANGED <<channels, inFlight, tasks, rpc, database, latest,
                   nextIntent, requests, crashes, cancels, rpcs>>

Oldest(i, S) == i \in S /\ \A j \in S : i.id <= j.id

IsStalled(t) == Active(wf[t]) /\ wf[t].stalled

\* One turn of recover()'s loop: a stalled workflow's intent is deleted, any
\* other gets a task, with no look at in_flight.  A workflow that cannot be
\* read is taken for one that is not stalled.
Recovered(i) ==
    \/ ~IsStalled(i.ticket) /\ Spawn(i.ticket, i.target) /\ UNCHANGED <<intents, faults>>
    \/ /\ IsStalled(i.ticket)
       /\ intents' = intents \ {i} /\ UNCHANGED <<tasks, inFlight, faults>>
    \/ /\ IsStalled(i.ticket) /\ Fault
       /\ \/ Spawn(i.ticket, i.target) /\ UNCHANGED intents
          \/ UNCHANGED <<intents, tasks, inFlight>>

RecoverOne ==
    /\ phase = "recovering"
    /\ \E i \in toRecover :
        /\ Oldest(i, toRecover)
        /\ toRecover' = toRecover \ {i}
        /\ Recovered(i)
    /\ UNCHANGED <<channels, phase, rpc, wf, lifecycle, observers,
                   nextIntent, requests, crashes, cancels, rpcs>>

RecoverDone ==
    /\ phase = "recovering"
    /\ toRecover = {}
    /\ phase' = "running"
    /\ UNCHANGED <<channels, inFlight, tasks, toRecover, rpc, database, observers, counters>>

-----------------------------------------------------------------------------
(* The senders. *)

Send(t, s) ==
    /\ phase # "down"
    /\ Len(rx) < RxCap
    /\ rx' = Append(rx, [ticket |-> t, target |-> s])

CountRequest == requests < MaxRequests /\ requests' = requests + 1

\* A worker RPC, the poller or a handler sends a transition.  The sender has
\* read the workflow some time before, so nothing is known of it any more.
Submit(t, s) ==
    /\ Send(t, s)
    /\ CountRequest
    /\ UNCHANGED <<cancelRx, completionRx, memory, database, observers,
                   nextIntent, crashes, cancels, rpcs, faults>>

StartRpc(t) ==
    /\ phase # "down"
    /\ rpc[t] = NoRpc
    /\ rpcs < MaxRpcs
    /\ rpcs' = rpcs + 1

RpcUnchanged == UNCHANGED <<phase, inFlight, tasks, toRecover, completionRx, observers>>

\* create_workflow: refused while the ticket has an active workflow.
CreateWorkflow(t, s) ==
    /\ StartRpc(t) /\ CountRequest
    /\ ~Active(wf[t])
    /\ wf' = [wf EXCEPT ![t] = [status |-> s, stalled |-> FALSE]]
    /\ rpc' = [rpc EXCEPT ![t] = [op |-> "send", target |-> s]]
    /\ RpcUnchanged
    /\ UNCHANGED <<rx, cancelRx, intents, lifecycle, nextIntent, crashes, cancels, faults>>

\* redrive_ticket: clears the stall, then sends.
RedriveTicket(t, s) ==
    /\ StartRpc(t) /\ CountRequest
    /\ wf' = Unstalled(t)
    /\ rpc' = [rpc EXCEPT ![t] = [op |-> "send", target |-> s]]
    /\ RpcUnchanged
    /\ UNCHANGED <<rx, cancelRx, intents, lifecycle, nextIntent, crashes, cancels, faults>>

RpcSend(t) ==
    /\ rpc[t].op = "send"
    /\ Send(t, rpc[t].target)
    /\ rpc' = [rpc EXCEPT ![t] = NoRpc]
    /\ RpcUnchanged
    /\ UNCHANGED <<cancelRx, database, counters>>

StallWorkflow(t) ==
    /\ StartRpc(t)
    /\ wf' = Stalled(t)
    /\ RpcUnchanged
    /\ UNCHANGED <<rx, cancelRx, rpc, intents, lifecycle,
                   nextIntent, requests, crashes, cancels, faults>>

\* The poller sees the PR closed: it cancels the workflow row and reopens the
\* ticket without telling the coordinator.
PollerCancels(t) ==
    /\ phase # "down"
    /\ rpcs < MaxRpcs
    /\ rpcs' = rpcs + 1
    /\ wf' = WithStatus(t, "cancelled")
    /\ RpcUnchanged
    /\ UNCHANGED <<rx, cancelRx, rpc, intents, lifecycle,
                   nextIntent, requests, crashes, cancels, faults>>

\* cancel_active_workflow: read the workflow, signal the coordinator, (stop
\* the worker,) delete the intents, cancel the row; a failing call ends the RPC.
CancelRead(t) ==
    /\ phase # "down"
    /\ rpc[t] = NoRpc
    /\ cancels < MaxCancels
    /\ cancels' = cancels + 1
    /\ Active(wf[t])
    /\ rpc' = [rpc EXCEPT ![t].op = "cancel_read"]
    /\ RpcUnchanged
    /\ UNCHANGED <<rx, cancelRx, database, nextIntent, requests, crashes, rpcs, faults>>

CancelSignal(t) ==
    /\ rpc[t].op = "cancel_read"
    /\ Len(cancelRx) < CancelCap
    /\ cancelRx' = Append(cancelRx, t)
    /\ rpc' = [rpc EXCEPT ![t].op = "cancel_signalled"]
    /\ exposed' = exposed \cup {t}
    /\ UNCHANGED <<rx, completionRx, phase, inFlight, tasks, toRecover, database, latest, counters>>

CancelIntents(t) ==
    /\ rpc[t].op = "cancel_signalled"
    /\ \/ /\ intents' = {i \in intents : i.ticket # t}
          /\ rpc' = [rpc EXCEPT ![t].op = "cancel_deleted"]
          /\ UNCHANGED faults
       \/ Fault /\ rpc' = [rpc EXCEPT ![t] = NoRpc] /\ UNCHANGED intents
    /\ RpcUnchanged
    /\ UNCHANGED <<rx, cancelRx, wf, lifecycle, nextIntent, requests, crashes, cancels, rpcs>>

CancelStatus(t) ==
    /\ rpc[t].op = "cancel_deleted"
    /\ \/ wf' = WithStatus(t, "cancelled") /\ UNCHANGED faults
       \/ Fault /\ UNCHANGED wf
    /\ rpc' = [rpc EXCEPT ![t] = NoRpc]
    /\ RpcUnchanged
    /\ UNCHANGED <<rx, cancelRx, intents, lifecycle, nextIntent, requests, crashes, cancels, rpcs>>

RpcProgress(t) ==
    RpcSend(t) \/ CancelSignal(t) \/ CancelIntents(t) \/ CancelStatus(t)

-----------------------------------------------------------------------------
Init ==
    /\ phase = "running"
    /\ rx = <<>> /\ cancelRx = <<>> /\ completionRx = <<>>
    /\ inFlight = [t \in Tickets |-> NoSlot]
    /\ tasks = [k \in TaskIds |-> FreeTask]
    /\ toRecover = {}
    /\ intents = {}
    /\ wf = [t \in Tickets |-> NoWorkflow]
    /\ lifecycle = [t \in Tickets |-> "open"]
    /\ rpc = [t \in Tickets |-> NoRpc]
    /\ latest = [t \in Tickets |-> None]
    /\ exposed = {}
    /\ nextIntent = 0
    /\ requests = 0 /\ crashes = 0 /\ cancels = 0 /\ rpcs = 0 /\ faults = 0

CoordinatorStep ==
    HandleCancel \/ HandleCompletion \/ HandleRequest \/ HandleRequestFault

RecoverStep == RecoverOne \/ RecoverDone

SenderStep(t) ==
    \/ \E s \in Targets : Submit(t, s) \/ CreateWorkflow(t, s) \/ RedriveTicket(t, s)
    \/ StallWorkflow(t)
    \/ PollerCancels(t)
    \/ CancelRead(t)
    \/ RpcProgress(t)

Next ==
    \/ CoordinatorStep
    \/ RecoverStep
    \/ Crash \/ Restart
    \/ \E k \in TaskIds : TaskStep(k)
    \/ \E t \in Tickets : SenderStep(t)

Spec == Init /\ [][Next]_vars

\* Tokio runs every task that is not suspended, the loop takes the next
\* message, and a restarted server recovers; nobody has to send anything,
\* and nothing has to fail.
Fairness ==
    /\ WF_vars(HandleCancel \/ HandleCompletion \/ HandleRequest)
    /\ WF_vars(RecoverStep)
    /\ WF_vars(Restart)
    /\ \A k \in TaskIds : WF_vars(TaskProgress(k))
    /\ \A t \in Tickets : WF_vars(RpcProgress(t))

FairSpec == Spec /\ Fairness

-----------------------------------------------------------------------------
(* Properties. *)

\* Every variable has its type.
TypeOK ==
    /\ phase \in {"down", "recovering", "running"}
    /\ rx \in Seq(Request)
    /\ cancelRx \in Seq(Tickets)
    /\ completionRx \in Seq(Tickets)
    /\ inFlight \in [Tickets -> Slot]
    /\ tasks \in [TaskIds -> Task]
    /\ toRecover \subseteq Intent
    /\ intents \subseteq Intent
    /\ wf \in [Tickets -> WorkflowRow]
    /\ lifecycle \in [Tickets -> LifecycleStatus]
    /\ rpc \in [Tickets -> Rpc]
    /\ latest \in [Tickets -> Targets \cup {None}]
    /\ exposed \subseteq Tickets
    /\ {nextIntent, requests, crashes, cancels, rpcs, faults} \subseteq Nat

TasksOf(t) == {k \in TaskIds : Live(k) /\ tasks[k].ticket = t}

\* Per-ticket serialisation (coordinator.rs, "at most one handler runs per
\* ticket at a time"): two tasks of a ticket that was neither cancelled in
\* this server run nor recovered twice are the same task.
Serialized ==
    \A t \in Tickets \ exposed : \A j, k \in TasksOf(t) : j = k

\* The same for every ticket, cancelled and recovered ones included, counting
\* only tasks that nobody has aborted.
AtMostOneHandler ==
    \A t \in Tickets : \A j, k \in TasksOf(t) :
        ~tasks[j].aborted /\ ~tasks[k].aborted => j = k

\* Crash safety: a handler that has not finished its cleanup, and a request
\* that waits behind a handler of another target, have an intent row, so that
\* recover() would find them if the server died now.  (A handler that repeats
\* the target of the one before it may have lost its row to that one's
\* cleanup: see PendingPreserved.)
CrashSafe ==
    \A t \in Tickets \ exposed :
        /\ \A k \in TasksOf(t) :
              tasks[k].pc # "notify" /\ inFlight[t].previous # inFlight[t].target
                  => Matching(t, tasks[k].target) # {}
        /\ inFlight[t].pending \notin {None, inFlight[t].target}
              => Matching(t, inFlight[t].pending) # {}

\* cleanup_intent "preserv[es] intents for subsequent transitions that may
\* have been queued while this handler was running (crash recovery depends on
\* these)": every waiting request has its intent row.
PendingPreserved ==
    \A t \in Tickets \ exposed :
        inFlight[t].pending # None => Matching(t, inFlight[t].pending) # {}

\* Latest wins: once a ticket has no handler, its lifecycle is the target of
\* the newest accepted request, or the handler has closed the ticket.  (What
\* recovery starts after a crash is DroppedNotReplayed's concern.)
LatestWins ==
    crashes = 0 /\ faults = 0 =>
        \A t \in Tickets \ exposed :
            phase = "running" /\ inFlight[t] = NoSlot /\ latest[t] # None
                => lifecycle[t] \in {latest[t]} \cup Terminal

\* "The most recent pending request (latest wins, intermediates dropped)":
\* what recover() starts for a ticket with one intent is its newest request,
\* never one that had been dropped.
DroppedNotReplayed ==
    [][phase = "recovering" =>
        \A k \in TaskIds :
            ~Live(k) /\ Live(k)' /\ tasks'[k].ticket \notin exposed
                => tasks'[k].target = latest[tasks'[k].ticket]]_vars

\* Every slot is given back: a ticket's handler and the requests waiting
\* behind it all end, however often the server crashes.
SlotsDrain ==
    \A t \in Tickets : inFlight[t] # NoSlot ~> inFlight[t] = NoSlot

\* The newest accepted request, as long as its intent row is there, is applied
\* to the ticket, over crashes too (or its handler has closed the ticket already),
\* unless a newer one, a stall, a cancellation or a failing call comes first.
LatestApplied ==
    \A t \in Tickets : \A s \in Targets :
        latest[t] = s /\ Matching(t, s) # {}
            ~> \/ lifecycle[t] \in {s} \cup Terminal \/ latest[t] # s
               \/ t \in exposed \/ wf[t].stalled \/ faults > 0
=============================================================================
