# A verification project for ur

ur runs coding agents in containers and drives each ticket from "dispatched" to
"merged". This directory holds TLA+ models of the parts that carry that work,
the TLC configurations that check them on small instances, and TLAPS proofs of
the safety of all of them for every size. `PROJECT.json` maps every definition to the lines it
models and lists runs, mutants, hazards and theorems. Paths below are relative
to `src/crates/`.

    tlc -workers 2 -config Lifecycle_work.cfg Lifecycle    # one run
    tlapm CoordinatorProofs.tla                            # the proofs

## 1. Inventory

The server (`server/`) is one tokio process over two Postgres databases
(tickets, workflows). builderd (`builderd/`) runs on the host and executes
commands, clones and containers for it. workerd (`workerd/`) runs in each worker
container next to the agent. Clients are the command line (`ur/`), the terminal
interface (`urui/`) and the tools inside the container (`ur-workertools/`).

| part | state | operations | talks to | what is hard | what makes it correct |
|---|---|---|---|---|---|
| workflow coordinator, `server/src/workflow/coordinator.rs` | `in_flight` slots with one pending request each, handler tasks; `intent` table | `recover`, `handle_request`, `handle_completion`, `handle_cancel`, handler task | channels from RPCs, poller and handlers; workflow tables | crash between any two steps, completions overtaken by cancellations, bounded channels | one handler per ticket, latest request wins, nothing accepted is lost in a crash, slots drain |
| workflow handlers, `server/src/workflow/handlers/` | workflow row, ticket metadata | awaiting_dispatch, implementing, verifying, pushing, in_review, addressing_feedback, merging | workerd, git, GitHub, coordinator | every call may fail; other actors move the workflow between two calls | bounded number of dispatches, merge only when approved, ends are final |
| GitHub poller, `server/src/workflow/github_poller.rs` | review, ci and mergeable columns, recorded comments | one pass per interval over tickets in review | GitHub, coordinator, worker manager | answers of separate calls that do not fit together | review comments are heeded, closed pull requests end the workflow |
| step router and worker RPCs, `server/src/workflow/step_router.rs`, `server/src/grpc.rs` | none | `WorkflowStepComplete`, `UpdateAgentStatus` | coordinator | a status read before the send is old when the request is served | a finished step moves the workflow on |
| repo pool and worker manager, `server/src/pool.rs`, `server/src/worker.rs` | slot and worker rows, links, claim set, directories, containers | acquire, launch, stop, release, reconcile | builderd, workflow tables | launches dropped at an await, restarts, slots handed over | one worker per slot, limit kept, every slot returns |
| UI events, `db_events/`, `server/src/ui_event_poller.rs` | `ui_events` rows, channels, listeners | trigger, poll, merge, listen | Postgres LISTEN, streams to clients | lost notifications, commit order, full channels | every event reaches every listener |
| builderd overlay, `builderd/src/overlay.rs`, `handler.rs` | overlay copies, skip-worktree bits, command count | conceal, reveal, bracketed exec | git, the agent's edits | overlapping commands, dropped callers | git never sees an overlay, the agent keeps them |
| builderd process registry, `builderd/src/registry.rs`, `handler.rs` | map of live processes, output sinks, channels | spawn, register, reconnect, forward, reap | exec RPCs | check, spawn and register are separate steps; a sink is swapped while a send to it fails | one process per key, every caller hears the end of its process |
| worker daemon, `workerd/src/` | dispatch buffer, completion flag, nudge suppression, watcher state | dispatch, idle, step complete, nudge, pause, exit watcher | server, tmux, the agent's hooks | deferred sends that run in any order, calls made once from detached tasks | no step reported early or never, a fresh context for each dispatch, only workers whose agent has gone are stopped |
| ticket database and service, `ticket_db/`, `server/src/grpc_ticket.rs` | tickets, parents, blocking edges, metadata, row locks | create, update, close, rename, block, create workflow, export, import | workflow tables, UI event triggers | whole rows read and written back, checks in other statements than the writes, recursive triggers | walks end, blocked means blocked, epics close last, no circular wait |
| urui, `urui/src/` | the model: tab, page stacks, input handlers, load states, throttle, drafts | `update` on keys, events, answers and ticks; commands | server over gRPC, UI event stream | answers in any order, hidden tabs, events in a cooldown | lists and tickets on the screen are the server's state once all is quiet, stalls are announced, what the user wrote is not dropped unnoticed |
| host stack, `ur/src/main.rs`, `builderd.rs`, `compose.rs`, `db.rs` | PID file, lock file, compose file, containers, dumps | server start, stop, restart, redeploy; backup | builderd, docker, server | several commands at once, interrupted commands, reused pids | a builderd that runs can be found and stopped, a start leaves one that serves |
| backups, `server/src/backup.rs`, `ur_config/src/backup.rs` | files of a directory | timed and manual dumps, retention | pg_dump in the database's container | dumps that fail or never end, clean-ups of two processes | a good dump is never traded for a bad one |
| legacy workflow engine, `server/src/workflow/engine.rs` | event queue with attempts | `poll_once` | handlers | retries | nothing inserts into its queue any more |
| host exec, proxy, log clean-up, configuration, git and GitHub back ends, the other commands of ur | files, configuration | | | mostly I/O | see `components` |

The hazards of each part, with the line where they bite and the properties that
cover them, are `hazards` in `PROJECT.json`; those without a property say why,
and those whose properties set a case apart say which.

How the parts meet: an RPC or the poller *sends* a `TransitionRequest`; the
coordinator persists an intent and starts a handler; the handler sends work to
workerd or acts on git and GitHub; the agent's end of a step comes back as
`WorkflowStepComplete`, which the step router turns into the next request. The
poller takes over in review. Launching and stopping workers goes through the
pool. Every committed change of a row goes to the clients through the UI events.

## 2. Modules

| module | models | composed from |
|---|---|---|
| `Coordinator` | the coordinator with its channels, task pool, `intent` and `workflow` tables, crashes and restarts, and the RPCs that create, cancel and redrive a workflow | |
| `TransitionQueue` | what the coordinator promises: per ticket one job, one waiting target, a set of unfinished targets that survives a crash | |
| `CoordinatorRefinement` | the mapping of slots, tasks and intents to the queue, and `ImplementsQueue` | `Coordinator`, `TransitionQueue` by `INSTANCE` |
| `MCCoordinator` | adds stuttering in states where the server is idle, so that TLC's deadlock check is meaningful, and a bound on all disturbances together | `CoordinatorRefinement` |
| `CoordinatorProofs` | theorems about the coordinator and its refinement | `CoordinatorRefinement`, `TLAPS` |
| `LifecycleProofs`, `WorkerPoolProofs`, `EventPollerProofs`, `WorkerDaemonProofs`, `TicketStoreProofs` | the inductive invariant of the module, one lemma per action, the theorems | the module, `TLAPS` |
| `BuilderdProofs`, `ClientProofs` | the same for the two modules of builderd and for the two programs the user runs | `Overlay` and `ProcessRegistry`; `HostStack` and `Urui`; `TLAPS` |
| `Lifecycle`, `MCLifecycle` | one ticket from dispatch to merge: the handlers, the poller's pass call by call, the step router, agent, reviewers, GitHub | coordinator reduced to a serial handler with one waiting request, which is what `TransitionQueue` says of a ticket that is not in doubt |
| `WorkerPool`, `MCWorkerPool` | launches and stops over exclusive slots, the claim set, restart reconciliation | |
| `WorkerDaemon` | workerd: dispatch buffer, idle reports, deferred texts, nudges, start-up, exit watcher, with the agent and the server around it | |
| `EventPoller` | triggers, pollers of both databases, merge loop and listeners | |
| `TicketStore`, `MCTicketStore` | ticket rows, edges, metadata and workflows under concurrent RPCs, merges and workflow handlers, statement by statement, with row locks and the triggers | |
| `Urui` | the update function, the bag of commands under way, a server that changes | |
| `ProcessRegistry` | one key of builderd's registry: callers, processes, forwarders, sinks, channels | |
| `Overlay` | the overlays of one slot and the git commands bracketed by them | |
| `HostStack` | concurrent `ur server` and `ur db backup` commands over builderd, compose, workers and dumps | |

Actions are named after the functions they model, split where the code awaits
something another actor can change. A `pc` field says between which two awaits a
task, launch, stop, pass or command stands. A failing call is a disjunct guarded
by a fault budget; a dropped future is an action of its own (`LaunchEnds`,
`Cancel`), because a dropped future runs its `Drop` code and nothing else.
Operators marked "Mutant" are the bugs listed under `mutants`; no specification
uses them. `ProcessRegistry` and `Urui` name their specification `PRSpec` and
`UiSpec` (and so on), so that a module of proofs can extend them with another.

### What each module leaves out

* **Coordinator.** `workflow_events` (analytics) are not represented.
  The fallback `create_workflow` after a failing status update counts as
  failing. `cleanup_intent` is one step. Stopping the worker of a cancelled
  workflow belongs to `WorkerPool` and `Lifecycle`. One RPC per ticket runs at
  a time, so the check-then-insert race of `create_workflow` is not covered.
  `exposed` marks tickets cancelled in this server run or found with two
  intents by `recover`; `Serialized` and `CrashSafe` speak of the others, and
  section 5 shows what happens to the exposed ones.
  A failing lookup of the workflow in `recover` is taken, as in the code, for a
  workflow that is not stalled; a failing delete leaves the intent.
* **Lifecycle.** Redrive targets are not terminal. GitHub's answers are chosen
  at each poll; a check run is whether it is ignored, running, passed or failed.
  Whether the branch is protected is a constant, not a pattern matched. Reading readiness and sending are one step in the idle report,
  clearing and sending one step in a redrive. The agent reads the comments when
  it is dispatched. Crashes happen while no request waits (the other case is
  `Coordinator`'s). Issue tickets, activities, labels, replies and relaunching a
  worker are left out. The poller's query for the latest commit is taken to
  return it when it does not fail; when it fails an outdated comment speaks.
  A hook that the project does not configure passes before anything is looked
  up. The merge handler's write of the status and its close of the ticket are
  two steps, the first of which only warns when it fails.
* **WorkerPool.** Exclusive pool slots only: no workspace-directory launches, no
  shared context slots, no credentials check, no local projects. A slot is its
  index. `exposed` marks slots claimed from a stale list or holding a container
  that lost its protection. The available rows a launch has read are a set: the
  order of the query decides only which of them it tries first, and the model
  lets it try any.
* **EventPoller.** The shutdown signal and crashes (in-memory listeners are gone
  with the process). A client reads its stream or closes it.
* **Overlay.** One slot whose overlays are installed; the set of tracked files
  is constant; no recycling while commands run; no symbolic links; a copy of all
  files is one step. `broken` marks behaviours in which a reveal failed, a
  caller left during a conceal or before the reveal of a command that could not
  be started (which stays counted then), or builderd stopped with commands in
  flight.
* **WorkerDaemon.** A dispatch is its number. The skills, hooks and credentials
  prepared at start-up, labels of the status line and the health probe are left
  out. The calls to the server leave before the reply to the hook, so a dispatch
  may come while the agent is still in its hook: the first command of a dispatch
  is typed at once (`typing`), and an agent that has not returned takes it as a
  message (`unheeded`). The grace of 750 ms of the commands that follow is taken
  to be longer than the return of a hook, as the code's comment assumes. A
  `send-keys` that fails is a fault. `overlapped` marks dispatches that came
  without waiting for the worker, `asked` those in which the agent asked for a
  human.
* **ProcessRegistry.** One key. Standard input is represented by the process it
  goes to. `raced` marks behaviours in which two requests were between check
  and registration.
* **TicketStore.** A row is status, life cycle and parent. Activities and
  comments are there as rows that refer to a ticket. Listing and paging are
  left out; so are `would_create_cycle` and `transitive_blockers`, which only
  tests call. A statement whose trigger never returns is a call that hangs with
  its row locked. A statement over several rows, such as the update that closes
  the children of an epic, takes all its locks in one step, and the queries of
  `blocked_among` read one snapshot. Workflows are made and not ended.
  `overlapped` marks tickets on which two updates, or two `create_workflow`
  calls, were between their read and their write; `unchecked` those under which
  a child was opened, created or put while they were being closed or later,
  those closed by force with their parent, and those closed by a merge, which
  does not look at the children; `spare` those for which a handler inserted a
  workflow after its update had failed.
* **Urui.** Filters of the ticket list, themes, pickers, scrolling, banners and
  layout; the operations that only call the server are changes of the server.
  The project of a draft is chosen when it is dispatched: local or not.
  `excused` marks lists that show an older state for a reason the interface
  cannot see, `dropped` drafts whose menu gave way to that of another or whose
  dispatch was refused because the project is local.
* **HostStack.** `compose up`, `down` and `ps` are one step each. One database.
  Restore (which touches only the database's content), squid and qdrant,
  credentials and file names of older versions are left out. Every dump has a
  name of its own: the timestamps have a resolution of one second, and two manual
  dumps within one would share a file. A PID file that cannot be written is not
  made at all. `raced` marks behaviours in which a stop of builderd overlapped a
  start, or a start ended between spawn and write; `outgoing` those in which a
  start met a builderd that was told to end.

## 3. Runs

Bounds are constants named `Max…` in the guards of the actions they bound, or
the size of a set of identifiers. Some runs add a state constraint on the sum of
several counters (`MaxTroubles`, `MaxInputs`, `MaxDisturbances`), so that any two kinds of
disturbance meet without all of them meeting at once. No fair step has to change
such a sum, so the constraints cut no fair behaviour short.

| run | checks | instance | shows |
|---|---|---|---|
| `coordinator` | `TypeOK`, `Serialized`, `CrashSafe`, `LatestApplied`, `ImplementsQueue` | three requests of two targets, one without a handler, and a crash, a cancellation or a failing call anywhere; or two requests and two of these | handlers stay serialised, unfinished work keeps its intent, the newest request is applied over the crash, every step is one of `TransitionQueue` |
| `pool` | `ClaimsExact`, `OneWorkerPerSlot`, `WithinLimit`, `RestartRepairs`, `ClaimsReleased` | two launches and a stop over one slot; a crash, a dropped launch, a failing call and a loss | claims are exact and given back, protected slots exclusive, the limit holds although listing and clone are two calls, a restart repairs |
| `events` | `NotLost`, `OnceInOrder`, `EventuallyRead` | two listeners that come and go, two rows committed in any order, channels of one place, a failing query, a broken LISTEN connection | every event not overtaken at commit is read, once and in order |
| `lifecycle_work` | `DispatchesBounded` | every result of the hook, none configured included, the push and the forced push after a rejection, checks that run or fail or are ignored, two cycles; a crash, a failing call, a redrive, a worker in trouble | no more dispatches than the limit |
| `lifecycle_review` | `MergeNeedsApproval`, `NoOrphanWorker`, `EndedStaysEnded` | any two of: comments, autoapprove, a redrive to merging, a failing call; human merges and closes; every outcome of the merge | the gate holds whoever sends the workflow to merging; ends are final |
| `lifecycle_live` | `NeverSilentlyStuck`, `ApprovedMerges` | one comment, checks that pass, no faults | a workflow moves on or is marked stalled; a standing approval leads to the merge |
| `workerd` | `ReportedIsFinished`, `FreshContext`, `StopsOnlyTheGone`, `StepsEnd` | two dispatches with one that does not wait and a failing call, `send-keys` or pane query, or a pause, or a human's message | a report means a finished step and the clear comes before the work, unless the agent was still in its hook when it was typed; an agent that stops early is nudged until it reports |
| `overlay` | `GitSeesNoOverlay`, `OverlaysBack`, `CommandsEnd` | three overlapping commands, a tracked and an untracked file; commands that cannot be started; an edit, a fault, a dropped caller, a restart | the first conceals, the last reveals, no lock is kept |
| `registry` | `OneProcess`, `ExitHeard`, `StreamsEnd` | three callers, channels of one place, a caller that goes away or a process that cannot start | without two requests racing a key has one process; whoever is attached hears the exit code; every stream ends |
| `tickets` | `ParentsAcyclic`, `BlockedExact`, `EpicsCloseLast`, `CallsProceed` | two callers with three calls of any kind, merges and handlers among them, on two tickets that may be epic and child, or two calls on a chain of three blocking tickets; free ids for what is created, renamed or imported | a cycle of parents needs two open updates, `compute_blocked` equals its definition, over closed tickets in between too, a close by `update_ticket` leaves no open child that it could see, waits for rows are not circular |
| `urui` | `OwnHandlerOnTop`, `FreshWhenQuiet`, `StallAnnounced`, `DraftKept` | five inputs, four of them keys, two workflows on pages of one, two drafts, a failed request or lost event | the page's own handler is on top and the global one at the bottom; lists, tickets and activities are current when all is quiet, but for overtaken answers and lost events; a stall is announced; a draft survives failures, edits and retries, but for the two ways of being dropped in section 5. Handlers of other pages between bottom and top, and the page of a workflow, are not covered: section 5 |
| `host` | `Findable`, `GoodDumpKept`, `StartServes` | two commands at once out of seven kinds, on a stack that is down, up or left by a reboot; three dumps; one failing call, crash, interrupted command or reused pid | the lock file keeps builderd findable, a stale PID file does not fool a start, clean-ups leave a complete dump |

The type invariant `TypeOK` of every module was checked by adding it to the
module's cfg. So were `LatestWins` and `SlotsDrain` (`MCCoordinator`, follows
from the refinement and `LatestApplied`), `StaysRegistered` (`EventPoller`),
`FirstIdleHeard` and `ExitNoticed` (`WorkerDaemon`), `ChangesKept` and
`OneActiveWorkflow` (`TicketStore`) and `DirtyFlushed` (`Urui`); all hold.

Why these bounds are enough: two targets tell "the same" from "another", and
three requests fill a slot, its pending place and the queue. Two launches make
every race of two launches, and one slot makes the limit bite. One comment decides a
review and two make an order; `MaxPushes` in `lifecycle_live` is never reached,
so it does not cut behaviours short. Three commands make a first, a middle and a
last one; the two files are the two ways a file is concealed. Two dispatches
make a step and the one it must not be taken for. Three callers of a process are
the one who started it, the one who replaced him and the one who comes while
that is under way. Two tickets make every relation of parent and of two calls,
a cycle included; a chain of three whose middle can be closed is what makes
blocking transitive; the ids left are for a rename, a child or an import. Two `ur`
commands make every overlap of a start with a start or a stop; three dumps with
one retained are a good one, a bad one and the one whose clean-up decides.
Channels have one or two places so that they fill. The theorems of section 4
lift the safety of all modules to every size.

`CHECK_DEADLOCK FALSE` stands where the modelled system really ends when the
bounds are used up: a workflow that is done, commands, callers, calls and
inputs that are all answered.

### Fairness

Weak fairness of every task that is not suspended, because tokio runs such tasks
and the loops take the next message: the coordinator's loop, recovery, restart,
each handler task, RPCs under way (`Coordinator`); the steps of a launch,
since builderd and the database answer well or not (`WorkerPool`); the pollers,
the timer and the clients (`EventPoller`), with strong fairness for the merge
loop's receive from each database because `tokio::select!` polls its branches in
random order; the handlers, the poller and an agent that ends its steps and
reports idle (`Lifecycle`); workerd's tasks, its watcher and an agent that takes
what is typed and stops (`WorkerDaemon`); the requests, forwarders, processes
that exit and readers of streams (`ProcessRegistry`); the tasks of builderd and
git commands that end (`Overlay`); in `HostStack` the commands, a builderd that
starts and a process that got a signal. `TransitionQueue` and `TicketStore`
assume none; `Urui` assumes that timers run and fetches are answered, which only
`DirtyFlushed` needs. Nothing is assumed of operators, reviewers, crashes or
faults.

## 4. Proofs

Eight modules prove, for any sets of tickets, workers, commands, callers,
databases, listeners, dispatches and workflows, any capacities, limits and page
sizes and any number of crashes, faults, keys and cancellations, what the runs
check on small ones: every safety invariant and action property of the runs is a
theorem, `CallsProceed` excepted. Each proof has the same shape: an inductive
invariant (`IInv`; `RegistryInv` of the process registry, `UiInv` of the
interface); `InvInit` and one lemma per action, which together give
`InvCorrect: Spec => []IInv`; and theorems that follow from it. Facts that many
actions need (what appending or taking the first element does to a sequence,
that an update leaves the other records alone, that a step leaves a conjunct
alone) are lemmas of their own.

| module | theorems | what the invariant adds to the properties |
|---|---|---|
| `CoordinatorProofs` | `TypeCorrect`, `SerializedCorrect`, `CrashSafeCorrect`, `ImplementsQueueCorrect` | see below |
| `LifecycleProofs` | `DispatchesBoundedCorrect`, `MergeNeedsApprovalCorrect`, `NoOrphanWorkerCorrect`, `EndedStaysEndedCorrect`, `TypeCorrect` | a dispatch about to be sent has been counted (`CycleInv`); wherever an approval is written down, in the row, in the poller's copy or in a merge handler past its gate, somebody approved or GitHub has merged already (`ApprovalInv`); the worker is stopped before the merge (`WorkerInv`) |
| `WorkerPoolProofs` | `ClaimsExactCorrect`, `WithinLimitCorrect`, `OneWorkerPerSlotCorrect`, `RestartRepairsCorrect` | what each step of a launch says of claim, row, link and mount (`LaunchInv`); a live container is claimed, linked or exposed (`Covered`); claims and links exclude each other (`ClaimLink`, `LinkExclusive`) |
| `EventPollerProofs` | `NotLostCorrect`, `OnceInOrderCorrect`, `StaysRegisteredCorrect`, `TypeCorrect` | every row on its way was committed, once (`FreshInv`, `CommittedInv`); what is committed between read and delete is behind what was read, or overtaken (`PollInv`); a listener is in one place of the registry (`RegistryInv`); each stage from the table to the listener is ahead of the ones behind it (`OrderInv`, while no query has failed) |
| `BuilderdProofs`, overlay | `GitSeesNoOverlayCorrect`, `OverlaysBackCorrect`, `TypeCorrect` | the count is the number of commands between conceal and reveal, and zero while the lock is taken (`LockInv`); what the disk holds at each step of a conceal and a reveal (`DiskInv`) |
| `WorkerDaemonProofs` | `ReportedIsFinishedCorrect`, `FreshContextCorrect`, `StopsOnlyTheGoneCorrect`, `TypeCorrect` | an undisturbed dispatch is in one of seven stages, from the clear about to be typed over the clear in the session, run or lost to the work (`StageInv`); one skill at a time is on its way, and unless its clear was taken as a message the agent knows nothing but that dispatch (`ContextInv`) |
| `BuilderdProofs`, registry | `OneProcessCorrect`, `RegistryTypeCorrect` | without a race one request at a time is between check and registration, and nothing runs meanwhile but its own process (`StartInv`) |
| `ClientProofs`, host stack | `FindableCorrect`, `GoodDumpKeptCorrect` | whoever starts builderd holds the lock and has found no PID file of one that lives (`LockInv`, `FileInv`); when a clean-up removed the dump the server waits for, a complete manual one is there (`DumpInv`) |
| `TicketStoreProofs` | `ParentsAcyclicCorrect`, `BlockedExactCorrect`, `EpicsCloseLastCorrect`, `ChangesKeptCorrect`, `OneActiveWorkflowCorrect`, `TypeCorrect` | see below |
| `ClientProofs`, interface | `OwnHandlerOnTopCorrect`, `FreshWhenQuietCorrect`, `StallAnnouncedCorrect`, `DraftKeptCorrect`, `UiInvCorrect` | see below |

Two theorems are action properties, `EndedStaysEnded` and `RestartRepairs`; they
follow from the invariant and `[Next]_vars`.

`GoodDumpKeptCorrect` holds for every `retain_count`, zero included: a clean-up
never removes a manual dump, and one that follows an automatic dump keeps that
dump or finds a complete manual one.

### The coordinator

`Serialized` is not inductive: that two live tasks are equal says nothing of the
slot that the next request looks at. `IInv` adds

* `OwnSlot`: a live task is the one its ticket's slot names, with its target,
  and its completion is not under way, so an empty slot means no task;
* `OneCompletion`: at most one completion of a ticket is in the channel, so a
  completion never frees the slot of a later task;
* `RecoverFresh`: a ticket whose intent recovery has yet to read has neither
  slot, completion, task nor second intent;
* `PhaseInv`, `CancelExposed`: what a stopped server's memory looks like, and
  that only exposed tickets are touched by cancellations;
* `CrashSafe` itself.

`ImplementsQueueCorrect` is the refinement: under the mapping of
`CoordinatorRefinement` every step of `Coordinator` is a step of
`TransitionQueue` or leaves its variables alone. It needs `RInv` besides: the
task a slot holds belongs to the slot's ticket, a completion finds its slot, one
intent per ticket during recovery, and only exposed tickets have aborted tasks.

### The ticket database

* `KeyInv`: what the foreign keys and the row locks give. The parent of a row,
  and the one that an uncommitted update will write, has a row; of two
  uncommitted updates neither takes the ticket, the parent or the new id of the
  other.
* `CycleInv`: as long as no two updates were uncommitted at a time, every set of
  tickets has one whose parent is outside of it, in the rows and in the rows
  with the uncommitted update. "No cycle" is stated over sets because that is
  inductive without speaking of paths; `NoOwnAncestor` derives from it that no
  walk along the parents, of any length, comes back.
* `EpicInv`: a ticket that is closed, or about to be after its look at the
  children, has no open child that the look could have seen. The close of a
  merge does not look; tickets it closes are `unchecked`, and only those, the
  ones closed by force with their parent and the ones that got a child since are.
* `LostInv`, `ActiveInv`: on a ticket without overlapping calls, the row and the
  number of workflows are still what the call has read (workflows: unless a
  handler inserted one of its own, `spare`).

`BlockedExactCorrect` compares the reverse search, a recursive function that
closes a set under the edges, with the definition of blocked by paths.
Induction over numbers is replaced in both proofs by the least counterexample,
which the well-founded order of the naturals provides (`Least`).

The proof of `KeyInv` found a state the model should not reach: two uncommitted
updates that rename two tickets to the same new id. In Postgres the second
waits at the primary key for the first; `WriteTicket` waits now too.

### The interface

The properties speak of a screen, or of moments when nothing is under way, and
none of them is inductive. `UiInv` says

* of the navigation (`NavOK`): the stack of handlers is longer than the number
  of handlers that the pages of all tabs will give back when they are torn
  down, so that a teardown, which pops by count whatever is on top, never
  takes the global one; the help page counts only while it is shown, because
  its handler goes when its tab is left. The property compares the top of the
  stack with one page and says nothing of what the hidden tabs owe;
* of each list, of the open ticket and of its activities (`FreshAll`; the
  activities as far as they are of the ticket opened last on its own tab,
  `Tracked`, because only those are fetched again): while its page is on the
  screen it is up to date and the newest answer applied is of the server's
  current version, or one of these is on its way: an event, a mark of its tab
  as dirty, a request made since the last change, or a stop of a worker, whose
  answer fetches the list again. What is `excused` stays so;
* of stalls (`StallsOK`): a stall not yet announced is in `changed`, or its
  event is on its way, or there is a request under way all of whose possible
  answers show it; and workflow ids are recorded only while the flows are dirty;
* of drafts (`DraftsOK`: a draft that was written is kept or was dropped in one
  of the two ways) and of types (`TypedAll`), which do not mention the
  bounds on keys and requests.

The step lemmas come in two layers. `MovedInit` to `MovedGoto` and the `…Again`
lemmas say what the pure functions of `navigation.rs` and `update.rs` do to a
model: which fields they leave alone and what they ask for whenever they put a
page on the screen. `FreshMoved`, `FreshAgain`, `FlushInv` and `AnswerInv` show
once for each kind of message that a model which changed in this way, with its
commands among the requests, keeps the invariant.

### Assumptions

They are the `ASSUME`s of the modules, which TLC evaluates in the runs. Besides
saying that bounds are numbers and outcomes come from the code's enumerations:
channels have room for one message (tokio refuses a capacity of zero);
`"none"` is the name of no worker, command or process id; the host has a process id;
the commands on a slot are finitely many; no file is both tracked and untracked;
ids of tickets and projects are finitely many and 0, which stands for none, is
neither a project nor a draft; the tables the ticket database starts with refer
to rows that exist and have no cycle of parents, and a request changes columns
to values they can have; the workflows that others change are workflows.
The bounds `Max…` are arbitrary numbers, so no theorem rests on their size.

### Only model-checked

* Liveness: `LatestApplied`, `ClaimsReleased`, `EventuallyRead`, `CommandsEnd`,
  `StepsEnd`, `NeverSilentlyStuck`, `ApprovedMerges`, `ExitHeard`, `StreamsEnd`
  and `StartServes`. Fairness and `ENABLED` are out of the prover's reach; the
  latter goes for `CallsProceed` too.
* The type invariant of `Urui`, because it repeats the bounds of the instance;
  `UiInvCorrect` holds the types without them.

## 5. Disagreements

The models show disagreements between the code and its comments, documents or
tests; TLC refutes the property of each row under its configuration. A row that
names a run's configuration is refuted by that configuration with the row's
property in the place of its own. None is among the runs of `PROJECT.json`,
which are the ones that pass.

| configuration | property | behaviour | code |
|---|---|---|---|
| `MCCoordinator_stale_completion` | `AtMostOneHandler` | the completion of a cancelled task frees its successor's slot | `coordinator.rs:205` |
| `MCCoordinator_pending_lost` | `PendingPreserved` | clean-up deletes the intent of a waiting request with the same target | `coordinator.rs:417` |
| `MCCoordinator_replay` | `DroppedNotReplayed` | recovery starts a request that had been dropped | `coordinator.rs:192` |
| `MCWorkerPool_stale` | `ClaimedNotLinked` | a slot is claimed from a list read before another launch linked it | `pool.rs:140` |
| `MCWorkerPool_clean` | `CleanSafe` | a second stop resets the directory of the slot's next worker | `worker.rs:1176` |
| `MCWorkerPool_stranded` | `SlotReturnsToPool` | a clone without a row counts against the limit and is never handed out | `pool.rs:202` |
| `EventPoller_events` | `DeletedIsDispatched` | a row that commits late is deleted unread | `db_events/src/lib.rs:217` |
| `Lifecycle_closed` | `ClosedIsNotDone` | a pull request closed unmerged ends as done | `merge.rs:88` |
| `Lifecycle_feedback` | `FeedbackOffered` | the only comment on a manually merged pull request is shown to nobody | `github_poller.rs:786` |
| `Lifecycle_respond` | `RespondHeeded` | `ur respond` between two reads is recorded unread | `github_poller.rs:852` |
| `Lifecycle_autoapprove` | `AutoApproveMerges` | the gate of the merge finds checks that nobody polled | `github_poller.rs:325` |
| `Overlay_commands` | `OverlayKept` | a caller dropped while its command conceals: the next one captures git's version as the overlay | `overlay.rs:106` |
| `Overlay_commands` | `EditsPersist` | an edit between capture and reveal is overwritten | `overlay.rs:159` |
| `MCCoordinator_recover_twice` | `AtMostOneHandler` | `recover` starts both intents of a ticket | `coordinator.rs:127` |
| `MCWorkerPool_cancelled` | `FreeSlotUnmounted` | the container of a dropped launch stays in a slot the pool hands out again | `grpc.rs:846` |
| `Lifecycle_refused` | `RefusedIsNotDone` | a merge that GitHub refuses ends as done with its pull request open | `merge.rs:116` |
| `WorkerDaemon_nudge` | `MissedNudgeHarmless` | after a failed `is_stalled` (which returns true, its comment says false) nothing repeats the nudge; the same holds for an idle report during a pause | `grpc_service.rs:226` |
| `WorkerDaemon_code` | `EveryClearRuns` | the first command of a dispatch is typed at once ("Text typed at that point ... lands in its queued-message buffer instead of being executed ... Deferring the send fixes that", `grpc_service.rs:113`): typed while the agent is still in its hook the clear is queued as a message, and the step is worked on in the old context | `grpc_service.rs:474` |
| `ProcessRegistry_callers` | `NewCallerKept` | the failed send to a caller that has gone clears the sink of the new one | `builderd/src/handler.rs:366` |
| `ProcessRegistry_callers` | `Deduplicated` | two requests between check and register start two processes | `builderd/src/handler.rs:234` |
| `MCTicketStore_calls` | `MetaMovesWithTicket` | the statements of a rename are no transaction: when a foreign key refuses a later one, the metadata stays under an id that no ticket has | `ticket_db/src/ticket_repo.rs:327` |
| `MCTicketStore_calls` | `ExportImports` | export writes a child before its parent, and import inserts in that order | `server/src/ticket_import/mod.rs` |
| `MCTicketStore_calls` | `NeverTwoWorkflows` | two `create_workflow` calls pass the check together, or a handler whose status update failed inserts a second row | `grpc_ticket.rs:1305`, `coordinator.rs:273` |
| `MCTicketStore_calls` | `NoOpenChildUnderClosed` | an epic ends closed over an open child ("ticket has open children; close them first or use --force", `grpc_ticket.rs:61`): the merge closes its ticket without a look at the children, and a child is opened or moved there after the look of a close | `merge.rs:126`, `grpc_ticket.rs:1008` |
| `Urui_handlers` | `HandlersMatchPages` | handlers pile up or outlive their page | `urui/src/navigation.rs:160` |
| `Urui_drafts` | `EveryDraftKept` | the menu of a failed create replaces the draft being written; a dispatch into a local project is refused after the menu was closed | `urui/src/update.rs:720`, `urui/src/overlay_update.rs:909` |
| `Urui_keys` | `FlowPageCurrent` | the page of a workflow opened by goto stays at "Flow not found": the list that comes in drops the fetch of the workflow | `urui/src/update.rs:834` |
| `Urui_stray` | `NoStrayTicket` | a ticket whose dispatch failed is created again by the retry | `urui/src/overlay_update.rs:908` |
| `HostStack_commands` | `RestartServes` | a restart or redeploy starts the new builderd before the old one, which was only sent a signal, has left the port: the new one ends, and then the old one | `ur/src/builderd.rs:185`, `ur/src/main.rs:176` "Restart the server (stop then start)" |
| `HostStack_commands` | `WorkersStopped` | `try_connect` makes a lazy channel and never fails, so the Docker fallback of `stop_server` is never taken and a stop while the server is down leaves the workers | `ur/src/main.rs:441` |
| `HostStack_commands` | `OnlyBuilderdKilled` | `stop_builderd` signals the pid of the file without the look at its name that `is_builderd_running` takes | `ur/src/builderd.rs:197` |
| `HostStack_retain` | `RetainsGood` | dumps that failed or never ended count towards `retain_count` | `ur_config/src/backup.rs:155` |

More are refuted in the same way by the module's own configuration: `SameProcess`
and `AckedIsServed` (`ProcessRegistry`: a caller's input goes to another process
than its output comes from; a reconnect is acknowledged by a process that has
ended), `NoUpdateLost` and `NothingHangs` (`TicketStore`: overlapping updates
undo each other; a cycle of parents makes a trigger run for ever), `PageHasRows`,
`DetailIsItsTicket` and `ClosedHidden` (`Urui`).

Met while reading, without a property: the ticket page on another tab than its
own is not refreshed by events; the refresh of activities ignores the author
filter, so that its answer takes the place of the filtered one; the key that
reopens a ticket sends a close; a workflow first seen stalled is not announced;
an idle report that arrives late overwrites a stall or a request for a human;
an error while suspending leaves urui's input reader paused; renaming a ticket
that has children or edges fails on a foreign key; `docs` promise a final backup
when the server stops, but the server handles no signal; `ur server stop` leaves
builderd running when the server is not; a stop that overlaps a start can leave a
builderd without a PID file (the case `Findable` excludes).

## 6. Plan and what is not modelled

Done, in this order: `Coordinator` and its first theorems, `WorkerPool`,
`EventPoller`, `Lifecycle`, `Overlay`; `WorkerDaemon`, `ProcessRegistry`,
`TransitionQueue` with the refinement, `TicketStore`, `Urui`, `HostStack`; then
the proofs of section 4.

Worth proving next: that `Lifecycle`'s serial handler is what `TransitionQueue`
gives a ticket that is not in doubt.

Modules could still grow by: shared context slots and local projects
(`WorkerPool`), recycling during commands (`Overlay`), replies and issue tickets
(`Lifecycle`), restore (`HostStack`), the retrying channel of `ur_rpc`.

Not modelled, and why: two fifths of the repository's lines are tests inside the
source files. Of the rest, about half has no state that outlives a call: parsing
of configuration (`ur_config`), the construction of container options and
environments, the Lua transformation of command lines, formatting of requests
and answers in `ur` and `ur-workertools`, rendering and widgets of `urui`,
conversions between rows and messages, listing queries with paging, wrappers
over git, gh, docker and tmux. A model of these would restate them; they are
listed under `components` with the reason. So the map covers about a tenth of
all lines, and most of the functions in which two actors or two failures meet.
