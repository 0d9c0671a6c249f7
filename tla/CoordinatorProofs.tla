------------------------- MODULE CoordinatorProofs -------------------------
(***************************************************************************)
(* Proofs about the coordinator, for any set of tickets, any channel       *)
(* capacities and any number of requests, crashes, cancellations, RPCs     *)
(* and failing database calls.                                             *)
(***************************************************************************)
EXTENDS CoordinatorRefinement, TLAPS

-----------------------------------------------------------------------------
(* Type correctness. *)

LEMMA StatusTyped ==
    ASSUME wf \in [Tickets -> WorkflowRow], NEW t \in Tickets, NEW s \in LifecycleStatus
    PROVE  WithStatus(t, s) \in [Tickets -> WorkflowRow]
  BY DEF WithStatus, WorkflowRow

LEMMA StallTyped ==
    ASSUME wf \in [Tickets -> WorkflowRow], NEW t \in Tickets
    PROVE  /\ Stalled(t) \in [Tickets -> WorkflowRow]
           /\ Unstalled(t) \in [Tickets -> WorkflowRow]
  BY DEF Stalled, Unstalled, WorkflowRow

LEMMA SpawnTyped ==
    ASSUME TypeOK, NEW t \in Tickets, NEW s \in Targets, Spawn(t, s)
    PROVE  /\ tasks' \in [TaskIds -> Task]
           /\ inFlight' \in [Tickets -> Slot]
  BY DEF TypeOK, Spawn, Task, TaskPc, Slot

LEMMA NoSlotTyped == NoSlot \in Slot
  BY DEF NoSlot, Slot

LEMMA ReplacedTyped ==
    ASSUME NEW slot \in Slot, NEW s \in Targets
    PROVE  Replaced(slot, s) \in Slot
  BY DEF Slot, Replaced

LEMMA RpcTyped ==
    ASSUME NEW r \in Rpc
    PROVE  /\ r.op = "send" => r.target \in Targets
           /\ \A op \in {"cancel_read", "cancel_signalled", "cancel_deleted"} :
                r.op # "send" => [r EXCEPT !.op = op] \in Rpc
  BY DEF Rpc, NoRpc, None

LEMMA LiveTyped ==
    ASSUME TypeOK, NEW k \in TaskIds, Live(k)
    PROVE  tasks[k].ticket \in Tickets /\ tasks[k].target \in Targets
  BY DEF TypeOK, Live, Task, FreeTask

LEMMA AdvanceTyped ==
    ASSUME TypeOK, NEW k \in TaskIds, Live(k), NEW pc \in TaskPc, Advance(k, pc)
    PROVE  tasks' \in [TaskIds -> Task]
  <1>1. tasks[k] \in [ticket : Tickets, target : Targets, pc : TaskPc, aborted : BOOLEAN]
    BY DEF TypeOK, Live, Task, FreeTask
  <1>2. [tasks[k] EXCEPT !.pc = pc] \in Task
    BY <1>1 DEF Task
  <1> QED
    BY <1>2 DEF TypeOK, Advance, Task

LEMMA TypeInit == Init => TypeOK
  BY DEF Init, TypeOK, Slot, NoSlot, NoTask, Task, TaskPc, FreeTask, WorkflowRow, NoWorkflow,
         LifecycleStatus, Rpc, NoRpc

LEMMA TypeStep == TypeOK /\ [Next]_vars => TypeOK'
  <1> SUFFICES ASSUME TypeOK, [Next]_vars PROVE TypeOK'
    OBVIOUS
  <1> USE DEF channels, memory, database, observers, counters
  <1>t. Targets \subseteq LifecycleStatus
    BY TargetsAssumption
  <1>1. CASE HandleCancel
    <2>1. Head(cancelRx) \in Tickets /\ cancelRx' \in Seq(Tickets)
      BY <1>1 DEF HandleCancel, TypeOK
    <2>2. inFlight' \in [Tickets -> Slot]
      BY <1>1, <2>1 DEF HandleCancel, TypeOK, Slot, NoSlot
    <2>3. tasks' \in [TaskIds -> Task]
      <3> DEFINE k == inFlight[Head(cancelRx)].task
      <3>1. CASE k # NoTask /\ Live(k)
        <4>1. k \in TaskIds
          BY <2>1, <3>1 DEF TypeOK, Slot
        <4>2. tasks[k] \in [ticket : Tickets, target : Targets, pc : TaskPc, aborted : BOOLEAN]
          BY <4>1, <3>1 DEF TypeOK, Live, Task, FreeTask
        <4>3. [tasks[k] EXCEPT !.aborted = TRUE] \in Task
          BY <4>2 DEF Task
        <4> QED
          BY <1>1, <3>1, <4>1, <4>3 DEF HandleCancel, TypeOK
      <3>2. CASE ~(k # NoTask /\ Live(k))
        BY <1>1, <3>2 DEF HandleCancel, TypeOK
      <3> QED
        BY <3>1, <3>2
    <2> QED
      BY <1>1, <2>1, <2>2, <2>3 DEF HandleCancel, TypeOK
  <1>2. CASE HandleCompletion
    <2>1. Head(completionRx) \in Tickets /\ completionRx' \in Seq(Tickets)
      BY <1>2 DEF HandleCompletion, TypeOK
    <2>2. inFlight' \in [Tickets -> Slot] /\ tasks' \in [TaskIds -> Task]
      <3>1. CASE HasPending(Head(completionRx))
        <4>1. inFlight[Head(completionRx)].pending \in Targets
          BY <2>1, <3>1 DEF HasPending, TypeOK, Slot
        <4> QED
          BY <1>2, <2>1, <3>1, <4>1, SpawnTyped DEF HandleCompletion
      <3>2. CASE ~HasPending(Head(completionRx))
        <4>1. /\ inFlight' = [inFlight EXCEPT ![Head(completionRx)] = NoSlot]
              /\ tasks' = tasks
          BY <1>2, <3>2 DEF HandleCompletion
        <4> QED
          BY <4>1, NoSlotTyped DEF TypeOK
      <3> QED
        BY <3>1, <3>2
    <2> QED
      BY <1>2, <2>1, <2>2 DEF HandleCompletion, TypeOK
  <1>3. CASE HandleRequest
    <2>1. /\ Head(rx).ticket \in Tickets /\ Head(rx).target \in Targets
          /\ rx' \in Seq(Request)
      <3>1. Head(rx) \in Request /\ Tail(rx) \in Seq(Request)
        BY <1>3 DEF HandleRequest, ReceiveRequest, TypeOK
      <3> QED
        BY <1>3, <3>1 DEF HandleRequest, ReceiveRequest, Request
    <2>2. inFlight' \in [Tickets -> Slot] /\ tasks' \in [TaskIds -> Task]
      <3>1. CASE IsInFlight(Head(rx).ticket)
        <4> DEFINE t == Head(rx).ticket
        <4>1. /\ inFlight' = [inFlight EXCEPT ![t] = Replaced(inFlight[t], Head(rx).target)]
              /\ tasks' = tasks
          BY <1>3, <3>1 DEF HandleRequest
        <4> QED
          BY <4>1, <2>1, ReplacedTyped DEF TypeOK
      <3>2. CASE ~IsInFlight(Head(rx).ticket)
        BY <1>3, <2>1, <3>2, SpawnTyped DEF HandleRequest
      <3> QED
        BY <3>1, <3>2
    <2>3. intents' \subseteq Intent /\ latest' \in [Tickets -> Targets \cup {None}]
      BY <1>3, <2>1 DEF HandleRequest, TypeOK, Intent
    <2> QED
      BY <1>3, <2>1, <2>2, <2>3 DEF HandleRequest, TypeOK
  <1>4. CASE HandleRequestFault
    BY <1>4 DEF HandleRequestFault, ReceiveRequest, TypeOK
  <1>5. CASE RecoverOne
    <2> PICK i \in toRecover :
          /\ toRecover' = toRecover \ {i} /\ intents' \subseteq intents
          /\ UNCHANGED <<tasks, inFlight>> \/ Spawn(i.ticket, i.target)
          /\ faults' \in {faults, faults + 1}
      BY <1>5 DEF RecoverOne, Recovered, Fault
    <2>1. i.ticket \in Tickets /\ i.target \in Targets
      BY DEF TypeOK, Intent
    <2>2. inFlight' \in [Tickets -> Slot] /\ tasks' \in [TaskIds -> Task]
      BY <2>1, SpawnTyped DEF TypeOK
    <2> QED
      BY <1>5, <2>2 DEF RecoverOne, TypeOK
  <1>6. CASE RecoverDone
    BY <1>6 DEF RecoverDone, TypeOK
  <1>7. CASE Crash
    BY <1>7 DEF Crash, TypeOK, Slot, NoSlot, Task, TaskPc, FreeTask, Rpc, NoRpc
  <1>8. CASE Restart
    <2>1. toRecover' \in {intents, {}}
      BY <1>8 DEF Restart, Listed
    <2>2. faults' = faults \/ faults' = faults + 1
      BY <1>8 DEF Restart, Fault
    <2>3. faults' \in Nat
      BY <2>2 DEF TypeOK
    <2> QED
      BY <1>8, <2>1, <2>3 DEF Restart, TypeOK
  <1>9. ASSUME NEW k \in TaskIds, TaskStep(k) PROVE TypeOK'
    <2>1. CASE TaskStatus(k)
      BY <2>1, <1>t, LiveTyped, AdvanceTyped, StatusTyped
         DEF TaskStatus, TaskAt, Live, TaskUnchanged, Fault, TaskPc, TypeOK
    <2>2. CASE TaskSync(k)
      BY <2>2, <1>t, LiveTyped, AdvanceTyped
         DEF TaskSync, TaskAt, Live, TaskUnchanged, Fault, TaskPc, TypeOK
    <2>3. CASE TaskBody(k)
      <3>1. Live(k) /\ Advance(k, "body") /\ "body" \in TaskPc
        BY <2>3 DEF TaskBody, TaskAt, TaskPc, Live
      <3>2. tasks' \in [TaskIds -> Task] /\ tasks[k].ticket \in Tickets
        BY <3>1, LiveTyped, AdvanceTyped
      <3>3. wf' \in [Tickets -> WorkflowRow] /\ lifecycle' \in [Tickets -> LifecycleStatus]
        <4>1. /\ WithStatus(tasks[k].ticket, "done") \in [Tickets -> WorkflowRow]
              /\ Stalled(tasks[k].ticket) \in [Tickets -> WorkflowRow]
          BY <3>2, StatusTyped, StallTyped DEF TypeOK, LifecycleStatus
        <4> QED
          BY <2>3, <3>2, <4>1 DEF TaskBody, TypeOK, LifecycleStatus
      <3> QED
        BY <2>3, <3>2, <3>3 DEF TaskBody, TaskUnchanged, TypeOK
    <2>4. ASSUME NEW ok \in BOOLEAN, TaskReturns(k, ok) PROVE TypeOK'
      BY <2>4, AdvanceTyped DEF TaskReturns, TaskAt, Live, TaskUnchanged, TaskPc, TypeOK
    <2>5. CASE TaskFail(k)
      <3>1. tasks' \in [TaskIds -> Task]
        BY <2>5, AdvanceTyped DEF TaskFail, TaskAt, Live, TaskPc
      <3>2. wf' \in [Tickets -> WorkflowRow]
        BY <2>5, LiveTyped, StallTyped DEF TaskFail, TaskAt, Live, TypeOK
      <3> QED
        BY <2>5, <3>1, <3>2 DEF TaskFail, TaskUnchanged, Fault, TypeOK
    <2>6. CASE TaskCleanup(k)
      BY <2>6, AdvanceTyped DEF TaskCleanup, TaskAt, Live, TaskUnchanged, Fault, TaskPc, TypeOK
    <2>7. CASE TaskNotify(k)
      BY <2>7, LiveTyped DEF TaskNotify, Notified, TaskAt, Live, TypeOK, Task
    <2>8. CASE TaskDropped(k)
      BY <2>8 DEF TaskDropped, TypeOK, Task
    <2> QED
      BY <1>9, <2>1, <2>2, <2>3, <2>4, <2>5, <2>6, <2>7, <2>8 DEF TaskStep
  <1>10. ASSUME NEW t \in Tickets, SenderStep(t) PROVE TypeOK'
    <2>1. ASSUME NEW s \in Targets, Submit(t, s) PROVE TypeOK'
      BY <2>1 DEF Submit, Send, CountRequest, TypeOK, Request
    <2>2. ASSUME NEW s \in Targets, CreateWorkflow(t, s) PROVE TypeOK'
      BY <2>2, <1>t DEF CreateWorkflow, StartRpc, CountRequest, RpcUnchanged, TypeOK, Rpc, WorkflowRow
    <2>3. ASSUME NEW s \in Targets, RedriveTicket(t, s) PROVE TypeOK'
      <3>1. wf' \in [Tickets -> WorkflowRow]
        BY <2>3, StallTyped DEF RedriveTicket, TypeOK
      <3>2. rpc' \in [Tickets -> Rpc]
        BY <2>3 DEF RedriveTicket, TypeOK, Rpc
      <3> QED
        BY <2>3, <3>1, <3>2 DEF RedriveTicket, StartRpc, CountRequest, RpcUnchanged, TypeOK
    <2>4. CASE RpcSend(t)
      <3>1. rpc[t].target \in Targets
        BY <2>4, RpcTyped DEF RpcSend, TypeOK
      <3> QED
        BY <2>4, <3>1 DEF RpcSend, Send, RpcUnchanged, TypeOK, Request, Rpc
    <2>5. CASE StallWorkflow(t)
      <3>1. wf' \in [Tickets -> WorkflowRow]
        BY <2>5, StallTyped DEF StallWorkflow, TypeOK
      <3> QED
        BY <2>5, <3>1 DEF StallWorkflow, StartRpc, RpcUnchanged, TypeOK
    <2>6. CASE PollerCancels(t)
      BY <2>6, StatusTyped DEF PollerCancels, RpcUnchanged, TypeOK, LifecycleStatus
    <2>7. CASE CancelRead(t)
      BY <2>7 DEF CancelRead, RpcUnchanged, TypeOK, Rpc, NoRpc
    <2>8. CASE CancelSignal(t)
      <3>1. rpc' \in [Tickets -> Rpc]
        BY <2>8, RpcTyped DEF CancelSignal, TypeOK
      <3> QED
        BY <2>8, <3>1 DEF CancelSignal, TypeOK
    <2>9. CASE CancelIntents(t)
      <3>1. rpc' \in [Tickets -> Rpc]
        <4>1. NoRpc \in Rpc
          BY DEF Rpc
        <4>2. rpc \in [Tickets -> Rpc] /\ rpc[t] \in Rpc /\ rpc[t].op = "cancel_signalled"
          BY <2>9 DEF CancelIntents, TypeOK
        <4>3. [rpc[t] EXCEPT !.op = "cancel_deleted"] \in Rpc
          BY <4>2, RpcTyped
        <4>4. rpc' = [rpc EXCEPT ![t].op = "cancel_deleted"] \/ rpc' = [rpc EXCEPT ![t] = NoRpc]
          BY <2>9 DEF CancelIntents
        <4> QED
          BY <4>1, <4>2, <4>3, <4>4
      <3> QED
        BY <2>9, <3>1 DEF CancelIntents, Fault, RpcUnchanged, TypeOK
    <2>10. CASE CancelStatus(t)
      BY <2>10, StatusTyped DEF CancelStatus, Fault, RpcUnchanged, TypeOK, Rpc, LifecycleStatus
    <2> QED
      BY <1>10, <2>1, <2>2, <2>3, <2>4, <2>5, <2>6, <2>7, <2>8, <2>9, <2>10
         DEF SenderStep, RpcProgress
  <1>11. CASE UNCHANGED vars
    BY <1>11 DEF vars, TypeOK
  <1> QED
    BY <1>1, <1>2, <1>3, <1>4, <1>5, <1>6, <1>7, <1>8, <1>9, <1>10, <1>11
       DEF Next, CoordinatorStep, RecoverStep

\* Every variable keeps its type in every behaviour of the coordinator.
THEOREM TypeCorrect == Spec => []TypeOK
  BY TypeInit, TypeStep, PTL DEF Spec
-----------------------------------------------------------------------------
(* The inductive invariant. *)

Completed(t) == \E n \in 1..Len(completionRx) : completionRx[n] = t

\* A running task of a ticket that is not exposed is the one in the ticket's
\* slot, and its completion has not been sent.
OwnSlot ==
    \A k \in TaskIds :
        Live(k) /\ tasks[k].ticket \notin exposed =>
            /\ inFlight[tasks[k].ticket].task = k
            /\ inFlight[tasks[k].ticket].target = tasks[k].target
            /\ ~Completed(tasks[k].ticket)

\* A ticket that is not exposed has at most one completion under way.
OneCompletion ==
    \A m, n \in 1..Len(completionRx) :
        completionRx[m] = completionRx[n] /\ completionRx[m] \notin exposed => m = n

\* A ticket whose intent recover() has yet to process has nothing running.
RecoverFresh ==
    \A i \in toRecover :
        i.ticket \notin exposed =>
            /\ i \in intents
            /\ inFlight[i.ticket] = NoSlot
            /\ ~Completed(i.ticket)
            /\ \A k \in TaskIds : Live(k) => tasks[k].ticket # i.ticket
            /\ \A j \in toRecover : j.ticket = i.ticket => j = i

\* What a phase says about the rest of the memory.
PhaseInv ==
    /\ phase # "recovering" => toRecover = {}
    /\ phase = "down" =>
          /\ completionRx = <<>> /\ cancelRx = <<>>
          /\ \A t \in Tickets : inFlight[t] = NoSlot /\ rpc[t] = NoRpc
          /\ \A k \in TaskIds : tasks[k] = FreeTask

\* Whatever a cancellation touches is exposed.
CancelExposed ==
    /\ \A n \in 1..Len(cancelRx) : cancelRx[n] \in exposed
    /\ \A t \in Tickets : rpc[t].op = "cancel_signalled" => t \in exposed

IInv ==
    /\ TypeOK
    /\ OwnSlot
    /\ OneCompletion
    /\ RecoverFresh
    /\ PhaseInv
    /\ CancelExposed
    /\ CrashSafe

\* The server's memory and the intents, apart from the requests and RPCs.
core == <<phase, inFlight, tasks, toRecover, completionRx, cancelRx, exposed, intents>>

LEMMA IInvInit == Init => IInv
  <1> SUFFICES ASSUME Init PROVE IInv
    OBVIOUS
  <1>1. TypeOK
    BY TypeInit
  <1>2. \A k \in TaskIds : ~Live(k)
    BY DEF Init, Live, FreeTask
  <1>3. OwnSlot /\ OneCompletion /\ RecoverFresh /\ PhaseInv
    BY <1>2 DEF Init, OwnSlot, OneCompletion, RecoverFresh, PhaseInv
  <1>4. CancelExposed
    BY DEF Init, CancelExposed, NoRpc, None
  <1>5. CrashSafe
    BY <1>2 DEF Init, CrashSafe, TasksOf, NoSlot
  <1> QED
    BY <1>1, <1>3, <1>4, <1>5 DEF IInv

\* A step that touches neither the memory nor the intents.
LEMMA FrameStep ==
    ASSUME IInv, TypeOK', UNCHANGED core,
           phase = "down" => UNCHANGED rpc,
           \A t \in Tickets : rpc'[t].op = "cancel_signalled" => rpc[t].op = "cancel_signalled"
    PROVE  IInv'
  <1> USE DEF IInv, core
  <1>1. OwnSlot' /\ OneCompletion'
    BY DEF OwnSlot, OneCompletion, Live, Completed
  <1>2. RecoverFresh'
    BY DEF RecoverFresh, Live, Completed
  <1>3. PhaseInv' /\ CancelExposed'
    BY DEF PhaseInv, CancelExposed
  <1>4. CrashSafe'
    BY DEF CrashSafe, TasksOf, Live, Matching
  <1> QED
    BY <1>1, <1>2, <1>3, <1>4

\* A task moves on or is dropped; at the end of its cleanup its rows go.
LEMMA TaskMoves ==
    ASSUME IInv, TypeOK', NEW k \in TaskIds, Live(k), phase # "down",
           NEW pc \in TaskPc,
           tasks[k].pc = "notify" => pc = "notify",
           \/ tasks' = [tasks EXCEPT ![k] = FreeTask]
           \/ tasks' = [tasks EXCEPT ![k] = [tasks[k] EXCEPT !.pc = pc]],
           \/ intents' = intents
           \/ pc = "notify" /\ intents' = intents \ Matching(tasks[k].ticket, tasks[k].target),
           UNCHANGED <<phase, inFlight, toRecover, completionRx, cancelRx, exposed, rpc>>
    PROVE  IInv'
  <1> USE DEF IInv
  <1>0. tasks[k] \in [ticket : Tickets, target : Targets, pc : TaskPc, aborted : BOOLEAN]
    BY DEF TypeOK, Live, Task, FreeTask
  <1>1. \A j \in TaskIds :
          Live(j)' => /\ Live(j)
                      /\ tasks'[j].ticket = tasks[j].ticket
                      /\ tasks'[j].target = tasks[j].target
                      /\ tasks'[j].pc # "notify" => tasks[j].pc # "notify"
                      /\ tasks'[j].pc # "notify" /\ j = k => pc # "notify"
    BY <1>0 DEF TypeOK, Live, FreeTask
  <1>2. OwnSlot' /\ OneCompletion'
    BY <1>1 DEF OwnSlot, OneCompletion, Completed
  <1>3. RecoverFresh'
    BY <1>1, <1>0 DEF RecoverFresh, Completed, Matching
  <1>4. PhaseInv' /\ CancelExposed'
    BY DEF PhaseInv, CancelExposed
  <1>5. CrashSafe'
    <2> SUFFICES ASSUME NEW t \in Tickets \ exposed
                 PROVE  /\ \A j \in TasksOf(t)' :
                             tasks'[j].pc # "notify" /\ inFlight[t].previous # inFlight[t].target
                                 => Matching(t, tasks[j].target)' # {}
                        /\ inFlight[t].pending \notin {None, inFlight[t].target}
                             => Matching(t, inFlight[t].pending)' # {}
      BY DEF CrashSafe
    <2>1. ASSUME NEW j \in TaskIds, Live(j)', tasks'[j].ticket = t,
                 tasks'[j].pc # "notify", inFlight[t].previous # inFlight[t].target
          PROVE  Matching(t, tasks[j].target)' # {}
      <3>1. /\ Live(j) /\ tasks[j].ticket = t /\ tasks[j].pc # "notify"
            /\ tasks'[j].target = tasks[j].target
            /\ j = k => pc # "notify"
        BY <1>1, <2>1
      <3>2. PICK i \in intents : i.ticket = t /\ i.target = tasks[j].target
        BY <2>1, <3>1 DEF CrashSafe, TasksOf, Matching
      <3>3. j # k => tasks[k].ticket # t
        BY <3>1 DEF OwnSlot
      <3>4. i \in intents'
        BY <3>1, <3>2, <3>3 DEF Matching
      <3> QED
        BY <3>1, <3>2, <3>4 DEF Matching
    <2>2. ASSUME inFlight[t].pending \notin {None, inFlight[t].target}
          PROVE  Matching(t, inFlight[t].pending)' # {}
      <3>1. PICK i \in intents : i.ticket = t /\ i.target = inFlight[t].pending
        BY <2>2 DEF CrashSafe, Matching
      <3>2. tasks[k].ticket = t => tasks[k].target = inFlight[t].target
        BY DEF OwnSlot
      <3>3. i \in intents'
        BY <2>2, <3>1, <3>2 DEF Matching
      <3> QED
        BY <3>1, <3>3 DEF Matching
    <2> QED
      BY <2>1, <2>2 DEF TasksOf
  <1> QED
    BY <1>2, <1>3, <1>4, <1>5

LEMMA CompletionsTaken ==
    ASSUME TypeOK,
           \/ completionRx' = completionRx
           \/ completionRx # <<>> /\ completionRx' = Tail(completionRx)
    PROVE  \E d \in {0, 1} :
              \A n \in 1..Len(completionRx') :
                 n + d \in 1..Len(completionRx) /\ completionRx'[n] = completionRx[n + d]
  <1>1. CASE completionRx' = completionRx
    <2>1. \A n \in 1..Len(completionRx') :
             n + 0 \in 1..Len(completionRx) /\ completionRx'[n] = completionRx[n + 0]
      BY <1>1 DEF TypeOK
    <2> QED
      BY <2>1
  <1>2. CASE completionRx # <<>> /\ completionRx' = Tail(completionRx)
    <2>1. \A n \in 1..Len(completionRx') :
             n + 1 \in 1..Len(completionRx) /\ completionRx'[n] = completionRx[n + 1]
      BY <1>2 DEF TypeOK
    <2> QED
      BY <2>1
  <1> QED
    BY <1>1, <1>2

LEMMA OneCompletionTaken ==
    ASSUME TypeOK, OneCompletion, exposed' = exposed,
           \/ completionRx' = completionRx
           \/ completionRx # <<>> /\ completionRx' = Tail(completionRx)
    PROVE  OneCompletion'
  <1> PICK d \in {0, 1} :
        \A n \in 1..Len(completionRx') :
           n + d \in 1..Len(completionRx) /\ completionRx'[n] = completionRx[n + d]
    BY CompletionsTaken
  <1> SUFFICES ASSUME NEW m \in 1..Len(completionRx'), NEW n \in 1..Len(completionRx'),
                      completionRx'[m] = completionRx'[n], completionRx'[m] \notin exposed
               PROVE  m = n
    BY DEF OneCompletion
  <1>1. m + d = n + d
    BY DEF OneCompletion
  <1>2. m \in Int /\ n \in Int
    BY DEF TypeOK
  <1> QED
    BY <1>1, <1>2

\* spawn_handler_task for a ticket that has nothing running: a ticket with no
\* completion under way either, if it is not exposed.
LEMMA SpawnStep ==
    ASSUME IInv, TypeOK', NEW t \in Tickets, NEW s \in Targets, Spawn(t, s), phase # "down",
           t \notin exposed =>
               /\ \A k \in TaskIds : Live(k) => tasks[k].ticket # t
               /\ inFlight[t].target # s => Matching(t, s)' # {}
               /\ \A n \in 1..Len(completionRx') : completionRx'[n] # t
               /\ \A i \in toRecover' : i.ticket # t,
           UNCHANGED <<phase, cancelRx, exposed, rpc>>,
           intents \subseteq intents',
           toRecover' \subseteq toRecover,
           \/ completionRx' = completionRx
           \/ completionRx # <<>> /\ completionRx' = Tail(completionRx)
    PROVE  IInv'
  <1> USE DEF IInv
  <1>1. PICK k \in TaskIds :
          /\ ~Live(k) /\ \A u \in Tickets : inFlight[u].task # k
          /\ tasks' = [tasks EXCEPT ![k] = [ticket |-> t, target |-> s,
                                            pc |-> "status", aborted |-> FALSE]]
          /\ inFlight' = [inFlight EXCEPT ![t] = [task |-> k, target |-> s,
                                                  previous |-> inFlight[t].target,
                                                  pending |-> None]]
    BY DEF Spawn, NextTask, Unused
  <1>2. /\ tasks'[k].ticket = t /\ tasks'[k].target = s /\ tasks'[k].pc = "status"
        /\ \A j \in TaskIds \ {k} : tasks'[j] = tasks[j]
        /\ inFlight'[t].task = k /\ inFlight'[t].target = s /\ inFlight'[t].pending = None
        /\ inFlight'[t].previous = inFlight[t].target
        /\ \A u \in Tickets \ {t} : inFlight'[u] = inFlight[u]
    BY <1>1 DEF TypeOK
  <1>3. \A u \in Tickets : Completed(u)' => Completed(u)
    BY CompletionsTaken DEF Completed
  <1>4. OneCompletion'
    BY OneCompletionTaken
  <1>5. OwnSlot'
    BY <1>2, <1>3, LiveTyped DEF OwnSlot, Live, Completed
  <1>6. RecoverFresh'
    <2> SUFFICES ASSUME NEW i \in toRecover', i.ticket \notin exposed
                 PROVE  /\ i \in intents' /\ inFlight'[i.ticket] = NoSlot /\ ~Completed(i.ticket)'
                        /\ \A j \in TaskIds : Live(j)' => tasks'[j].ticket # i.ticket
                        /\ \A j \in toRecover' : j.ticket = i.ticket => j = i
      BY DEF RecoverFresh
    <2>1. i.ticket \in Tickets /\ i.ticket # t
      BY DEF TypeOK, Intent
    <2> QED
      BY <1>2, <1>3, <2>1 DEF RecoverFresh, Live
  <1>7. PhaseInv' /\ CancelExposed'
    BY DEF PhaseInv, CancelExposed
  <1>8. CrashSafe'
    <2> SUFFICES ASSUME NEW u \in Tickets \ exposed
                 PROVE  /\ \A j \in TasksOf(u)' :
                             tasks'[j].pc # "notify" /\ inFlight'[u].previous # inFlight'[u].target
                                 => Matching(u, tasks[j].target)' # {}
                        /\ inFlight'[u].pending \notin {None, inFlight'[u].target}
                             => Matching(u, inFlight[u].pending)' # {}
      BY DEF CrashSafe
    <2>1. CASE u = t
      BY <1>2, <2>1 DEF TasksOf, Live
    <2>2. CASE u # t
      BY <1>2, <2>2 DEF CrashSafe, TasksOf, Live, Matching
    <2> QED
      BY <2>1, <2>2
  <1> QED
    BY <1>4, <1>5, <1>6, <1>7, <1>8

LEMMA HandleCancelStep == ASSUME IInv, TypeOK', HandleCancel PROVE IInv'
  <1> USE DEF IInv
  <1>0. 1 \in 1..Len(cancelRx) /\ Head(cancelRx) = cancelRx[1] /\ cancelRx[1] \in Tickets
    BY DEF HandleCancel, TypeOK
  <1> PICK t \in Tickets : t = Head(cancelRx)
    BY <1>0
  <1>1. t \in Tickets /\ t \in exposed
    BY <1>0 DEF CancelExposed
  <1>2. /\ inFlight' = [inFlight EXCEPT ![t] = NoSlot]
        /\ cancelRx' = Tail(cancelRx) /\ cancelRx # <<>>
        /\ phase = "running"
        /\ UNCHANGED <<phase, toRecover, completionRx, exposed, intents, rpc>>
    BY DEF HandleCancel, database, observers
  <1>3. \A j \in TaskIds : /\ tasks'[j].pc = tasks[j].pc
                           /\ tasks'[j].ticket = tasks[j].ticket
                           /\ tasks'[j].target = tasks[j].target
    <2> DEFINE k == inFlight[t].task
    <2>1. CASE k # NoTask /\ Live(k)
      <3>1. k \in TaskIds
        BY <1>1, <2>1 DEF TypeOK, Slot
      <3>2. tasks' = [tasks EXCEPT ![k].aborted = TRUE]
        BY <2>1 DEF HandleCancel
      <3>3. tasks[k] \in [ticket : Tickets, target : Targets, pc : TaskPc, aborted : BOOLEAN]
        BY <3>1, <2>1, SMTT(30) DEF TypeOK, Live, Task, FreeTask
      <3> QED
        BY <3>1, <3>2, <3>3 DEF TypeOK
    <2>2. CASE ~(k # NoTask /\ Live(k))
      BY <2>2 DEF HandleCancel
    <2> QED
      BY <2>1, <2>2
  <1>4. \A u \in Tickets \ exposed : inFlight'[u] = inFlight[u]
    BY <1>1, <1>2 DEF TypeOK
  <1>5. OwnSlot' /\ OneCompletion'
    BY <1>2, <1>3, <1>4, LiveTyped DEF OwnSlot, OneCompletion, Completed, Live
  <1>6. RecoverFresh' /\ PhaseInv'
    BY <1>2 DEF RecoverFresh, PhaseInv
  <1>7. CancelExposed'
    <2>1. \A n \in 1..Len(cancelRx') : n + 1 \in 1..Len(cancelRx) /\ cancelRx'[n] = cancelRx[n + 1]
      BY <1>2 DEF TypeOK
    <2> QED
      BY <1>2, <2>1 DEF CancelExposed
  <1>8. CrashSafe'
    BY <1>2, <1>3, <1>4 DEF CrashSafe, TasksOf, Live, Matching
  <1> QED
    BY <1>5, <1>6, <1>7, <1>8

LEMMA HandleCompletionStep == ASSUME IInv, TypeOK', HandleCompletion PROVE IInv'
  <1> USE DEF IInv
  <1> PICK t \in Tickets : t = Head(completionRx)
    BY DEF HandleCompletion, TypeOK
  <1>1. /\ t \in Tickets /\ Completed(t)
        /\ completionRx # <<>> /\ completionRx' = Tail(completionRx)
        /\ phase = "running" /\ toRecover = {}
        /\ UNCHANGED <<phase, toRecover, cancelRx, exposed, intents, rpc>>
    BY DEF HandleCompletion, database, observers, Completed, TypeOK, PhaseInv
  <1>2. ASSUME t \notin exposed
        PROVE  /\ \A n \in 1..Len(completionRx') : completionRx'[n] # t
               /\ \A k \in TaskIds : Live(k) => tasks[k].ticket # t
    <2>1. \A n \in 1..Len(completionRx') :
             /\ n \in Int /\ n + 1 \in 1..Len(completionRx)
             /\ completionRx'[n] = completionRx[n + 1]
      BY <1>1 DEF TypeOK
    <2>2. 1 \in 1..Len(completionRx) /\ completionRx[1] = t
      BY <1>1 DEF TypeOK
    <2>3. \A n \in 1..Len(completionRx') : completionRx'[n] # t
      BY <1>2, <2>1, <2>2 DEF OneCompletion
    <2> QED
      BY <1>1, <1>2, <2>3 DEF OwnSlot
  <1>3. CASE HasPending(t)
    <2> PICK s \in Targets : s = inFlight[t].pending
      BY <1>3 DEF HasPending, TypeOK, Slot
    <2>1. s # None /\ Spawn(t, s)
      BY <1>3 DEF HandleCompletion, HasPending
    <2>2. t \notin exposed /\ inFlight[t].target # s => Matching(t, s) # {}
      BY <1>1, <2>1 DEF CrashSafe
    <2>3. Matching(t, s)' = Matching(t, s)
      BY <1>1 DEF Matching
    <2> QED
      BY <1>1, <1>2, <2>1, <2>2, <2>3, SpawnStep
  <1>4. CASE ~HasPending(t)
    <2>1. tasks' = tasks /\ inFlight' = [inFlight EXCEPT ![t] = NoSlot]
      BY <1>4 DEF HandleCompletion
    <2>2. \A u \in Tickets \ {t} : inFlight'[u] = inFlight[u]
      BY <2>1 DEF TypeOK
    <2>3. inFlight'[t] = NoSlot
      BY <1>1, <2>1 DEF TypeOK
    <2>4. \A u \in Tickets : Completed(u)' => Completed(u)
      BY <1>1, CompletionsTaken DEF Completed
    <2>5. OwnSlot'
      BY <1>1, <1>2, <2>1, <2>2, <2>4, LiveTyped DEF OwnSlot, Live
    <2>6. OneCompletion'
      BY <1>1, OneCompletionTaken
    <2>7. RecoverFresh' /\ PhaseInv' /\ CancelExposed'
      BY <1>1 DEF RecoverFresh, PhaseInv, CancelExposed
    <2>8. CrashSafe'
      BY <1>1, <1>2, <2>1, <2>2, <2>3 DEF CrashSafe, TasksOf, Live, Matching, NoSlot
    <2> QED
      BY <2>5, <2>6, <2>7, <2>8
  <1> QED
    BY <1>3, <1>4

LEMMA HandleRequestStep == ASSUME IInv, TypeOK', HandleRequest PROVE IInv'
  <1> USE DEF IInv
  <1>0. Head(rx) \in Request
    BY DEF HandleRequest, ReceiveRequest, TypeOK
  <1> PICK t \in Tickets, s \in Targets : t = Head(rx).ticket /\ s = Head(rx).target
    BY <1>0 DEF Request
  <1> PICK i : i = [id |-> nextIntent, ticket |-> t, target |-> s]
    OBVIOUS
  <1>1. /\ intents' = intents \cup {i}
        /\ phase = "running" /\ toRecover = {}
        /\ completionRx = <<>>
        /\ UNCHANGED <<phase, completionRx, toRecover, cancelRx, exposed, rpc>>
    BY DEF HandleRequest, ReceiveRequest, PhaseInv
  <1>2. i \in Matching(t, s)'
    BY <1>1 DEF Matching
  <1>3. CASE IsInFlight(t)
    <2>1. tasks' = tasks /\ inFlight' = [inFlight EXCEPT ![t] = Replaced(inFlight[t], s)]
      BY <1>3 DEF HandleRequest
    <2>2. /\ \A u \in Tickets \ {t} : inFlight'[u] = inFlight[u]
          /\ \A u \in Tickets : /\ inFlight'[u].task = inFlight[u].task
                               /\ inFlight'[u].target = inFlight[u].target
                               /\ inFlight'[u].previous = inFlight[u].previous
          /\ inFlight'[t].pending = s
      BY <2>1 DEF TypeOK, Replaced, Slot
    <2>3. OwnSlot' /\ OneCompletion'
      BY <1>1, <2>1, <2>2, LiveTyped DEF OwnSlot, OneCompletion, Live, Completed
    <2>4. RecoverFresh' /\ PhaseInv' /\ CancelExposed'
      BY <1>1 DEF RecoverFresh, PhaseInv, CancelExposed
    <2>5. \A u \in Tickets, r \in Targets : Matching(u, r) \subseteq Matching(u, r)'
      BY <1>1 DEF Matching
    <2>6. CrashSafe'
      BY <1>1, <1>2, <2>1, <2>2, <2>5 DEF CrashSafe, TasksOf, Live, Matching
    <2> QED
      BY <2>3, <2>4, <2>6
  <1>4. CASE ~IsInFlight(t)
    <2>1. Spawn(t, s)
      BY <1>4 DEF HandleRequest
    <2>2. t \notin exposed => \A k \in TaskIds : Live(k) => tasks[k].ticket # t
      BY <1>4, TaskIdsAssumption DEF OwnSlot, IsInFlight, NoSlot, NoTask
    <2> QED
      BY <1>1, <1>2, <2>1, <2>2, SpawnStep
  <1> QED
    BY <1>3, <1>4

LEMMA RecoverOneStep == ASSUME IInv, TypeOK', RecoverOne PROVE IInv'
  <1> USE DEF IInv
  <1> PICK i \in toRecover :
        /\ toRecover' = toRecover \ {i}
        /\ \/ intents' \in {intents, intents \ {i}} /\ UNCHANGED <<tasks, inFlight>>
           \/ Spawn(i.ticket, i.target) /\ UNCHANGED intents
    BY DEF RecoverOne, Recovered
  <1>1. i.ticket \in Tickets /\ i.target \in Targets
    BY DEF TypeOK, Intent
  <1>2. /\ phase = "recovering"
        /\ UNCHANGED <<phase, completionRx, cancelRx, exposed, rpc>>
    BY DEF RecoverOne, channels, observers
  <1>3. CASE intents' \in {intents, intents \ {i}} /\ UNCHANGED <<tasks, inFlight>>
    <2>1. OwnSlot' /\ OneCompletion'
      BY <1>2, <1>3 DEF OwnSlot, OneCompletion, Live, Completed
    <2>2. RecoverFresh'
      BY <1>2, <1>3 DEF RecoverFresh, Live, Completed
    <2>3. PhaseInv' /\ CancelExposed'
      BY <1>2, <1>3 DEF PhaseInv, CancelExposed
    <2>4. i.ticket \notin exposed =>
             /\ inFlight[i.ticket] = NoSlot
             /\ \A k \in TaskIds : Live(k) => tasks[k].ticket # i.ticket
      BY DEF RecoverFresh
    <2>5. CrashSafe'
      BY <1>2, <1>3, <2>4 DEF CrashSafe, TasksOf, Live, Matching, NoSlot
    <2> QED
      BY <2>1, <2>2, <2>3, <2>5
  <1>4. CASE Spawn(i.ticket, i.target) /\ UNCHANGED intents
    <2>1. i.ticket \notin exposed => i \in Matching(i.ticket, i.target)'
      BY <1>4 DEF RecoverFresh, Matching
    <2>2. i.ticket \notin exposed =>
             /\ \A k \in TaskIds : Live(k) => tasks[k].ticket # i.ticket
             /\ \A n \in 1..Len(completionRx') : completionRx'[n] # i.ticket
             /\ \A j \in toRecover' : j.ticket # i.ticket
      BY <1>2 DEF RecoverFresh, Completed
    <2> QED
      BY <1>1, <1>2, <1>4, <2>1, <2>2, SpawnStep
  <1> QED
    BY <1>3, <1>4

LEMMA TaskNotifyStep ==
    ASSUME IInv, TypeOK', NEW k \in TaskIds, TaskNotify(k) PROVE IInv'
  <1> USE DEF IInv
  <1> PICK t \in Tickets : t = tasks[k].ticket
    BY LiveTyped DEF TaskNotify, TaskAt, Live
  <1>1. /\ Live(k) /\ phase # "down"
        /\ tasks' = [tasks EXCEPT ![k] = FreeTask]
        /\ completionRx' = Append(completionRx, t)
        /\ UNCHANGED <<phase, inFlight, toRecover, cancelRx, exposed, intents, rpc>>
    BY DEF TaskNotify, TaskAt, Live, Notified, database, observers
  <1>2. /\ ~Live(k)'
        /\ \A j \in TaskIds \ {k} : tasks'[j] = tasks[j]
    BY <1>1 DEF Live, FreeTask, TypeOK
  <1>3. /\ Len(completionRx) \in Nat /\ Len(completionRx') = Len(completionRx) + 1
        /\ completionRx'[Len(completionRx')] = t
        /\ \A n \in 1..Len(completionRx) : completionRx'[n] = completionRx[n]
    BY <1>1 DEF TypeOK
  <1>4. \A u \in Tickets : Completed(u)' => Completed(u) \/ u = t
    BY <1>3 DEF Completed
  <1>5. t \notin exposed => ~Completed(t) /\ \A j \in TaskIds \ {k} : Live(j) => tasks[j].ticket # t
    BY <1>1 DEF OwnSlot
  <1>6. OwnSlot'
    BY <1>1, <1>2, <1>4, <1>5, LiveTyped DEF OwnSlot, Live
  <1>7. OneCompletion'
    BY <1>1, <1>3, <1>5 DEF OneCompletion, Completed
  <1>8. RecoverFresh'
    <2>1. \A i \in toRecover : i.ticket \notin exposed => i.ticket \in Tickets /\ i.ticket # t
      BY <1>1 DEF RecoverFresh, TypeOK, Intent
    <2> QED
      BY <1>1, <1>2, <1>4, <2>1 DEF RecoverFresh, Live
  <1>9. PhaseInv' /\ CancelExposed'
    BY <1>1 DEF PhaseInv, CancelExposed
  <1>10. CrashSafe'
    BY <1>1, <1>2 DEF CrashSafe, TasksOf, Live, Matching
  <1> QED
    BY <1>6, <1>7, <1>8, <1>9, <1>10

LEMMA TaskStepStep ==
    ASSUME IInv, TypeOK', NEW k \in TaskIds, TaskStep(k) PROVE IInv'
  <1> USE DEF channels, database, observers, counters
  <1>1. CASE TaskStatus(k)
    BY <1>1, TaskMoves DEF TaskStatus, TaskAt, Live, Advance, TaskUnchanged, TaskPc
  <1>2. CASE TaskSync(k)
    BY <1>2, TaskMoves DEF TaskSync, TaskAt, Live, Advance, TaskUnchanged, TaskPc
  <1>3. CASE TaskBody(k)
    BY <1>3, TaskMoves DEF TaskBody, TaskAt, Live, Advance, TaskUnchanged, TaskPc
  <1>4. ASSUME NEW ok \in BOOLEAN, TaskReturns(k, ok) PROVE IInv'
    BY <1>4, TaskMoves DEF TaskReturns, TaskAt, Live, Advance, TaskUnchanged, TaskPc
  <1>5. CASE TaskFail(k)
    BY <1>5, TaskMoves DEF TaskFail, TaskAt, Live, Advance, TaskUnchanged, TaskPc
  <1>6. CASE TaskCleanup(k)
    BY <1>6, TaskMoves DEF TaskCleanup, TaskAt, Live, Advance, TaskUnchanged, TaskPc
  <1>7. CASE TaskNotify(k)
    BY <1>7, TaskNotifyStep
  <1>8. CASE TaskDropped(k)
    <2>1. Live(k) /\ tasks[k].pc \in TaskPc
      BY <1>8 DEF IInv, TypeOK, TaskDropped, Live, Task, FreeTask, TaskPc
    <2>2. phase # "down"
      BY <2>1 DEF IInv, PhaseInv, Live, FreeTask
    <2> QED
      BY <1>8, <2>1, <2>2, TaskMoves DEF TaskDropped
  <1> QED
    BY <1>1, <1>2, <1>3, <1>4, <1>5, <1>6, <1>7, <1>8 DEF TaskStep

LEMMA CrashStep == ASSUME IInv, TypeOK', Crash PROVE IInv'
  <1>1. \A k \in TaskIds : ~Live(k)'
    BY DEF Crash, Live, FreeTask
  <1>2. OwnSlot' /\ OneCompletion' /\ RecoverFresh'
    BY <1>1 DEF Crash, OwnSlot, OneCompletion, RecoverFresh
  <1>3. PhaseInv'
    BY DEF Crash, PhaseInv
  <1>4. CancelExposed'
    BY DEF Crash, CancelExposed, NoRpc, None
  <1>5. CrashSafe'
    BY <1>1 DEF Crash, CrashSafe, TasksOf, NoSlot
  <1> QED
    BY <1>2, <1>3, <1>4, <1>5 DEF IInv

LEMMA RestartStep == ASSUME IInv, TypeOK', Restart PROVE IInv'
  <1> USE DEF IInv
  <1>1. /\ phase = "down" /\ phase' = "recovering"
        /\ UNCHANGED <<rx, cancelRx, completionRx, inFlight, tasks, rpc, intents>>
    BY DEF Restart, channels, database
  <1>2. /\ \A k \in TaskIds : ~Live(k)'
        /\ completionRx' = <<>> /\ cancelRx' = <<>>
        /\ \A t \in Tickets : inFlight'[t] = NoSlot /\ rpc'[t] = NoRpc
    BY <1>1 DEF PhaseInv, Live, FreeTask
  <1>3. OwnSlot' /\ OneCompletion'
    BY <1>2 DEF OwnSlot, OneCompletion
  <1>4. RecoverFresh'
    <2>1. toRecover' \subseteq intents
      BY DEF Restart, Listed
    <2> QED
      BY <1>1, <1>2, <2>1 DEF RecoverFresh, Restart, Completed, TypeOK, Intent
  <1>5. PhaseInv' /\ CancelExposed'
    BY <1>1, <1>2 DEF PhaseInv, CancelExposed, NoRpc, None
  <1>6. CrashSafe'
    BY <1>2 DEF CrashSafe, TasksOf, NoSlot
  <1> QED
    BY <1>3, <1>4, <1>5, <1>6

LEMMA RecoverDoneStep == ASSUME IInv, TypeOK', RecoverDone PROVE IInv'
  <1> USE DEF IInv
  <1>1. /\ phase = "recovering" /\ phase' = "running" /\ toRecover = {}
        /\ UNCHANGED <<cancelRx, completionRx, inFlight, tasks, toRecover, exposed, rpc, intents>>
    BY DEF RecoverDone, channels, database, observers
  <1>2. OwnSlot' /\ OneCompletion' /\ RecoverFresh'
    BY <1>1 DEF OwnSlot, OneCompletion, RecoverFresh, Live, Completed
  <1>3. PhaseInv' /\ CancelExposed'
    BY <1>1 DEF PhaseInv, CancelExposed
  <1>4. CrashSafe'
    BY <1>1 DEF CrashSafe, TasksOf, Live, Matching
  <1> QED
    BY <1>2, <1>3, <1>4

LEMMA CancelSignalStep ==
    ASSUME IInv, TypeOK', NEW t \in Tickets, CancelSignal(t) PROVE IInv'
  <1> USE DEF IInv
  <1>1. /\ cancelRx' = Append(cancelRx, t) /\ exposed' = exposed \cup {t}
        /\ phase # "down"
        /\ UNCHANGED <<completionRx, phase, inFlight, tasks, toRecover, intents>>
    BY DEF CancelSignal, database, PhaseInv, NoRpc, None
  <1>2. OwnSlot' /\ OneCompletion' /\ RecoverFresh'
    BY <1>1 DEF OwnSlot, OneCompletion, RecoverFresh, Live, Completed
  <1>3. PhaseInv'
    BY <1>1 DEF PhaseInv
  <1>4. CancelExposed'
    <2>1. \A n \in 1..Len(cancelRx') : \/ n \in 1..Len(cancelRx) /\ cancelRx'[n] = cancelRx[n]
                                       \/ cancelRx'[n] = t
      BY <1>1 DEF TypeOK
    <2>2. \A u \in Tickets \ {t} : rpc'[u] = rpc[u]
      BY DEF CancelSignal, TypeOK
    <2> QED
      BY <1>1, <2>1, <2>2 DEF CancelExposed
  <1>5. CrashSafe'
    BY <1>1 DEF CrashSafe, TasksOf, Live, Matching
  <1> QED
    BY <1>2, <1>3, <1>4, <1>5

LEMMA CancelIntentsStep ==
    ASSUME IInv, TypeOK', NEW t \in Tickets, CancelIntents(t) PROVE IInv'
  <1> USE DEF IInv
  <1>1. /\ t \in exposed /\ phase # "down"
        /\ intents' \in {intents, {i \in intents : i.ticket # t}}
        /\ UNCHANGED <<cancelRx, completionRx, phase, inFlight, tasks, toRecover, exposed>>
    BY DEF CancelIntents, RpcUnchanged, observers, CancelExposed, PhaseInv, NoRpc, None
  <1>2. OwnSlot' /\ OneCompletion' /\ RecoverFresh'
    BY <1>1 DEF OwnSlot, OneCompletion, RecoverFresh, Live, Completed
  <1>3. PhaseInv'
    BY <1>1 DEF PhaseInv
  <1>4. CancelExposed'
    <2>1. \A u \in Tickets : rpc'[u].op = "cancel_signalled" => rpc[u].op = "cancel_signalled"
      BY DEF CancelIntents, TypeOK, NoRpc, None
    <2> QED
      BY <1>1, <2>1 DEF CancelExposed
  <1>5. CrashSafe'
    BY <1>1 DEF CrashSafe, TasksOf, Live, Matching
  <1> QED
    BY <1>2, <1>3, <1>4, <1>5

LEMMA SenderStepStep ==
    ASSUME IInv, TypeOK', NEW t \in Tickets, SenderStep(t) PROVE IInv'
  <1> USE DEF channels, memory, database, observers, counters, core
  <1>0. rpc \in [Tickets -> Rpc]
    BY DEF IInv, TypeOK
  <1>1. ASSUME NEW s \in Targets, Submit(t, s) PROVE IInv'
    BY <1>1, FrameStep DEF Submit
  <1>2. ASSUME NEW s \in Targets, CreateWorkflow(t, s) PROVE IInv'
    BY <1>0, <1>2, FrameStep DEF CreateWorkflow, StartRpc, RpcUnchanged
  <1>3. ASSUME NEW s \in Targets, RedriveTicket(t, s) PROVE IInv'
    BY <1>0, <1>3, FrameStep DEF RedriveTicket, StartRpc, RpcUnchanged
  <1>4. CASE RpcSend(t)
    BY <1>0, <1>4, FrameStep DEF RpcSend, Send, RpcUnchanged, NoRpc, None
  <1>5. CASE StallWorkflow(t)
    BY <1>5, FrameStep DEF StallWorkflow, RpcUnchanged
  <1>6. CASE PollerCancels(t)
    BY <1>6, FrameStep DEF PollerCancels, RpcUnchanged
  <1>7. CASE CancelRead(t)
    BY <1>0, <1>7, FrameStep DEF CancelRead, RpcUnchanged
  <1>8. CASE CancelStatus(t)
    <2>1. phase # "down"
      BY <1>8 DEF CancelStatus, IInv, PhaseInv, NoRpc, None
    <2> QED
      BY <1>0, <1>8, <2>1, FrameStep DEF CancelStatus, RpcUnchanged, NoRpc, None
  <1> QED
    BY <1>1, <1>2, <1>3, <1>4, <1>5, <1>6, <1>7, <1>8, CancelSignalStep, CancelIntentsStep
       DEF SenderStep, RpcProgress

LEMMA IInvStep == IInv /\ [Next]_vars => IInv'
  <1> SUFFICES ASSUME IInv, [Next]_vars PROVE IInv'
    OBVIOUS
  <1>0. TypeOK'
    BY TypeStep DEF IInv
  <1>1. CASE CoordinatorStep
    <2>1. CASE HandleRequestFault
      BY <1>0, <2>1, FrameStep
         DEF HandleRequestFault, core, memory, database, observers
    <2> QED
      BY <1>0, <1>1, <2>1, HandleCancelStep, HandleCompletionStep, HandleRequestStep
         DEF CoordinatorStep
  <1>2. CASE RecoverStep
    BY <1>0, <1>2, RecoverOneStep, RecoverDoneStep DEF RecoverStep
  <1>3. CASE UNCHANGED vars
    BY <1>0, <1>3, FrameStep DEF vars, core, channels, memory, database, observers
  <1> QED
    BY <1>0, <1>1, <1>2, <1>3, CrashStep, RestartStep, TaskStepStep, SenderStepStep DEF Next

\* Handlers of a ticket never overlap, unless the ticket was cancelled in this
\* server run or was recovered from two intents.
THEOREM SerializedCorrect == Spec => []Serialized
  <1>1. IInv => Serialized
    BY DEF IInv, OwnSlot, Serialized, TasksOf
  <1> QED
    BY <1>1, IInvInit, IInvStep, PTL DEF Spec

\* A crash loses no accepted work of such a ticket: its running handler and
\* the request waiting behind it have their intent rows.
THEOREM CrashSafeCorrect == Spec => []CrashSafe
  <1>1. IInv => CrashSafe
    BY DEF IInv
  <1> QED
    BY <1>1, IInvInit, IInvStep, PTL DEF Spec


-----------------------------------------------------------------------------
(* The coordinator implements TransitionQueue.  What the mapping needs more. *)

\* A slot that is taken has a task and its target.
SlotShape ==
    \A t \in Tickets : inFlight[t] = NoSlot \/ (inFlight[t].task \in TaskIds /\ inFlight[t].target \in Targets)

\* A live task in a slot was spawned for the slot's ticket: no handle is
\* reused while a slot holds it.
SlotOwned ==
    \A t \in Tickets : \A k \in TaskIds :
        inFlight[t].task = k /\ Live(k) => tasks[k].ticket = t

\* A completion that is under way finds the slot it is about.
CompletionHasSlot ==
    \A n \in 1..Len(completionRx) :
        completionRx[n] \notin exposed => inFlight[completionRx[n]] # NoSlot

\* While recover() runs, a ticket that is not exposed has one intent at most.
OneIntent ==
    phase = "recovering" =>
        \A i, j \in intents : i.ticket = j.ticket /\ i.ticket \notin exposed => i = j

\* Nobody aborts a task but the cancellation of its ticket.
AbortedExposed ==
    \A k \in TaskIds : tasks[k].aborted => tasks[k].ticket \in exposed

RInv == SlotShape /\ SlotOwned /\ CompletionHasSlot /\ OneIntent /\ AbortedExposed

\* What the abstract queue sees of a ticket does not change.
SameView(u) ==
    /\ JobOf(u)' = JobOf(u)
    /\ inFlight'[u].pending = inFlight[u].pending
    /\ Recorded(u)' = Recorded(u)

AbstractStep == [Queue!Next]_(Queue!queueVars)

LEMMA OnlyTicketSeen ==
    ASSUME NEW t \in Tickets, UNCHANGED <<phase, exposed>>,
           \A u \in Tickets \ {t} : SameView(u)
    PROVE  Queue!OnlyTicket(t)
  BY DEF Queue!OnlyTicket, SameView

LEMMA NothingSeen ==
    ASSUME UNCHANGED <<phase, exposed>>, \A u \in Tickets : SameView(u)
    PROVE  AbstractStep
  BY DEF AbstractStep, Queue!queueVars, SameView

LEMMA AnythingSeen ==
    ASSUME NEW t \in Tickets, t \in exposed, UNCHANGED <<phase, exposed>>,
           \A u \in Tickets \ {t} : SameView(u)
    PROVE  AbstractStep
  BY OnlyTicketSeen DEF AbstractStep, Queue!Next, Queue!Anything

LEMMA RecordedKept ==
    ASSUME NEW u, intents' = intents
    PROVE  Recorded(u)' = Recorded(u)
  BY DEF Recorded

LEMMA JobKept ==
    ASSUME IInv, NEW u \in Tickets, inFlight'[u] = inFlight[u],
           \A k \in TaskIds : inFlight[u].task = k => Live(k)' = Live(k)
    PROVE  JobOf(u)' = JobOf(u) /\ inFlight'[u].pending = inFlight[u].pending
  <1>1. inFlight[u].task = NoTask \/ inFlight[u].task \in TaskIds
    BY DEF IInv, TypeOK, Slot
  <1>2. CASE inFlight[u].task = NoTask
    BY <1>2 DEF JobOf, Working
  <1>3. CASE inFlight[u].task \in TaskIds
    <2>1. Live(inFlight[u].task)' = Live(inFlight[u].task)
      BY <1>3 DEF Live
    <2> QED
      BY <2>1 DEF JobOf, Working
  <1> QED
    BY <1>1, <1>2, <1>3

LEMMA RInvInit == Init => RInv
  BY DEF Init, RInv, SlotShape, SlotOwned, CompletionHasSlot, OneIntent, AbortedExposed,
         Live, FreeTask, NoSlot

LEMMA RefineFrame ==
    ASSUME IInv, RInv, UNCHANGED core
    PROVE  RInv' /\ AbstractStep
  <1>1. RInv'
    BY DEF RInv, SlotShape, SlotOwned, CompletionHasSlot, OneIntent, AbortedExposed, Live, core
  <1>2. \A u \in Tickets : SameView(u)
    BY RecordedKept DEF SameView, JobOf, Working, Live, core
  <1> QED
    BY <1>1, <1>2, NothingSeen DEF core

\* A task moves on, or is dropped if it was aborted.
LEMMA RefineTask ==
    ASSUME IInv, RInv, NEW k \in TaskIds, Live(k), NEW pc \in TaskPc,
           \/ tasks[k].aborted /\ tasks' = [tasks EXCEPT ![k] = FreeTask]
           \/ ~tasks[k].aborted /\ tasks' = [tasks EXCEPT ![k] = [tasks[k] EXCEPT !.pc = pc]],
           \/ intents' = intents
           \/ intents' = intents \ Matching(tasks[k].ticket, tasks[k].target),
           UNCHANGED <<phase, inFlight, completionRx, exposed>>
    PROVE  RInv' /\ AbstractStep
  <1> USE DEF IInv
  <1>0. tasks[k] \in [ticket : Tickets, target : Targets, pc : TaskPc, aborted : BOOLEAN]
    BY DEF TypeOK, Live, Task, FreeTask
  <1>1. /\ \A j \in TaskIds \ {k} : tasks'[j] = tasks[j]
        /\ \/ tasks[k].aborted /\ tasks'[k] = FreeTask
           \/ /\ ~tasks[k].aborted /\ Live(k)'
              /\ tasks'[k].ticket = tasks[k].ticket /\ tasks'[k].aborted = tasks[k].aborted
    BY <1>0 DEF TypeOK, Live, TaskPc
  <1>2. intents' \subseteq intents
    OBVIOUS
  <1>3. SlotShape' /\ CompletionHasSlot' /\ OneIntent'
    BY <1>2 DEF RInv, SlotShape, CompletionHasSlot, OneIntent
  <1>4. SlotOwned' /\ AbortedExposed'
    BY <1>1 DEF RInv, SlotOwned, AbortedExposed, Live, FreeTask
  <1> PICK t \in Tickets : t = tasks[k].ticket
    BY <1>0
  <1>5. \A u \in Tickets \ {t} : JobOf(u)' = JobOf(u) /\ inFlight'[u].pending = inFlight[u].pending
    <2>1. \A u \in Tickets \ {t} : inFlight[u].task # k
      BY DEF RInv, SlotOwned
    <2> QED
      BY <1>1, <2>1, JobKept DEF Live
  <1>6. \A u \in Tickets \ {t} : Recorded(u)' = Recorded(u)
    BY DEF Recorded, Matching
  <1>7. CASE t \in exposed
    BY <1>3, <1>4, <1>5, <1>6, <1>7, AnythingSeen DEF RInv, SameView
  <1>8. CASE t \notin exposed
    <2>1. ~tasks[k].aborted
      BY <1>8 DEF RInv, AbortedExposed
    <2>2. JobOf(t)' = JobOf(t) /\ inFlight'[t].pending = inFlight[t].pending
      BY <1>1, <2>1, JobKept DEF Live
    <2>3. inFlight[t].task = k /\ inFlight[t].target = tasks[k].target
      BY <1>8 DEF OwnSlot
    <2>4. CASE intents' = intents
      BY <1>3, <1>4, <1>5, <2>2, <2>4, RecordedKept, NothingSeen DEF RInv, SameView
    <2>5. CASE intents' = intents \ Matching(tasks[k].ticket, tasks[k].target)
      <3>1. Recorded(t)' = Recorded(t) \ {inFlight[t].target}
        BY <2>3, <2>5 DEF Recorded, Matching
      <3>2. JobOf(t).working /\ JobOf(t).target = inFlight[t].target
        BY <2>3, TaskIdsAssumption DEF JobOf, Working
      <3>3. Queue!OnlyTicket(t)
        BY <1>5, <1>6, OnlyTicketSeen DEF SameView
      <3>4. Queue!Settle(t)
        BY <2>2, <3>1, <3>2, <3>3 DEF Queue!Settle
      <3> QED
        BY <1>3, <1>4, <3>4 DEF RInv, AbstractStep, Queue!Next
    <2> QED
      BY <2>4, <2>5
  <1> QED
    BY <1>7, <1>8

\* A task sends its completion and ends.
LEMMA RefineNotify ==
    ASSUME IInv, RInv, NEW k \in TaskIds, TaskNotify(k)
    PROVE  RInv' /\ AbstractStep
  <1> USE DEF IInv
  <1> PICK t \in Tickets : t = tasks[k].ticket
    BY LiveTyped DEF TaskNotify, TaskAt, Live
  <1>1. /\ Live(k)
        /\ tasks' = [tasks EXCEPT ![k] = FreeTask]
        /\ completionRx' = Append(completionRx, t)
        /\ UNCHANGED <<phase, inFlight, exposed, intents>>
    BY DEF TaskNotify, TaskAt, Live, Notified, database, observers
  <1>2. /\ ~Live(k)' /\ tasks'[k].aborted = FALSE
        /\ \A j \in TaskIds \ {k} : tasks'[j] = tasks[j]
    BY <1>1 DEF Live, FreeTask, TypeOK
  <1>3. SlotShape' /\ OneIntent'
    BY <1>1 DEF RInv, SlotShape, OneIntent
  <1>4. SlotOwned' /\ AbortedExposed'
    BY <1>1, <1>2 DEF RInv, SlotOwned, AbortedExposed, Live
  <1>5. t \notin exposed => inFlight[t].task = k /\ inFlight[t] # NoSlot
    BY <1>1, TaskIdsAssumption DEF OwnSlot, NoSlot
  <1>6. CompletionHasSlot'
    <2>1. \A n \in 1..Len(completionRx') :
             \/ n \in 1..Len(completionRx) /\ completionRx'[n] = completionRx[n]
             \/ completionRx'[n] = t
      BY <1>1 DEF TypeOK
    <2> QED
      BY <1>1, <1>5, <2>1 DEF RInv, CompletionHasSlot
  <1>7. \A u \in Tickets \ {t} : SameView(u)
    <2>1. \A u \in Tickets \ {t} : inFlight[u].task # k
      BY <1>1 DEF RInv, SlotOwned
    <2> QED
      BY <1>1, <1>2, <2>1, JobKept, RecordedKept DEF Live, SameView
  <1>8. CASE t \in exposed
    BY <1>1, <1>3, <1>4, <1>6, <1>7, <1>8, AnythingSeen DEF RInv
  <1>9. CASE t \notin exposed
    <2>1. inFlight[t].task = k /\ k # NoTask
      BY <1>5, <1>9, TaskIdsAssumption
    <2>2. JobOf(t).working /\ JobOf(t)' = [target |-> JobOf(t).target, working |-> FALSE]
      <3>1. Working(t) /\ Working(t)' = FALSE
        BY <1>1, <1>2, <2>1 DEF Working, Live
      <3>2. JobOf(t)' = [target |-> inFlight[t].target, working |-> FALSE]
        BY <1>1, <3>1, Zenon DEF JobOf
      <3>3. JobOf(t).working /\ JobOf(t).target = inFlight[t].target
        BY <3>1 DEF JobOf
      <3> QED
        BY <3>2, <3>3
    <2>3. Recorded(t)' = Recorded(t)
      BY <1>1, RecordedKept
    <2>4. Queue!OnlyTicket(t)
      BY <1>1, <1>7, OnlyTicketSeen
    <2>5. Queue!Finish(t)
      BY <1>1, <2>2, <2>3, <2>4 DEF Queue!Finish
    <2> QED
      BY <1>3, <1>4, <1>6, <2>5 DEF RInv, AbstractStep, Queue!Next
  <1> QED
    BY <1>8, <1>9

\* What spawn_handler_task does to the slots, and what the queue sees of it.
LEMMA SpawnSeen ==
    ASSUME IInv, RInv, NEW t \in Tickets, NEW s \in Targets, Spawn(t, s), exposed' = exposed
    PROVE  /\ SlotShape' /\ SlotOwned' /\ AbortedExposed'
           /\ JobOf(t)' = Queue!Job(s) /\ inFlight'[t].pending = None /\ inFlight'[t] # NoSlot
           /\ \A u \in Tickets \ {t} :
                 /\ inFlight'[u] = inFlight[u]
                 /\ JobOf(u)' = JobOf(u) /\ inFlight'[u].pending = inFlight[u].pending
  <1> USE DEF IInv
  <1>1. PICK k \in TaskIds :
          /\ ~Live(k) /\ \A u \in Tickets : inFlight[u].task # k
          /\ tasks' = [tasks EXCEPT ![k] = [ticket |-> t, target |-> s,
                                            pc |-> "status", aborted |-> FALSE]]
          /\ inFlight' = [inFlight EXCEPT ![t] = [task |-> k, target |-> s,
                                                  previous |-> inFlight[t].target,
                                                  pending |-> None]]
    BY DEF Spawn, NextTask, Unused
  <1>2. /\ tasks'[k].ticket = t /\ tasks'[k].pc = "status" /\ tasks'[k].aborted = FALSE
        /\ \A j \in TaskIds \ {k} : tasks'[j] = tasks[j]
        /\ inFlight'[t].task = k /\ inFlight'[t].target = s /\ inFlight'[t].pending = None
        /\ \A u \in Tickets \ {t} : inFlight'[u] = inFlight[u]
    BY <1>1 DEF TypeOK
  <1>3. k # NoTask /\ Live(k)'
    BY <1>2, TaskIdsAssumption DEF Live
  <1>4. SlotShape' /\ AbortedExposed'
    BY <1>2 DEF RInv, SlotShape, AbortedExposed
  <1>5. SlotOwned'
    BY <1>1, <1>2 DEF RInv, SlotOwned, Live
  <1>6. JobOf(t)' = Queue!Job(s) /\ inFlight'[t] # NoSlot
    <2>1. Working(t)' = TRUE
      BY <1>2, <1>3 DEF Working, Live
    <2> QED
      BY <1>2, <1>3, <2>1 DEF JobOf, Queue!Job, NoSlot
  <1>7. \A u \in Tickets \ {t} : JobOf(u)' = JobOf(u) /\ inFlight'[u].pending = inFlight[u].pending
    BY <1>1, <1>2, JobKept DEF Live
  <1> QED
    BY <1>2, <1>4, <1>5, <1>6, <1>7

\* A ticket has no job exactly when it has no slot.
LEMMA NoJobNoSlot ==
    ASSUME RInv, NEW t \in Tickets
    PROVE  /\ JobOf(t) = Queue!NoJob <=> inFlight[t] = NoSlot
           /\ inFlight[t] = NoSlot => inFlight[t].pending = None
  <1>1. None \notin Targets
    BY TargetsAssumption DEF LifecycleStatus, None
  <1>2. CASE inFlight[t] = NoSlot
    <2>1. Working(t) = FALSE
      BY <1>2 DEF Working, NoSlot
    <2>2. inFlight[t].target = None /\ inFlight[t].pending = None
      BY <1>2 DEF NoSlot
    <2>3. JobOf(t) = Queue!NoJob
      BY <2>1, <2>2, Zenon DEF JobOf, Queue!NoJob
    <2> QED
      BY <1>2, <2>2, <2>3
  <1>3. CASE inFlight[t] # NoSlot
    BY <1>1, <1>3 DEF RInv, SlotShape, JobOf, Queue!NoJob
  <1> QED
    BY <1>2, <1>3

LEMMA RefineCancel == ASSUME IInv, RInv, HandleCancel PROVE RInv' /\ AbstractStep
  <1> USE DEF IInv
  <1>0. 1 \in 1..Len(cancelRx) /\ Head(cancelRx) = cancelRx[1] /\ cancelRx[1] \in Tickets
    BY DEF HandleCancel, TypeOK
  <1> PICK t \in Tickets : t = Head(cancelRx)
    BY <1>0
  <1>1. t \in exposed
    BY <1>0 DEF CancelExposed
  <1>2. /\ inFlight' = [inFlight EXCEPT ![t] = NoSlot]
        /\ UNCHANGED <<phase, completionRx, exposed, intents>>
    BY DEF HandleCancel, database, observers
  <1>3. \A j \in TaskIds : /\ tasks'[j].pc = tasks[j].pc
                           /\ tasks'[j].ticket = tasks[j].ticket
                           /\ tasks'[j].aborted => tasks[j].aborted \/ tasks[j].ticket = t
    <2> DEFINE k == inFlight[t].task
    <2>1. CASE k # NoTask /\ Live(k)
      <3>1. k \in TaskIds /\ tasks[k].ticket = t
        BY <2>1 DEF TypeOK, Slot, RInv, SlotOwned
      <3>2. tasks' = [tasks EXCEPT ![k].aborted = TRUE]
        BY <2>1 DEF HandleCancel
      <3>3. tasks[k] \in [ticket : Tickets, target : Targets, pc : TaskPc, aborted : BOOLEAN]
        BY <3>1, <2>1 DEF TypeOK, Live, Task, FreeTask
      <3> QED
        BY <3>1, <3>2, <3>3 DEF TypeOK
    <2>2. CASE ~(k # NoTask /\ Live(k))
      BY <2>2 DEF HandleCancel
    <2> QED
      BY <2>1, <2>2
  <1>4. inFlight'[t] = NoSlot /\ \A u \in Tickets \ {t} : inFlight'[u] = inFlight[u]
    BY <1>2 DEF TypeOK
  <1>5. SlotShape' /\ OneIntent' /\ AbortedExposed'
    BY <1>1, <1>2, <1>3, <1>4 DEF RInv, SlotShape, OneIntent, AbortedExposed
  <1>6. SlotOwned'
    BY <1>3, <1>4, TaskIdsAssumption DEF RInv, SlotOwned, Live, NoSlot
  <1>7. CompletionHasSlot'
    BY <1>1, <1>2, <1>4 DEF RInv, CompletionHasSlot, TypeOK
  <1>8. \A u \in Tickets \ {t} : SameView(u)
    BY <1>2, <1>3, <1>4, JobKept, RecordedKept DEF Live, SameView
  <1> QED
    BY <1>1, <1>2, <1>5, <1>6, <1>7, <1>8, AnythingSeen DEF RInv

\* A completion frees the slot or starts what waits: the task has ended.
LEMMA RefineCompletion == ASSUME IInv, RInv, HandleCompletion PROVE RInv' /\ AbstractStep
  <1> USE DEF IInv
  <1> PICK t \in Tickets : t = Head(completionRx)
    BY DEF HandleCompletion, TypeOK
  <1>1. /\ completionRx # <<>> /\ completionRx' = Tail(completionRx)
        /\ phase = "running" /\ 1 \in 1..Len(completionRx) /\ completionRx[1] = t
        /\ UNCHANGED <<phase, exposed, intents>>
    BY DEF HandleCompletion, database, observers, TypeOK
  <1>2. \A n \in 1..Len(completionRx') :
           /\ n \in Int /\ n + 1 \in 1..Len(completionRx)
           /\ completionRx'[n] = completionRx[n + 1] /\ completionRx'[n] \in Tickets
    BY <1>1 DEF TypeOK
  <1>3. t \notin exposed => \A n \in 1..Len(completionRx') : completionRx'[n] # t
    BY <1>1, <1>2 DEF OneCompletion
  <1>4. /\ SlotShape' /\ SlotOwned' /\ AbortedExposed'
        /\ JobOf(t)' = IF inFlight[t].pending = None THEN Queue!NoJob
                       ELSE Queue!Job(inFlight[t].pending)
        /\ inFlight'[t].pending = None
        /\ \A u \in Tickets \ {t} :
              /\ inFlight'[u] = inFlight[u]
              /\ JobOf(u)' = JobOf(u) /\ inFlight'[u].pending = inFlight[u].pending
    <2>1. CASE HasPending(t)
      <3> PICK s \in Targets : s = inFlight[t].pending
        BY <2>1 DEF HasPending, TypeOK, Slot
      <3>1. s # None /\ Spawn(t, s)
        BY <2>1 DEF HandleCompletion, HasPending
      <3> QED
        BY <1>1, <3>1, SpawnSeen
    <2>2. CASE ~HasPending(t)
      <3>1. tasks' = tasks /\ inFlight' = [inFlight EXCEPT ![t] = NoSlot]
        BY <2>2 DEF HandleCompletion
      <3>2. inFlight'[t] = NoSlot /\ \A u \in Tickets \ {t} : inFlight'[u] = inFlight[u]
        BY <3>1 DEF TypeOK
      <3>3. SlotShape' /\ AbortedExposed'
        BY <1>1, <3>1, <3>2 DEF RInv, SlotShape, AbortedExposed
      <3>4. SlotOwned'
        BY <3>1, <3>2, TaskIdsAssumption DEF RInv, SlotOwned, NoSlot, Live
      <3>5. JobOf(t)' = Queue!NoJob /\ inFlight'[t].pending = None
        <4>1. Working(t)' = FALSE
          BY <3>2 DEF Working, NoSlot
        <4>2. inFlight'[t].target = None /\ inFlight'[t].pending = None
          BY <3>2 DEF NoSlot
        <4>3. JobOf(t)' = Queue!NoJob
          BY <4>1, <4>2, Zenon DEF JobOf, Queue!NoJob
        <4> QED
          BY <4>2, <4>3
      <3>6. \A u \in Tickets \ {t} : JobOf(u)' = JobOf(u) /\ inFlight'[u].pending = inFlight[u].pending
        BY <3>1, <3>2, JobKept DEF Live
      <3> QED
        BY <2>2, <3>2, <3>3, <3>4, <3>5, <3>6 DEF HasPending
    <2> QED
      BY <2>1, <2>2
  <1>5. OneIntent'
    BY <1>1 DEF RInv, OneIntent
  <1>6. CompletionHasSlot'
    BY <1>1, <1>2, <1>3, <1>4 DEF RInv, CompletionHasSlot
  <1>7. \A u \in Tickets \ {t} : SameView(u)
    BY <1>1, <1>4, RecordedKept DEF SameView
  <1>8. CASE t \in exposed
    BY <1>1, <1>4, <1>5, <1>6, <1>7, <1>8, AnythingSeen DEF RInv
  <1>9. CASE t \notin exposed
    <2>1. inFlight[t] # NoSlot
      BY <1>1, <1>9 DEF RInv, CompletionHasSlot
    <2>2. JobOf(t) # Queue!NoJob
      BY <2>1, NoJobNoSlot
    <2>3. ~JobOf(t).working
      <3> SUFFICES ASSUME inFlight[t].task # NoTask, Live(inFlight[t].task) PROVE FALSE
        BY DEF JobOf, Working
      <3>1. inFlight[t].task \in TaskIds
        BY DEF TypeOK, Slot
      <3>2. tasks[inFlight[t].task].ticket = t
        BY <3>1 DEF RInv, SlotOwned
      <3> QED
        BY <1>1, <1>9, <3>1, <3>2 DEF OwnSlot, Completed
    <2>4. Recorded(t)' = Recorded(t)
      BY <1>1, RecordedKept
    <2>5. Queue!OnlyTicket(t)
      BY <1>1, <1>7, OnlyTicketSeen
    <2>6. Queue!HandOver(t)
      BY <1>1, <1>4, <2>2, <2>3, <2>4, <2>5 DEF Queue!HandOver
    <2> QED
      BY <1>4, <1>5, <1>6, <2>6 DEF RInv, AbstractStep, Queue!Next
  <1> QED
    BY <1>8, <1>9

LEMMA RefineRequest == ASSUME IInv, RInv, HandleRequest PROVE RInv' /\ AbstractStep
  <1> USE DEF IInv
  <1>0. Head(rx) \in Request
    BY DEF HandleRequest, ReceiveRequest, TypeOK
  <1> PICK t \in Tickets, s \in Targets : t = Head(rx).ticket /\ s = Head(rx).target
    BY <1>0 DEF Request
  <1>1. /\ phase = "running"
        /\ intents' = intents \cup {[id |-> nextIntent, ticket |-> t, target |-> s]}
        /\ UNCHANGED <<phase, completionRx, exposed>>
        /\ IF IsInFlight(t) THEN /\ inFlight' = [inFlight EXCEPT ![t] = Replaced(inFlight[t], s)]
                                 /\ UNCHANGED tasks
                            ELSE Spawn(t, s)
    BY DEF HandleRequest, ReceiveRequest
  <1>2. Recorded(t)' = Recorded(t) \cup {s} /\ \A u \in Tickets \ {t} : Recorded(u)' = Recorded(u)
    <2> PICK i : i = [id |-> nextIntent, ticket |-> t, target |-> s]
      OBVIOUS
    <2>1. i.ticket = t /\ i.target = s /\ intents' = intents \cup {i}
      BY <1>1
    <2> QED
      BY <2>1 DEF Recorded
  <1>3. OneIntent'
    BY <1>1 DEF OneIntent
  <1>4. CASE IsInFlight(t)
    <2>1. /\ inFlight'[t].task = inFlight[t].task /\ inFlight'[t].target = inFlight[t].target
          /\ inFlight'[t].pending = s
          /\ \A u \in Tickets \ {t} : inFlight'[u] = inFlight[u]
      <3>1. /\ inFlight'[t] = [inFlight[t] EXCEPT !.pending = s]
            /\ \A u \in Tickets \ {t} : inFlight'[u] = inFlight[u]
        BY <1>1, <1>4 DEF TypeOK, Replaced
      <3>2. inFlight[t] \in Slot
        BY DEF TypeOK
      <3> QED
        BY <3>1, <3>2 DEF Slot
    <2>2. tasks' = tasks
      BY <1>1, <1>4
    <2>3. inFlight[t] # NoSlot /\ inFlight'[t] # NoSlot
      <3>1. s # None
        BY TargetsAssumption DEF LifecycleStatus, None
      <3> QED
        BY <1>4, <2>1, <3>1 DEF IsInFlight, NoSlot
    <2>4. SlotShape' /\ SlotOwned' /\ AbortedExposed'
      BY <1>1, <2>1, <2>2, <2>3 DEF RInv, SlotShape, SlotOwned, AbortedExposed, Live
    <2>5. CompletionHasSlot'
      BY <1>1, <2>1, <2>3 DEF RInv, CompletionHasSlot, TypeOK
    <2>6. JobOf(t)' = JobOf(t)
      BY <2>1, <2>2 DEF JobOf, Working, Live
    <2>7. \A u \in Tickets \ {t} : SameView(u)
      BY <1>2, <2>1, <2>2, JobKept DEF Live, SameView
    <2>8. Queue!OnlyTicket(t)
      BY <1>1, <2>7, OnlyTicketSeen
    <2>9. JobOf(t) # Queue!NoJob
      BY <2>3, NoJobNoSlot
    <2>10. Queue!Accept(t, s)
      BY <1>1, <1>2, <2>1, <2>6, <2>8, <2>9 DEF Queue!Accept
    <2> QED
      BY <1>3, <2>4, <2>5, <2>10 DEF RInv, AbstractStep, Queue!Next
  <1>5. CASE ~IsInFlight(t)
    <2>1. inFlight[t] = NoSlot /\ Spawn(t, s)
      BY <1>1, <1>5 DEF IsInFlight
    <2>2. /\ SlotShape' /\ SlotOwned' /\ AbortedExposed'
          /\ JobOf(t)' = Queue!Job(s) /\ inFlight'[t].pending = None /\ inFlight'[t] # NoSlot
          /\ \A u \in Tickets \ {t} :
                /\ inFlight'[u] = inFlight[u]
                /\ JobOf(u)' = JobOf(u) /\ inFlight'[u].pending = inFlight[u].pending
      BY <1>1, <2>1, SpawnSeen
    <2>3. CompletionHasSlot'
      BY <1>1, <2>2 DEF RInv, CompletionHasSlot, TypeOK
    <2>4. Queue!OnlyTicket(t)
      BY <1>1, <1>2, <2>2, OnlyTicketSeen DEF SameView
    <2>5. JobOf(t) = Queue!NoJob /\ inFlight[t].pending = None
      BY <2>1, NoJobNoSlot
    <2>6. Queue!Accept(t, s)
      BY <1>1, <1>2, <2>2, <2>4, <2>5 DEF Queue!Accept
    <2> QED
      BY <1>3, <2>2, <2>3, <2>6 DEF RInv, AbstractStep, Queue!Next
  <1> QED
    BY <1>4, <1>5

\* recover() starts an intent that it has listed, or gives it up.
LEMMA RefineRecover == ASSUME IInv, RInv, RecoverOne PROVE RInv' /\ AbstractStep
  <1> USE DEF IInv
  <1> PICK i \in toRecover :
        \/ intents' \in {intents, intents \ {i}} /\ UNCHANGED <<tasks, inFlight>>
        \/ Spawn(i.ticket, i.target) /\ UNCHANGED intents
    BY DEF RecoverOne, Recovered
  <1> PICK t \in Tickets, s \in Targets : t = i.ticket /\ s = i.target
    BY DEF TypeOK, Intent
  <1>1. phase = "recovering" /\ UNCHANGED <<phase, completionRx, exposed>>
    BY DEF RecoverOne, channels, observers
  <1>2. ASSUME t \notin exposed
        PROVE  /\ i \in intents /\ s \in Recorded(t)
               /\ JobOf(t) = Queue!NoJob /\ inFlight[t].pending = None /\ inFlight[t] = NoSlot
    BY <1>2, NoJobNoSlot DEF RecoverFresh, Recorded
  <1>5. CASE intents' = intents /\ UNCHANGED <<tasks, inFlight>>
    <2>2. RInv'
      BY <1>1, <1>5 DEF RInv, SlotShape, SlotOwned, CompletionHasSlot, OneIntent, AbortedExposed, Live
    <2>3. \A u \in Tickets : SameView(u)
      BY <1>5, RecordedKept DEF SameView, JobOf, Working, Live
    <2> QED
      BY <1>1, <1>5, <2>2, <2>3, NothingSeen
  <1>3. CASE intents' = intents \ {i} /\ UNCHANGED <<tasks, inFlight>>
    <2>1. intents' = intents \ {i} /\ UNCHANGED <<tasks, inFlight>>
      BY <1>3
    <2>2. RInv'
      BY <1>1, <2>1 DEF RInv, SlotShape, SlotOwned, CompletionHasSlot, OneIntent, AbortedExposed, Live
    <2>3. \A u \in Tickets \ {t} : SameView(u)
      BY <2>1 DEF SameView, Recorded, JobOf, Working, Live
    <2>4. CASE t \in exposed
      BY <1>1, <2>2, <2>3, <2>4, AnythingSeen
    <2>5. CASE t \notin exposed
      <3>1. Recorded(t)' = Recorded(t) \ {s}
        BY <1>1, <1>2, <2>1, <2>5 DEF Recorded, RInv, OneIntent
      <3>2. JobOf(t)' = JobOf(t) /\ inFlight' = inFlight
        BY <2>1 DEF JobOf, Working, Live
      <3>3. Queue!OnlyTicket(t)
        BY <1>1, <2>3, OnlyTicketSeen
      <3>4. Queue!Resume(t, s)
        BY <1>1, <1>2, <2>5, <3>1, <3>2, <3>3 DEF Queue!Resume
      <3> QED
        BY <2>2, <3>4 DEF AbstractStep, Queue!Next
    <2> QED
      BY <2>4, <2>5
  <1>4. CASE Spawn(i.ticket, i.target) /\ UNCHANGED intents
    <2>1. Spawn(t, s) /\ intents' = intents
      BY <1>4
    <2>2. /\ SlotShape' /\ SlotOwned' /\ AbortedExposed'
          /\ JobOf(t)' = Queue!Job(s) /\ inFlight'[t].pending = None /\ inFlight'[t] # NoSlot
          /\ \A u \in Tickets \ {t} :
                /\ inFlight'[u] = inFlight[u]
                /\ JobOf(u)' = JobOf(u) /\ inFlight'[u].pending = inFlight[u].pending
      BY <1>1, <2>1, SpawnSeen
    <2>3. CompletionHasSlot' /\ OneIntent'
      BY <1>1, <2>1, <2>2 DEF RInv, CompletionHasSlot, OneIntent, TypeOK
    <2>4. \A u \in Tickets \ {t} : SameView(u)
      BY <2>1, <2>2, RecordedKept DEF SameView
    <2>5. CASE t \in exposed
      BY <1>1, <2>2, <2>3, <2>4, <2>5, AnythingSeen DEF RInv
    <2>6. CASE t \notin exposed
      <3>1. Recorded(t)' = Recorded(t)
        BY <2>1, RecordedKept
      <3>2. Queue!OnlyTicket(t)
        BY <1>1, <2>4, OnlyTicketSeen
      <3>3. Queue!Resume(t, s)
        BY <1>1, <1>2, <2>2, <2>6, <3>1, <3>2 DEF Queue!Resume
      <3> QED
        BY <2>2, <2>3, <3>3 DEF RInv, AbstractStep, Queue!Next
    <2> QED
      BY <2>5, <2>6
  <1> QED
    BY <1>3, <1>4, <1>5

LEMMA RefineTaskStep ==
    ASSUME IInv, RInv, NEW k \in TaskIds, TaskStep(k) PROVE RInv' /\ AbstractStep
  <1> USE DEF channels, database, observers, counters
  <1>1. CASE TaskStatus(k)
    BY <1>1, RefineTask DEF TaskStatus, TaskAt, Live, Advance, TaskUnchanged, TaskPc
  <1>2. CASE TaskSync(k)
    BY <1>2, RefineTask DEF TaskSync, TaskAt, Live, Advance, TaskUnchanged, TaskPc
  <1>3. CASE TaskBody(k)
    BY <1>3, RefineTask DEF TaskBody, TaskAt, Live, Advance, TaskUnchanged, TaskPc
  <1>4. ASSUME NEW ok \in BOOLEAN, TaskReturns(k, ok) PROVE RInv' /\ AbstractStep
    BY <1>4, RefineTask DEF TaskReturns, TaskAt, Live, Advance, TaskUnchanged, TaskPc
  <1>5. CASE TaskFail(k)
    BY <1>5, RefineTask DEF TaskFail, TaskAt, Live, Advance, TaskUnchanged, TaskPc
  <1>6. CASE TaskCleanup(k)
    BY <1>6, RefineTask DEF TaskCleanup, TaskAt, Live, Advance, TaskUnchanged, TaskPc
  <1>7. CASE TaskNotify(k)
    BY <1>7, RefineNotify
  <1>8. CASE TaskDropped(k)
    <2>1. Live(k) /\ tasks[k].pc \in TaskPc
      BY <1>8 DEF IInv, TypeOK, TaskDropped, Live, Task, FreeTask, TaskPc
    <2> QED
      BY <1>8, <2>1, RefineTask DEF TaskDropped
  <1> QED
    BY <1>1, <1>2, <1>3, <1>4, <1>5, <1>6, <1>7, <1>8 DEF TaskStep

LEMMA RefineCrash == ASSUME IInv, RInv, Crash PROVE RInv' /\ AbstractStep
  <1>1. RInv'
    BY DEF Crash, RInv, SlotShape, SlotOwned, CompletionHasSlot, OneIntent, AbortedExposed,
           Live, FreeTask
  <1>2. \A t \in Tickets : JobOf(t)' = Queue!NoJob /\ inFlight'[t].pending = None
    <2> TAKE t \in Tickets
    <2>1. inFlight'[t].target = None /\ inFlight'[t].pending = None /\ Working(t)' = FALSE
      BY DEF Crash, Working, NoSlot
    <2> QED
      BY <2>1, Zenon DEF JobOf, Queue!NoJob
  <1>3. \A t \in Tickets : Recorded(t)' = Recorded(t)
    BY RecordedKept DEF Crash, database
  <1>4. Queue!Crash
    BY <1>2, <1>3 DEF Crash, Queue!Crash
  <1> QED
    BY <1>1, <1>4 DEF AbstractStep, Queue!Next

LEMMA RefineRestart == ASSUME IInv, RInv, Restart PROVE RInv' /\ AbstractStep
  <1> USE DEF IInv
  <1>1. /\ phase = "down" /\ phase' = "recovering"
        /\ UNCHANGED <<completionRx, inFlight, tasks, intents>>
        /\ exposed' = {t \in Tickets :
                          \E i, j \in intents : i # j /\ i.ticket = t /\ j.ticket = t}
    BY DEF Restart, channels, database
  <1>2. \A i, j \in intents : i.ticket = j.ticket /\ i.ticket \notin exposed' => i = j
    BY <1>1 DEF TypeOK, Intent
  <1>3. RInv'
    BY <1>1, <1>2 DEF RInv, SlotShape, SlotOwned, CompletionHasSlot, OneIntent, AbortedExposed,
                      Live, PhaseInv, FreeTask
  <1>4. \A t \in Tickets : SameView(t)
    BY <1>1, RecordedKept DEF SameView, JobOf, Working, Live
  <1>5. \A t \in Tickets \ exposed' : \A r, s \in Recorded(t) : r = s
    BY <1>2 DEF Recorded
  <1>6. Queue!Start
    BY <1>1, <1>4, <1>5 DEF Queue!Start, SameView
  <1> QED
    BY <1>3, <1>6 DEF AbstractStep, Queue!Next

LEMMA RefineSender ==
    ASSUME IInv, RInv, NEW t \in Tickets, SenderStep(t) PROVE RInv' /\ AbstractStep
  <1>1. CASE CancelSignal(t)
    <2>1. exposed' = exposed \cup {t} /\ UNCHANGED <<phase, inFlight, tasks, completionRx, intents>>
      BY <1>1 DEF CancelSignal, database
    <2>2. RInv'
      BY <2>1 DEF RInv, SlotShape, SlotOwned, CompletionHasSlot, OneIntent, AbortedExposed, Live
    <2>3. \A u \in Tickets : SameView(u)
      BY <2>1, RecordedKept DEF SameView, JobOf, Working, Live
    <2>4. Queue!Doubt(t)
      BY <2>1, <2>3 DEF Queue!Doubt, SameView
    <2> QED
      BY <2>2, <2>4 DEF AbstractStep, Queue!Next
  <1>2. CASE CancelIntents(t)
    <2>1. /\ t \in exposed /\ intents' \in {intents, {i \in intents : i.ticket # t}}
          /\ UNCHANGED <<phase, inFlight, tasks, completionRx, exposed>>
      BY <1>2 DEF CancelIntents, RpcUnchanged, observers, CancelExposed, IInv
    <2>2. RInv'
      BY <2>1 DEF RInv, SlotShape, SlotOwned, CompletionHasSlot, OneIntent, AbortedExposed, Live
    <2>3. \A u \in Tickets \ {t} : SameView(u)
      BY <2>1 DEF SameView, Recorded, JobOf, Working, Live
    <2> QED
      BY <2>1, <2>2, <2>3, AnythingSeen
  <1>3. CASE ~CancelSignal(t) /\ ~CancelIntents(t)
    <2>1. UNCHANGED <<phase, inFlight, tasks, exposed, intents, completionRx>>
      BY <1>3 DEF SenderStep, RpcProgress, Submit, CreateWorkflow, RedriveTicket, StallWorkflow,
                  PollerCancels, CancelRead, RpcSend, CancelStatus, RpcUnchanged, memory,
                  database, observers
    <2>2. RInv'
      BY <2>1 DEF RInv, SlotShape, SlotOwned, CompletionHasSlot, OneIntent, AbortedExposed, Live
    <2>3. \A u \in Tickets : SameView(u)
      BY <2>1, RecordedKept DEF SameView, JobOf, Working, Live
    <2> QED
      BY <2>1, <2>2, <2>3, NothingSeen
  <1> QED
    BY <1>1, <1>2, <1>3

LEMMA RefineStep == IInv /\ RInv /\ [Next]_vars => RInv' /\ AbstractStep
  <1> SUFFICES ASSUME IInv, RInv, [Next]_vars PROVE RInv' /\ AbstractStep
    OBVIOUS
  <1>1. CASE CoordinatorStep
    <2>1. CASE HandleRequestFault
      BY <2>1, RefineFrame DEF HandleRequestFault, core, memory, database, observers
    <2> QED
      BY <1>1, <2>1, RefineCancel, RefineCompletion, RefineRequest DEF CoordinatorStep
  <1>2. CASE RecoverDone
    <2>1. /\ phase = "recovering" /\ phase' = "running"
          /\ UNCHANGED <<inFlight, tasks, completionRx, exposed, intents>>
      BY <1>2 DEF RecoverDone, channels, database, observers
    <2>2. RInv'
      BY <2>1 DEF RInv, SlotShape, SlotOwned, CompletionHasSlot, OneIntent, AbortedExposed, Live
    <2>3. \A u \in Tickets : SameView(u)
      BY <2>1, RecordedKept DEF SameView, JobOf, Working, Live
    <2>4. Queue!Serve
      BY <2>1, <2>3 DEF Queue!Serve, SameView
    <2> QED
      BY <2>2, <2>4 DEF AbstractStep, Queue!Next
  <1>3. CASE UNCHANGED vars
    BY <1>3, RefineFrame DEF vars, core, channels, memory, database, observers
  <1> QED
    BY <1>1, <1>2, <1>3, RefineRecover, RefineCrash, RefineRestart, RefineTaskStep, RefineSender
       DEF Next, RecoverStep

\* The coordinator implements the abstract queue: every step of the select!
\* loop, of the handler tasks, of recovery, crashes and RPCs is one of its
\* steps or invisible there, for any number of tickets, tasks and failures.
THEOREM ImplementsQueueCorrect == Spec => ImplementsQueue
  <1>1. Init => Queue!Init
    <2> SUFFICES ASSUME Init PROVE Queue!Init
      OBVIOUS
    <2>1. \A t \in Tickets : inFlight[t].target = None /\ inFlight[t].pending = None /\ Working(t) = FALSE
      BY DEF Init, Working, NoSlot
    <2>2. \A t \in Tickets : JobOf(t) = Queue!NoJob
      BY <2>1, Zenon DEF JobOf, Queue!NoJob
    <2>3. \A t \in Tickets : Recorded(t) = {}
      BY DEF Init, Recorded
    <2> QED
      BY <2>1, <2>2, <2>3 DEF Init, Queue!Init
  <1>2. IInv /\ RInv /\ [Next]_vars => IInv' /\ RInv' /\ [Queue!Next]_(Queue!queueVars)
    BY IInvStep, RefineStep DEF AbstractStep
  <1> QED
    BY <1>1, <1>2, IInvInit, RInvInit, PTL DEF Spec, ImplementsQueue, Queue!Spec
=============================================================================
