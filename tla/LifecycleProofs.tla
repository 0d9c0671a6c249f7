-------------------------- MODULE LifecycleProofs --------------------------
(***************************************************************************)
(* Proofs about the life of a workflow, for every outcome of the hook, the *)
(* push, the merge and the checks, any limit on the implement cycles, any  *)
(* channel capacity, and any number of comments, pushes, redrives,         *)
(* troubles, crashes and failing calls.                                    *)
(***************************************************************************)
EXTENDS Lifecycle, FiniteSetTheorems, WellFoundedInduction, TLAPS

-----------------------------------------------------------------------------
(* The inductive invariant. *)

\* What the types leave open: only requests for a status that goes on are
\* queued, a pass of the poller begins with nothing read, and a record to send
\* has a target.
FlowInv ==
    /\ Len(comments) <= MaxComments
    /\ task # NoTask => task.target \notin Terminal
    /\ poll.pc = "idle" => poll = NoPoll
    /\ poll.pc = "meta" => poll.signal = None /\ poll.review = None
    /\ poll.pc \in {"record", "send"} => poll.target # None

\* A dispatch is counted before it is sent, so what was sent and what is about
\* to be never exceed the counter, and the counter stops at the limit.
Owed == IF task.pc = "dispatch" THEN 1 ELSE 0

CycleInv == dispatches + Owed <= wf.cycles /\ wf.cycles <= MaxImplementCycles

\* Somebody approved, or the pull request that the ticket names was merged by
\* somebody else.
Approved == ticket.autoapprove \/ \E i \in DOMAIN comments : comments[i] = "approve"
MergedAlready == ticket.meta = "full" /\ gh.state = "merged"

\* Wherever an approval is written down, in the row, in the poller's copy or in
\* the place of a merge handler past its gate, there is one.
ApprovalInv ==
    /\ task.pc = "pr_number" => ticket.meta = None
    /\ task.pc = "gh_repo" => ticket.meta = "number"
    /\ poll.pc \notin {"idle", "meta"} => ticket.meta = "full"
    /\ poll.signal = "merged" => gh.state = "merged"
    /\ wf.review = "approved" => Approved \/ MergedAlready
    /\ poll.review = "approved" => Approved \/ MergedAlready
    /\ task.pc \in {"kill", "merge"} => Approved \/ MergedAlready
    /\ mergedBy = "server" => Approved

\* The worker is stopped before the merge and before the end.
WorkerInv ==
    /\ task.pc \in {"merge", "finish"} => ~worker.up
    /\ wf.status \in Terminal /\ poll.pc # "kill" /\ crashes = 0 /\ faults = 0 => ~worker.up

IInv == TypeOK /\ FlowInv /\ CycleInv /\ ApprovalInv /\ WorkerInv

-----------------------------------------------------------------------------
(* The newest unseen comment is one of them. *)

LEMMA LargestExists ==
    ASSUME NEW S, NEW n \in Nat, S \subseteq 1..n, S # {}
    PROVE  \E i \in S : \A j \in S : j <= i
  <1> DEFINE T == {n - i : i \in S}
  <1>1. T \subseteq Nat /\ T # {}
    <2>1. T \subseteq Nat
      OBVIOUS
    <2>2. PICK i \in S : TRUE
      OBVIOUS
    <2>3. n - i \in T
      OBVIOUS
    <2> QED
      BY <2>1, <2>3
  <1>2. PICK x \in T : \A y \in T : ~(<<y, x>> \in OpToRel(<, Nat))
    <2> HIDE DEF T
    <2> QED
      BY <1>1, NatLessThanWellFounded, WFMin
  <1>3. \A y \in T : ~(y < x)
    <2>1. ASSUME NEW y \in T, y < x PROVE <<y, x>> \in OpToRel(<, Nat)
      BY <1>1, <2>1 DEF OpToRel
    <2> QED
      BY <1>2, <2>1
  <1>4. PICK i \in S : x = n - i
    OBVIOUS
  <1>5. \A j \in S : j <= i
    BY <1>3, <1>4
  <1> QED
    BY <1>5

LEMMA NewestUnseen ==
    ASSUME TypeOK, Unseen # {}
    PROVE  Newest \in DOMAIN comments
  <1>1. Len(comments) \in Nat /\ Unseen \subseteq 1..Len(comments)
    BY DEF TypeOK, Unseen
  <1>2. \E i \in Unseen : \A j \in Unseen : j <= i
    BY <1>1, LargestExists
  <1>3. Newest \in Unseen
    BY <1>2 DEF Newest
  <1> QED
    BY <1>3 DEF Unseen

LEMMA UnseenCounted ==
    ASSUME TypeOK, FlowInv
    PROVE  Cardinality(Unseen) \in 0..MaxComments
  <1>1. Len(comments) \in Nat /\ Unseen \in SUBSET (1..Len(comments))
    BY DEF TypeOK, Unseen
  <1>2. IsFiniteSet(1..Len(comments)) /\ Cardinality(1..Len(comments)) = Len(comments)
    BY <1>1, FS_Interval
  <1>3. Cardinality(Unseen) \in Nat /\ Cardinality(Unseen) <= Len(comments)
    BY <1>1, <1>2, FS_Subset, FS_CardinalityType
  <1> QED
    BY <1>1, <1>3, LimitsAssumption DEF FlowInv

-----------------------------------------------------------------------------
(* What the operators of the model return. *)

LEMMA RowTyped ==
    ASSUME NEW row \in Row
    PROVE  /\ \A s \in Statuses : [row EXCEPT !.status = s] \in Row
           /\ [row EXCEPT !.stalled = TRUE] \in Row
           /\ [row EXCEPT !.stalled = FALSE, !.cycles = 0] \in Row
           /\ [row EXCEPT !.cycles = @ + 1] \in Row
           /\ [row EXCEPT !.cycles = 0] \in Row
           /\ \A m \in {None, "now", "later"} : [row EXCEPT !.mode = m] \in Row
           /\ \A c \in {"pending", "succeeded", "failed"} : [row EXCEPT !.ci = c] \in Row
           /\ \A m \in {"unknown", "mergeable", "conflict"} : [row EXCEPT !.mergeable = m] \in Row
           /\ \A r \in {"pending", "approved", "changes_requested"} : [row EXCEPT !.review = r] \in Row
  <1>1. row.cycles \in Nat /\ row.cycles + 1 \in Nat
    BY DEF Row
  <1>2. \A n \in Nat : [row EXCEPT !.cycles = n] \in Row /\ [row EXCEPT !.stalled = FALSE, !.cycles = n] \in Row
    BY DEF Row
  <1>3. [row EXCEPT !.cycles = @ + 1] \in Row
    BY <1>1, <1>2
  <1>4. \A s \in Statuses : [row EXCEPT !.status = s] \in Row
    BY DEF Row
  <1>5. [row EXCEPT !.stalled = TRUE] \in Row
    BY DEF Row
  <1>6. \A m \in {None, "now", "later"} : [row EXCEPT !.mode = m] \in Row
    BY DEF Row
  <1>7. \A c \in {"pending", "succeeded", "failed"} : [row EXCEPT !.ci = c] \in Row
    BY DEF Row
  <1>8. \A m \in {"unknown", "mergeable", "conflict"} : [row EXCEPT !.mergeable = m] \in Row
    BY DEF Row
  <1>9. \A r \in {"pending", "approved", "changes_requested"} : [row EXCEPT !.review = r] \in Row
    BY DEF Row
  <1> QED
    BY <1>2, <1>3, <1>4, <1>5, <1>6, <1>7, <1>8, <1>9

LEMMA FinishTyped ==
    ASSUME TypeOK, NEW row \in Row, Finish(TRUE, row) \/ Finish(FALSE, row)
    PROVE  /\ wf' \in Row /\ wf'.status = row.status /\ wf'.cycles = row.cycles /\ wf'.review = row.review
           /\ task' \in Task /\ task'.pc \in {None, "status"}
           /\ task' # NoTask => task'.target \notin Terminal
           /\ pending' \in (Statuses \ Terminal) \cup {None}
  <1>1. wf' \in {row, [row EXCEPT !.stalled = TRUE]}
    BY DEF Finish
  <1>2. wf' \in Row /\ wf'.status = row.status /\ wf'.cycles = row.cycles /\ wf'.review = row.review
    <2>1. CASE wf' = row
      BY <2>1
    <2>2. CASE wf' = [row EXCEPT !.stalled = TRUE]
      <3>1. [row EXCEPT !.stalled = TRUE] \in Row
        BY RowTyped
      <3>2. /\ [row EXCEPT !.stalled = TRUE].status = row.status
            /\ [row EXCEPT !.stalled = TRUE].cycles = row.cycles
            /\ [row EXCEPT !.stalled = TRUE].review = row.review
        BY DEF Row
      <3> QED
        BY <2>2, <3>1, <3>2
    <2> QED
      BY <1>1, <2>1, <2>2
  <1>3. pending = None => task' = NoTask
    BY DEF Finish
  <1>4. pending # None => task' = Begin(pending) /\ pending \in Statuses \ Terminal
    BY DEF Finish, TypeOK
  <1>5. /\ task' \in Task /\ task'.pc \in {None, "status"}
        /\ task' # NoTask => task'.target \notin Terminal
    BY <1>3, <1>4 DEF Begin, NoTask, Task, TaskPc
  <1> QED
    BY <1>2, <1>5 DEF Finish

LEMMA SendTyped ==
    ASSUME TypeOK, NEW s \in Statuses \ Terminal, Send(s)
    PROVE  rx' \in Seq(Statuses \ Terminal) /\ Len(rx') <= RxCap
  BY LimitsAssumption DEF TypeOK, Send, Room

LEMMA GotoTyped ==
    ASSUME TypeOK, FlowInv, task.pc # None, NEW pc \in TaskPc, Goto(pc)
    PROVE  task' \in Task /\ task'.pc = pc /\ task'.target = task.target /\ task'.target \notin Terminal
  <1>1. task \in [target : Statuses, pc : TaskPc] /\ task.target \notin Terminal
    BY DEF TypeOK, Task, NoTask, FlowInv
  <1> QED
    BY <1>1 DEF Goto, Task

LEMMA TicketTyped ==
    ASSUME ticket \in TicketRow
    PROVE  /\ [ticket EXCEPT !.branch = TRUE] \in TicketRow
           /\ [ticket EXCEPT !.autoapprove = TRUE] \in TicketRow
           /\ \A b \in BOOLEAN : [ticket EXCEPT !.closed = b] \in TicketRow
           /\ \A m \in {None, "number", "full"} : [ticket EXCEPT !.meta = m] \in TicketRow
  BY DEF TicketRow

LEMMA WorkerTyped ==
    ASSUME worker \in Worker
    PROVE  /\ \A s \in {None, "implementing", "addressing_feedback"} : [worker EXCEPT !.step = s] \in Worker
           /\ \A b \in BOOLEAN : [worker EXCEPT !.agentStalled = b] \in Worker
           /\ [worker EXCEPT !.up = FALSE, !.step = None] \in Worker
           /\ Stopped \in Worker /\ ~Stopped.up
           /\ \A n \in 0..MaxComments : [worker EXCEPT !.step = None, !.commitAt = n] \in Worker
  BY DEF Worker, Stopped

LEMMA UpdatedTyped ==
    ASSUME wf \in Row, NEW row \in Row
    PROVE  Updated(row) \in {row, wf} /\ Updated(row) \in Row /\ (~Active => Updated(row) = wf)
  BY DEF Updated

-----------------------------------------------------------------------------
(* What keeps the parts of the invariant, for the steps that have nothing   *)
(* to do with them.                                                         *)

LEMMA CycleKept ==
    ASSUME IInv, wf'.cycles = wf.cycles, dispatches' = dispatches,
           task'.pc = "dispatch" => task.pc = "dispatch"
    PROVE  CycleInv'
  <1>1. dispatches \in Int /\ wf.cycles \in Nat
    BY DEF IInv, TypeOK, Row
  <1> QED
    BY <1>1 DEF IInv, CycleInv, Owed

\* The steps of a handler that neither opens, names nor merges a pull request
\* and does not pass the gate.
LEMMA ApprovalKept ==
    ASSUME IInv, comments' = comments, mergedBy' = mergedBy, gh'.state = gh.state,
           ticket'.meta = ticket.meta, ticket'.autoapprove = ticket.autoapprove,
           task'.pc \in {task.pc} \cup (TaskPc \ {"pr_number", "gh_repo", "kill", "merge"}) \cup {None},
           poll'.pc \notin {"idle", "meta"} => ticket.meta = "full",
           poll'.signal = "merged" => gh.state = "merged",
           {wf'.review, poll'.review} \subseteq {wf.review, poll.review, "pending", "changes_requested", None}
                \/ Approved \/ MergedAlready
    PROVE  ApprovalInv'
  <1>1. (Approved' <=> Approved) /\ (MergedAlready' <=> MergedAlready)
    BY DEF Approved, MergedAlready
  <1>2. /\ wf.review = "approved" => Approved \/ MergedAlready
        /\ poll.review = "approved" => Approved \/ MergedAlready
    BY DEF IInv, ApprovalInv
  <1>3. /\ wf'.review = "approved" => Approved \/ MergedAlready
        /\ poll'.review = "approved" => Approved \/ MergedAlready
    BY <1>2 DEF None
  <1> QED
    BY <1>1, <1>3 DEF IInv, ApprovalInv, None, TaskPc

LEMMA WorkerKept ==
    ASSUME IInv, worker'.up => worker.up,
           wf'.status = wf.status \/ wf'.status \notin Terminal,
           task'.pc = task.pc \/ task'.pc \notin {"merge", "finish"},
           crashes' = 0 => crashes = 0, faults' = 0 => faults = 0,
           poll.pc = "kill" => poll'.pc = "kill" \/ ~worker'.up \/ faults' # 0
    PROVE  WorkerInv'
  BY DEF IInv, WorkerInv

-----------------------------------------------------------------------------
(* The coordinator. *)

LEMMA InvInit == Init => IInv
  <1> SUFFICES ASSUME Init PROVE IInv
    OBVIOUS
  <1>1. wf \in Row /\ ticket \in TicketRow
    BY DEF Init, Row, TicketRow, Statuses
  <1>2. worker \in Worker /\ gh \in PullRequest /\ poll \in Poll /\ task \in Task
    BY LimitsAssumption DEF Init, Worker, PullRequest, Poll, NoPoll, Task
  <1>3. comments \in Seq({"approve", "respond", "other"}) /\ DOMAIN comments = {} /\ Len(comments) = 0
    BY DEF Init
  <1>4. rx \in Seq(Statuses \ Terminal) /\ Len(rx) = 1
    BY DEF Init, Statuses, Terminal
  <1>5. TypeOK
    BY <1>1, <1>2, <1>3, <1>4, LimitsAssumption DEF Init, TypeOK
  <1>6. FlowInv /\ CycleInv /\ ApprovalInv /\ WorkerInv
    BY <1>3, LimitsAssumption
    DEF Init, FlowInv, CycleInv, Owed, ApprovalInv, WorkerInv, NoTask, NoPoll, None, Terminal
  <1> QED
    BY <1>5, <1>6 DEF IInv


LEMMA HandleRequestInv ==
    ASSUME IInv, HandleRequest
    PROVE  IInv'
  <1> USE DEF IInv
  <1>1. /\ rx # <<>> /\ rx \in Seq(Statuses \ Terminal) /\ rx' = Tail(rx)
        /\ Head(rx) \in Statuses \ Terminal
    BY DEF HandleRequest, TypeOK
  <1>2. rx' \in Seq(Statuses \ Terminal) /\ Len(rx') <= RxCap
    BY <1>1, LimitsAssumption DEF TypeOK
  <1>3. /\ task' \in Task /\ (task' = task \/ task'.pc = "status")
        /\ task' # NoTask => task'.target \notin Terminal
        /\ pending' \in (Statuses \ Terminal) \cup {None}
    BY <1>1 DEF HandleRequest, TypeOK, FlowInv, Begin, Task, TaskPc
  <1>4. UNCHANGED <<wf, ticket, worker, acks, stepRpc, poll, remote, feedback, dispatches, counters>>
    BY DEF HandleRequest
  <1>5. TypeOK' /\ FlowInv'
    BY <1>2, <1>3, <1>4 DEF remote, feedback, counters, TypeOK, FlowInv
  <1>6. CycleInv'
    BY <1>3, <1>4, CycleKept
  <1>7. ApprovalInv'
    BY <1>3, <1>4, ApprovalKept DEF remote, ApprovalInv, TaskPc
  <1>8. WorkerInv'
    BY <1>3, <1>4, WorkerKept DEF counters
  <1> QED
    BY <1>5, <1>6, <1>7, <1>8

\* A handler that returns and leaves the ticket's pull request alone.
LEMMA FinishInv ==
    ASSUME IInv, Finish(TRUE, wf) \/ Finish(FALSE, wf),
           ticket' \in TicketRow, ticket'.meta = ticket.meta, ticket'.autoapprove = ticket.autoapprove,
           worker' \in Worker, worker'.up => worker.up,
           rx' \in Seq(Statuses \ Terminal), Len(rx') <= RxCap,
           offered' \subseteq DOMAIN comments, faults' \in {faults, faults + 1},
           UNCHANGED <<acks, stepRpc, poll, comments, gh, mergedBy, seen, created, dispatches,
                       pushes, redrives, troubles, crashes>>
    PROVE  IInv'
  <1> USE DEF IInv
  <1>1. wf \in Row /\ faults \in Nat /\ (faults' = 0 => faults = 0)
    BY DEF TypeOK
  <1>2. /\ wf' \in Row /\ wf'.status = wf.status /\ wf'.cycles = wf.cycles /\ wf'.review = wf.review
        /\ task' \in Task /\ task'.pc \in {None, "status"}
        /\ task' # NoTask => task'.target \notin Terminal
        /\ pending' \in (Statuses \ Terminal) \cup {None}
    BY <1>1, FinishTyped
  <1>5. TypeOK' /\ FlowInv'
    BY <1>1, <1>2 DEF TypeOK, FlowInv
  <1>6. CycleInv'
    BY <1>2, CycleKept DEF None
  <1>7. ApprovalInv'
    BY <1>2, ApprovalKept DEF ApprovalInv, TaskPc
  <1>8. WorkerInv'
    BY <1>1, <1>2, WorkerKept DEF None
  <1> QED
    BY <1>5, <1>6, <1>7, <1>8

\* A handler that goes on to a step that is nobody's business.
LEMMA GotoInv ==
    ASSUME IInv, task.pc # None, NEW pc \in TaskPc \ {"dispatch", "pr_number", "gh_repo", "kill", "merge", "finish"},
           Goto(pc), wf' \in Row, wf'.cycles = wf.cycles,
           wf'.status = wf.status \/ wf'.status \notin Terminal,
           wf'.review = wf.review \/ Approved \/ MergedAlready,
           gh' \in PullRequest, gh'.state = gh.state, pushes' \in Nat,
           UNCHANGED <<ticket, worker, rx, pending, acks, stepRpc, poll, comments, mergedBy, feedback,
                       dispatches, redrives, troubles, crashes, faults>>
    PROVE  IInv'
  <1> USE DEF IInv
  <1>1. task' \in Task /\ task'.pc = pc /\ task'.target \notin Terminal
    BY GotoTyped
  <1>5. TypeOK' /\ FlowInv'
    BY <1>1 DEF TypeOK, FlowInv, feedback
  <1>6. CycleInv'
    BY <1>1, CycleKept
  <1>7. ApprovalInv'
    BY <1>1, ApprovalKept DEF ApprovalInv
  <1>8. WorkerInv'
    BY <1>1, WorkerKept
  <1> QED
    BY <1>5, <1>6, <1>7, <1>8

LEMMA TaskStatusInv ==
    ASSUME IInv, TaskStatus
    PROVE  IInv'
  <1>1. task.pc = "status" /\ task # NoTask /\ task.target \in Statuses \ Terminal /\ wf \in Row
    BY DEF TaskStatus, TaskAt, IInv, TypeOK, FlowInv, NoTask, None, Task
  <1>2. [wf EXCEPT !.status = task.target] \in Row
    BY <1>1, RowTyped
  <1>3. /\ wf' \in Row /\ wf'.cycles = wf.cycles /\ wf'.review = wf.review
        /\ wf'.status = wf.status \/ wf'.status \notin Terminal
    BY <1>1, <1>2, UpdatedTyped DEF TaskStatus, Row
  <1>4. FirstStep(task.target) \in TaskPc \ {"dispatch", "pr_number", "gh_repo", "kill", "merge", "finish"}
    BY <1>1 DEF FirstStep, TaskPc, Statuses
  <1> QED
    BY <1>1, <1>3, <1>4, GotoInv DEF TaskStatus, TaskFrame, counters, IInv, TypeOK, None

LEMMA TaskNoopInv ==
    ASSUME IInv, TaskNoop
    PROVE  IInv'
  BY FinishInv DEF TaskNoop, TaskFrame, feedback, counters, IInv, TypeOK

LEMMA TaskLimitInv ==
    ASSUME IInv, TaskLimit
    PROVE  IInv'
  <1>1. task.pc = "limit" /\ wf \in Row /\ wf.cycles \in Nat
    BY DEF TaskLimit, TaskAt, IInv, TypeOK, Row
  <1>2. CASE ~Active /\ Fail
    BY <1>2, FinishInv DEF TaskLimit, Fail, TaskFrame, feedback, counters, IInv, TypeOK
  <1>3. CASE Active /\ Finish(TRUE, [wf EXCEPT !.stalled = TRUE])
    <2> DEFINE row == [wf EXCEPT !.stalled = TRUE]
    <2>1. row \in Row
      BY <1>1, RowTyped
    <2>2. row.status = wf.status /\ row.cycles = wf.cycles /\ row.review = wf.review
      BY <1>1 DEF Row
    <2>3. /\ wf' \in Row /\ wf'.status = wf.status /\ wf'.cycles = wf.cycles /\ wf'.review = wf.review
          /\ task' \in Task /\ task'.pc \in {None, "status"}
          /\ task' # NoTask => task'.target \notin Terminal
          /\ pending' \in (Statuses \ Terminal) \cup {None}
      BY <1>3, <2>1, <2>2, FinishTyped DEF IInv
    <2>4. TypeOK' /\ FlowInv'
      BY <2>3 DEF TaskLimit, TaskFrame, feedback, counters, IInv, TypeOK, FlowInv
    <2>5. CycleInv'
      BY <2>3, CycleKept DEF TaskLimit, None
    <2>6. ApprovalInv'
      BY <2>3, ApprovalKept DEF TaskLimit, TaskFrame, IInv, ApprovalInv, TaskPc
    <2>7. WorkerInv'
      BY <2>3, WorkerKept DEF TaskLimit, TaskFrame, counters, None
    <2> QED
      BY <2>4, <2>5, <2>6, <2>7 DEF IInv
  <1>4. CASE Active /\ ~LimitReached /\ wf' = [wf EXCEPT !.cycles = @ + 1] /\ Goto("dispatch") /\ UNCHANGED pending
    <2>1. wf' \in Row
      BY <1>1, <1>4, RowTyped
    <2>2. wf'.cycles = wf.cycles + 1 /\ wf'.status = wf.status /\ wf'.review = wf.review
      BY <1>1, <1>4 DEF Row
    <2>3. task' \in Task /\ task'.pc = "dispatch" /\ task'.target \notin Terminal
      BY <1>1, <1>4, GotoTyped DEF IInv, None, TaskPc
    <2>4. TypeOK' /\ FlowInv'
      BY <1>4, <2>1, <2>3 DEF TaskLimit, TaskFrame, feedback, counters, IInv, TypeOK, FlowInv
    <2>5. CycleInv'
      <3>1. dispatches' = dispatches /\ dispatches \in Int /\ dispatches <= wf.cycles /\ wf.cycles < MaxImplementCycles
        <4>1. dispatches' = dispatches /\ dispatches \in Int
          BY DEF TaskLimit, IInv, TypeOK
        <4>2. dispatches <= wf.cycles
          BY <1>1, <4>1 DEF IInv, CycleInv, Owed
        <4> QED
          BY <1>1, <1>4, <4>1, <4>2, LimitsAssumption DEF LimitReached
      <3> QED
        BY <1>1, <2>2, <2>3, <3>1, LimitsAssumption DEF CycleInv, Owed
    <2>6. ApprovalInv'
      BY <2>2, <2>3, ApprovalKept DEF TaskLimit, TaskFrame, IInv, ApprovalInv, TaskPc
    <2>7. WorkerInv'
      BY <2>2, <2>3, WorkerKept DEF TaskLimit, TaskFrame, counters
    <2> QED
      BY <2>4, <2>5, <2>6, <2>7 DEF IInv
  <1> QED
    BY <1>2, <1>3, <1>4 DEF TaskLimit

LEMMA TaskDispatchInv ==
    ASSUME IInv, TaskDispatch
    PROVE  IInv'
  <1>1. /\ task.pc = "dispatch" /\ wf \in Row /\ ticket \in TicketRow /\ worker \in Worker
        /\ faults \in Nat /\ dispatches \in Nat \cup {-1} /\ wf.cycles \in Nat
    BY DEF TaskDispatch, TaskAt, IInv, TypeOK, Row
  <1>2. [ticket EXCEPT !.branch = TRUE] \in TicketRow /\ [worker EXCEPT !.step = "implementing"] \in Worker
    BY <1>1, TicketTyped, WorkerTyped
  <1>3. /\ [ticket EXCEPT !.branch = TRUE].meta = ticket.meta
        /\ [ticket EXCEPT !.branch = TRUE].autoapprove = ticket.autoapprove
        /\ [worker EXCEPT !.step = "implementing"].up = worker.up
    BY <1>1 DEF TicketRow, Worker
  <1>4. CASE Fail /\ UNCHANGED <<worker, dispatches>>
    <2>1. ticket' \in {ticket, [ticket EXCEPT !.branch = TRUE]} /\ faults' \in {faults, faults + 1}
      BY <1>4 DEF TaskDispatch, Fault
    <2>2. ticket' \in TicketRow /\ ticket'.meta = ticket.meta /\ ticket'.autoapprove = ticket.autoapprove
      BY <1>1, <1>2, <1>3, <2>1
    <2> QED
      BY <1>1, <1>4, <2>1, <2>2, FinishInv DEF TaskDispatch, Fail, TaskFrame, feedback, IInv, TypeOK
  <1>5. CASE /\ ticket' = [ticket EXCEPT !.branch = TRUE]
             /\ worker' = [worker EXCEPT !.step = "implementing"]
             /\ dispatches' = dispatches + 1
             /\ Finish(TRUE, wf) /\ UNCHANGED faults
    <2>1. /\ wf' \in Row /\ wf'.status = wf.status /\ wf'.cycles = wf.cycles /\ wf'.review = wf.review
          /\ task' \in Task /\ task'.pc \in {None, "status"}
          /\ task' # NoTask => task'.target \notin Terminal
          /\ pending' \in (Statuses \ Terminal) \cup {None}
      BY <1>1, <1>5, FinishTyped DEF IInv
    <2>2. dispatches' \in Nat \cup {-1}
      BY <1>1, <1>5
    <2>3. TypeOK' /\ FlowInv'
      BY <1>2, <1>5, <2>1, <2>2 DEF TaskDispatch, TaskFrame, feedback, IInv, TypeOK, FlowInv
    <2>4. CycleInv'
      BY <1>1, <1>5, <2>1 DEF IInv, CycleInv, Owed, None
    <2>5. ApprovalInv'
      BY <1>3, <1>5, <2>1, ApprovalKept DEF TaskDispatch, TaskFrame, IInv, ApprovalInv, TaskPc
    <2>6. WorkerInv'
      BY <1>3, <1>5, <2>1, WorkerKept DEF TaskDispatch, TaskFrame, None
    <2> QED
      BY <2>3, <2>4, <2>5, <2>6 DEF IInv
  <1> QED
    BY <1>4, <1>5 DEF TaskDispatch

LEMMA TaskHookInv ==
    ASSUME IInv, TaskHook
    PROVE  IInv'
  <1>1. (Finish(TRUE, wf) \/ Finish(FALSE, wf)) /\ (UNCHANGED rx \/ \E s \in {"pushing", "implementing"} : Send(s))
    BY DEF TaskHook, Fail
  <1>2. rx' \in Seq(Statuses \ Terminal) /\ Len(rx') <= RxCap
    BY <1>1, SendTyped DEF IInv, TypeOK, Statuses, Terminal
  <1> QED
    BY <1>1, <1>2, FinishInv DEF TaskHook, TaskFrame, feedback, counters, IInv, TypeOK

LEMMA TaskPushInv ==
    ASSUME IInv, TaskPush
    PROVE  IInv'
  <1>1. /\ task.pc = "push" /\ worker \in Worker /\ worker.commitAt \in 0..MaxComments
        /\ gh \in PullRequest /\ pushes \in Nat
    BY DEF TaskPush, TaskAt, IInv, TypeOK, Worker
  <1>2. CASE Fail /\ UNCHANGED <<worker, rx, gh, pushes>>
    BY <1>2, FinishInv DEF TaskPush, Fail, TaskFrame, feedback, IInv, TypeOK
  <1>3. CASE StallAgent
    <2>1. [worker EXCEPT !.agentStalled = TRUE] \in Worker /\ [worker EXCEPT !.agentStalled = TRUE].up = worker.up
      BY <1>1, WorkerTyped DEF Worker
    <2> QED
      BY <1>3, <2>1, FinishInv DEF TaskPush, StallAgent, TaskFrame, feedback, IInv, TypeOK
  <1>4. CASE PushSentBack
    <2>1. rx' \in Seq(Statuses \ Terminal) /\ Len(rx') <= RxCap
      BY <1>4, SendTyped DEF PushSentBack, IInv, Statuses, Terminal
    <2> QED
      BY <1>4, <2>1, FinishInv DEF TaskPush, PushSentBack, TaskFrame, feedback, IInv, TypeOK
  <1>5. CASE PushSucceeded
    <2>1. gh' \in PullRequest /\ gh'.state = gh.state /\ pushes' \in Nat
      BY <1>1, <1>5 DEF PushSucceeded, PullRequest
    <2>2. "pr" \in TaskPc \ {"dispatch", "pr_number", "gh_repo", "kill", "merge", "finish"} /\ task.pc # None
      BY <1>1 DEF TaskPc, None
    <2> QED
      BY <1>5, <2>1, <2>2, GotoInv DEF TaskPush, PushSucceeded, TaskFrame, IInv, TypeOK
  <1> QED
    BY <1>2, <1>3, <1>4, <1>5 DEF TaskPush

\* A pull request is opened only for a ticket that names none: what a pass of
\* the poller has seen merged is not it.
LEMMA TaskEnsurePrInv ==
    ASSUME IInv, TaskEnsurePr
    PROVE  IInv'
  <1>1. task.pc = "pr" /\ task.pc # None /\ wf \in Row /\ gh \in PullRequest
    BY DEF TaskEnsurePr, TaskAt, IInv, TypeOK, None
  <1>2. CASE Goto("conditions") /\ UNCHANGED <<wf, pending, gh, faults>>
    <2>1. "conditions" \in TaskPc \ {"dispatch", "pr_number", "gh_repo", "kill", "merge", "finish"}
      BY DEF TaskPc
    <2> QED
      BY <1>1, <1>2, <2>1, GotoInv DEF TaskEnsurePr, TaskFrame, counters, IInv, TypeOK
  <1>3. CASE Fail /\ UNCHANGED gh /\ faults' \in {faults, faults + 1}
    BY <1>3, FinishInv DEF TaskEnsurePr, Fail, TaskFrame, feedback, IInv, TypeOK
  <1>4. CASE /\ ticket.meta = None /\ gh' = [gh EXCEPT !.state = "open"]
             /\ Goto("pr_number") /\ UNCHANGED <<wf, pending, faults>>
    <2>1. gh' \in PullRequest /\ gh'.state = "open"
      BY <1>1, <1>4 DEF PullRequest
    <2>2. task' \in Task /\ task'.pc = "pr_number" /\ task'.target \notin Terminal
      BY <1>1, <1>4, GotoTyped DEF IInv, TaskPc
    <2>3. UNCHANGED <<wf, pending, ticket, worker, rx, mergedBy, feedback, dispatches, counters, acks, stepRpc,
                      poll, comments>>
      BY <1>4 DEF TaskEnsurePr, TaskFrame, counters
    <2>4. TypeOK' /\ FlowInv'
      BY <2>1, <2>2, <2>3 DEF feedback, counters, IInv, TypeOK, FlowInv
    <2>5. CycleInv'
      BY <2>2, <2>3, CycleKept
    <2>6. ApprovalInv'
      <3>1. (Approved' <=> Approved) /\ ~MergedAlready /\ poll.pc \in {"idle", "meta"}
        BY <1>4, <2>3 DEF Approved, MergedAlready, IInv, ApprovalInv, None
      <3>2. poll.signal # "merged"
        BY <3>1 DEF IInv, FlowInv, NoPoll, None
      <3> QED
        BY <1>4, <2>2, <2>3, <3>1, <3>2 DEF IInv, ApprovalInv
    <2>7. WorkerInv'
      BY <2>2, <2>3, WorkerKept DEF counters
    <2> QED
      BY <2>4, <2>5, <2>6, <2>7 DEF IInv
  <1> QED
    BY <1>2, <1>3, <1>4 DEF TaskEnsurePr, Fault

LEMMA TaskPrMetaInv ==
    ASSUME IInv, TaskPrMeta
    PROVE  IInv'
  <1> DEFINE next == IF task.pc = "pr_number" THEN "gh_repo" ELSE "conditions"
             meta == IF task.pc = "pr_number" THEN "number" ELSE "full"
  <1>1. task.pc \in {"pr_number", "gh_repo"} /\ task.pc # None /\ ticket \in TicketRow
    BY DEF TaskPrMeta, IInv, TypeOK, None
  <1>2. CASE Fault /\ Fail /\ UNCHANGED ticket
    BY <1>2, FinishInv DEF TaskPrMeta, Fault, Fail, TaskFrame, feedback, IInv, TypeOK
  <1>3. CASE ticket' = [ticket EXCEPT !.meta = meta] /\ Goto(next) /\ UNCHANGED <<wf, pending, faults>>
    <2>1. ticket' \in TicketRow /\ ticket'.meta = meta /\ ticket'.autoapprove = ticket.autoapprove
      BY <1>1, <1>3 DEF TicketRow
    <2>2. task' \in Task /\ task'.pc = next /\ task'.target \notin Terminal
      BY <1>1, <1>3, GotoTyped DEF IInv, TaskPc
    <2>3. UNCHANGED <<wf, pending, worker, rx, gh, mergedBy, feedback, dispatches, counters, acks, stepRpc, poll,
                      comments>>
      BY <1>3 DEF TaskPrMeta, TaskFrame, counters
    <2>4. TypeOK' /\ FlowInv'
      BY <2>1, <2>2, <2>3 DEF feedback, counters, IInv, TypeOK, FlowInv
    <2>5. CycleInv'
      BY <2>2, <2>3, CycleKept
    <2>6. ApprovalInv'
      <3>1. (Approved' <=> Approved) /\ ~MergedAlready /\ poll.pc \in {"idle", "meta"}
        BY <1>1, <2>1, <2>3 DEF Approved, MergedAlready, IInv, ApprovalInv, None
      <3> QED
        BY <1>1, <2>1, <2>2, <2>3, <3>1 DEF IInv, ApprovalInv
    <2>7. WorkerInv'
      BY <2>2, <2>3, WorkerKept DEF counters
    <2> QED
      BY <2>4, <2>5, <2>6, <2>7 DEF IInv
  <1> QED
    BY <1>1, <1>2, <1>3 DEF TaskPrMeta, TaskAt

LEMMA TaskConditionsInv ==
    ASSUME IInv, TaskConditions
    PROVE  IInv'
  <1>1. wf \in Row /\ ticket \in TicketRow
    BY DEF IInv, TypeOK
  <1>2. InitialConditions \in Row
    BY <1>1 DEF InitialConditions, Row
  <1>3. /\ InitialConditions.status = wf.status /\ InitialConditions.cycles = wf.cycles
        /\ InitialConditions.review = "pending" \/ Approved
    BY <1>1 DEF InitialConditions, Row, Approved
  <1>4. /\ Updated(InitialConditions) \in Row
        /\ Updated(InitialConditions).status = wf.status /\ Updated(InitialConditions).cycles = wf.cycles
        /\ Updated(InitialConditions).review \in {wf.review, "pending"} \/ Approved
    BY <1>1, <1>2, <1>3, UpdatedTyped
  <1>5. /\ wf' \in Row /\ wf'.status = wf.status /\ wf'.cycles = wf.cycles
        /\ wf'.review \in {wf.review, "pending"} \/ Approved
        /\ task' \in Task /\ task'.pc \in {None, "status"}
        /\ task' # NoTask => task'.target \notin Terminal
        /\ pending' \in (Statuses \ Terminal) \cup {None}
    BY <1>4, FinishTyped DEF TaskConditions, IInv
  <1>6. rx' \in Seq(Statuses \ Terminal) /\ Len(rx') <= RxCap
    BY SendTyped DEF TaskConditions, IInv, Statuses, Terminal
  <1>7. UNCHANGED <<ticket, worker, gh, mergedBy, feedback, dispatches, counters, acks, stepRpc, poll, comments>>
    BY DEF TaskConditions, TaskFrame
  <1>8. TypeOK' /\ FlowInv'
    BY <1>5, <1>6, <1>7 DEF feedback, counters, IInv, TypeOK, FlowInv
  <1>9. CycleInv'
    BY <1>5, <1>7, CycleKept DEF None
  <1>10. ApprovalInv'
    BY <1>5, <1>7, ApprovalKept DEF IInv, ApprovalInv, TaskPc
  <1>11. WorkerInv'
    BY <1>5, <1>7, WorkerKept DEF counters, None
  <1> QED
    BY <1>8, <1>9, <1>10, <1>11 DEF IInv

LEMMA TaskFeedbackInv ==
    ASSUME IInv, TaskFeedback
    PROVE  IInv'
  <1>1. worker \in Worker /\ faults \in Nat
    BY DEF IInv, TypeOK
  <1>2. worker' \in {worker, [worker EXCEPT !.step = "addressing_feedback"]} /\ faults' \in {faults, faults + 1}
    BY DEF TaskFeedback, Fault
  <1>3. worker' \in Worker /\ worker'.up = worker.up
    BY <1>1, <1>2, WorkerTyped DEF Worker
  <1>4. offered' \subseteq DOMAIN comments /\ (Finish(TRUE, wf) \/ Finish(FALSE, wf))
    BY DEF TaskFeedback, Fail, IInv, TypeOK
  <1> QED
    BY <1>1, <1>2, <1>3, <1>4, FinishInv DEF TaskFeedback, TaskFrame, IInv, TypeOK

-----------------------------------------------------------------------------
(* MergeHandler *)

LEMMA PromotedTyped ==
    ASSUME IInv
    PROVE  /\ Promoted \in Row /\ Promoted.status = wf.status /\ Promoted.cycles = wf.cycles
           /\ Promoted.review = wf.review \/ Approved
           /\ PreMerge(Promoted) => Approved \/ MergedAlready
  <1>1. wf \in Row /\ ticket \in TicketRow
    BY DEF IInv, TypeOK
  <1>2. [wf EXCEPT !.review = "approved"] \in Row
    BY <1>1, RowTyped
  <1>3. /\ [wf EXCEPT !.review = "approved"].status = wf.status
        /\ [wf EXCEPT !.review = "approved"].cycles = wf.cycles
    BY <1>1 DEF Row
  <1>4. /\ Promoted \in Row /\ Promoted.status = wf.status /\ Promoted.cycles = wf.cycles
        /\ Promoted.review = wf.review \/ Approved
    <2>1. CASE ticket.autoapprove
      BY <1>1, <1>2, <1>3, <2>1, UpdatedTyped DEF Promoted, Approved
    <2>2. CASE ~ticket.autoapprove
      BY <1>1, <2>2 DEF Promoted
    <2> QED
      BY <2>1, <2>2
  <1>5. PreMerge(Promoted) => Approved \/ MergedAlready
    BY <1>4 DEF PreMerge, IInv, ApprovalInv
  <1> QED
    BY <1>4, <1>5

LEMMA TaskGateInv ==
    ASSUME IInv, TaskGate
    PROVE  IInv'
  <1>1. task.pc = "gate" /\ task.pc # None /\ faults \in Nat
    BY DEF TaskGate, TaskAt, IInv, TypeOK, None
  <1>2. UNCHANGED <<ticket, worker, rx, gh, mergedBy, feedback, dispatches, pushes, redrives, troubles, crashes,
                    acks, stepRpc, poll, comments>>
    BY DEF TaskGate, TaskFrame
  <1>3. /\ wf' \in Row /\ wf'.status = wf.status /\ wf'.cycles = wf.cycles
        /\ wf'.review = wf.review \/ Approved
        /\ task' \in Task /\ (task' # NoTask => task'.target \notin Terminal)
        /\ pending' \in (Statuses \ Terminal) \cup {None}
        /\ task'.pc \in {None, "status", "kill", "kill_closed"}
        /\ task'.pc \in {"kill", "kill_closed"} => Approved \/ MergedAlready
        /\ faults' \in {faults, faults + 1}
    <2>1. CASE /\ PreMerge(Promoted) /\ wf' = Promoted
               /\ Goto(IF gh.state = "open" THEN "kill" ELSE "kill_closed") /\ UNCHANGED <<pending, faults>>
      <3>1. PICK pc \in {"kill", "kill_closed"} : Goto(pc)
        BY <2>1
      <3>2. pc \in TaskPc
        BY DEF TaskPc
      <3>3. task' \in Task /\ task'.pc = pc /\ task'.target \notin Terminal
        BY <1>1, <3>1, <3>2, GotoTyped DEF IInv
      <3> QED
        BY <2>1, <3>3, PromotedTyped DEF IInv, TypeOK
    <2>2. CASE Finish(FALSE, Promoted) /\ faults' \in {faults, faults + 1}
      BY <2>2, PromotedTyped, FinishTyped DEF IInv, None
    <2> QED
      BY <2>1, <2>2 DEF TaskGate, Fault
  <1>4. TypeOK' /\ FlowInv'
    BY <1>1, <1>2, <1>3 DEF feedback, IInv, TypeOK, FlowInv
  <1>5. CycleInv'
    BY <1>2, <1>3, CycleKept DEF None
  <1>6. ApprovalInv'
    <2>1. (Approved' <=> Approved) /\ (MergedAlready' <=> MergedAlready)
      BY <1>2 DEF Approved, MergedAlready
    <2> QED
      BY <1>2, <1>3, <2>1 DEF IInv, ApprovalInv, None
  <1>7. WorkerInv'
    BY <1>1, <1>2, <1>3, WorkerKept DEF None
  <1> QED
    BY <1>4, <1>5, <1>6, <1>7 DEF IInv

LEMMA TaskKillInv ==
    ASSUME IInv, TaskKill
    PROVE  IInv'
  <1>1. /\ task.pc \in {"kill", "kill_closed"} /\ task.pc # None /\ faults \in Nat
        /\ worker \in Worker /\ Stopped \in Worker /\ ~Stopped.up
    BY WorkerTyped DEF TaskKill, IInv, TypeOK, None
  <1>2. CASE Fault /\ Fail /\ UNCHANGED worker
    BY <1>1, <1>2, FinishInv DEF TaskKill, Fault, Fail, TaskFrame, feedback, IInv, TypeOK
  <1>3. CASE /\ worker' = Stopped /\ Goto(IF TaskAt("kill") THEN "merge" ELSE "finish")
             /\ UNCHANGED <<wf, pending, faults>>
    <2>1. PICK pc \in {"merge", "finish"} : Goto(pc) /\ (pc = "merge" => task.pc = "kill")
      BY <1>3 DEF TaskAt
    <2>2. pc \in TaskPc
      BY DEF TaskPc
    <2>3. task' \in Task /\ task'.pc = pc /\ task'.target \notin Terminal
      BY <1>1, <2>1, <2>2, GotoTyped DEF IInv
    <2>4. UNCHANGED <<wf, pending, faults, ticket, rx, gh, mergedBy, feedback, dispatches, pushes, redrives,
                      troubles, crashes, acks, stepRpc, poll, comments>>
      BY <1>3 DEF TaskKill, TaskFrame
    <2>5. TypeOK' /\ FlowInv'
      BY <1>1, <1>3, <2>3, <2>4 DEF feedback, IInv, TypeOK, FlowInv
    <2>6. CycleInv'
      BY <2>3, <2>4, CycleKept
    <2>7. ApprovalInv'
      <3>1. (Approved' <=> Approved) /\ (MergedAlready' <=> MergedAlready)
        BY <2>4 DEF Approved, MergedAlready
      <3> QED
        BY <2>1, <2>3, <2>4, <3>1 DEF IInv, ApprovalInv
    <2>8. WorkerInv'
      BY <1>1, <1>3 DEF WorkerInv
    <2> QED
      BY <2>5, <2>6, <2>7, <2>8 DEF IInv
  <1> QED
    BY <1>2, <1>3 DEF TaskKill

\* The merge itself: what the gate has seen approved is still open.
LEMMA TaskMergeInv ==
    ASSUME IInv, TaskMerge
    PROVE  IInv'
  <1>1. task.pc = "merge" /\ task.pc # None /\ gh \in PullRequest
    BY DEF TaskMerge, TaskAt, IInv, TypeOK, None
  <1>2. CASE Fail /\ UNCHANGED <<rx, gh, mergedBy>>
    BY <1>2, FinishInv DEF TaskMerge, Fail, TaskFrame, feedback, counters, IInv, TypeOK
  <1>3. CASE /\ Goto("finish") /\ UNCHANGED <<wf, pending>>
             /\ \/ gh.state = "open" /\ gh' = [gh EXCEPT !.state = "merged"] /\ mergedBy' = "server" /\ UNCHANGED rx
                \/ Send("implementing") /\ UNCHANGED <<gh, mergedBy>>
    <2>1. task' \in Task /\ task'.pc = "finish" /\ task'.target \notin Terminal
      BY <1>1, <1>3, GotoTyped DEF IInv, TaskPc
    <2>2. rx' \in Seq(Statuses \ Terminal) /\ Len(rx') <= RxCap
      BY <1>3, SendTyped DEF IInv, TypeOK, Statuses, Terminal
    <2>3. UNCHANGED <<wf, pending, ticket, worker, feedback, dispatches, counters, acks, stepRpc, poll, comments>>
      BY <1>3 DEF TaskMerge, TaskFrame
    <2>4. gh' \in PullRequest /\ (gh'.state = gh.state \/ (gh.state = "open" /\ gh'.state = "merged"))
      <3>1. gh' = gh \/ (gh.state = "open" /\ gh' = [gh EXCEPT !.state = "merged"])
        BY <1>3
      <3>2. [gh EXCEPT !.state = "merged"] \in PullRequest /\ [gh EXCEPT !.state = "merged"].state = "merged"
        BY <1>1 DEF PullRequest
      <3> QED
        BY <1>1, <3>1, <3>2
    <2>5. TypeOK' /\ FlowInv'
      <3>1. mergedBy' \in {None, "human", "server"}
        BY <1>3 DEF IInv, TypeOK
      <3> QED
        BY <2>1, <2>2, <2>3, <2>4, <3>1 DEF feedback, counters, IInv, TypeOK, FlowInv
    <2>6. CycleInv'
      BY <2>1, <2>3, CycleKept
    <2>7. ApprovalInv'
      <3>1. (Approved' <=> Approved) /\ (MergedAlready => MergedAlready')
        BY <2>3, <2>4 DEF Approved, MergedAlready
      <3>2. mergedBy' = "server" => Approved
        BY <1>1, <1>3 DEF IInv, ApprovalInv, MergedAlready
      <3> QED
        BY <1>1, <2>1, <2>3, <2>4, <3>1, <3>2 DEF IInv, ApprovalInv
    <2>8. WorkerInv'
      BY <1>1, <2>1, <2>3 DEF IInv, WorkerInv, counters
    <2> QED
      BY <2>5, <2>6, <2>7, <2>8 DEF IInv
  <1> QED
    BY <1>2, <1>3 DEF TaskMerge, MergeRefused

LEMMA TaskFinishInv ==
    ASSUME IInv, TaskFinish
    PROVE  IInv'
  <1> DEFINE row == [wf EXCEPT !.status = "done"]
  <1>1. /\ task.pc = "finish" /\ task.pc # None /\ wf \in Row /\ ~worker.up /\ faults \in Nat
    BY DEF TaskFinish, TaskAt, IInv, TypeOK, WorkerInv, None
  <1>2. row \in Row /\ row.cycles = wf.cycles /\ row.review = wf.review
    BY <1>1 DEF Row, Statuses, Terminal
  <1>3. faults' \in Nat /\ (wf' = wf \/ wf' = Updated(row))
    BY <1>1 DEF TaskFinish, Fault
  <1> HIDE DEF row
  <1>4. wf' \in Row /\ wf'.cycles = wf.cycles /\ wf'.review = wf.review
    BY <1>1, <1>2, <1>3, UpdatedTyped
  <1>5. task' \in Task /\ task'.pc = "close" /\ task'.target \notin Terminal
    BY <1>1, GotoTyped DEF TaskFinish, IInv, TaskPc
  <1>6. UNCHANGED <<pending, ticket, worker, rx, gh, mergedBy, feedback, dispatches, acks, stepRpc, poll, comments,
                    pushes, redrives, troubles, crashes>>
    BY DEF TaskFinish, TaskFrame
  <1>7. TypeOK' /\ FlowInv'
    BY <1>3, <1>4, <1>5, <1>6 DEF feedback, IInv, TypeOK, FlowInv
  <1>8. CycleInv'
    BY <1>4, <1>5, <1>6, CycleKept
  <1>9. ApprovalInv'
    BY <1>4, <1>5, <1>6, ApprovalKept DEF IInv, ApprovalInv, TaskPc
  <1>10. WorkerInv'
    BY <1>1, <1>6 DEF WorkerInv
  <1> QED
    BY <1>7, <1>8, <1>9, <1>10 DEF IInv

LEMMA TaskCloseInv ==
    ASSUME IInv, TaskClose
    PROVE  IInv'
  <1>1. ticket \in TicketRow /\ (ticket' = ticket \/ ticket' = Closed)
    BY DEF TaskClose, IInv, TypeOK
  <1>2. ticket' \in TicketRow /\ ticket'.meta = ticket.meta /\ ticket'.autoapprove = ticket.autoapprove
    BY <1>1 DEF Closed, TicketRow
  <1> QED
    BY <1>2, FinishInv DEF TaskClose, Fault, Fail, TaskFrame, feedback, IInv, TypeOK

LEMMA TaskStepInv ==
    ASSUME IInv, TaskStep
    PROVE  IInv'
  BY TaskStatusInv, TaskNoopInv, TaskLimitInv, TaskDispatchInv, TaskHookInv, TaskPushInv, TaskEnsurePrInv,
     TaskPrMetaInv, TaskConditionsInv, TaskFeedbackInv, TaskGateInv, TaskKillInv, TaskMergeInv, TaskFinishInv,
     TaskCloseInv
  DEF TaskStep

-----------------------------------------------------------------------------
(* The worker RPCs. *)

\* An RPC that neither touches the pull request nor the handler.
LEMMA RpcInv ==
    ASSUME IInv, wf' \in Row, wf'.status = wf.status, wf'.cycles = wf.cycles, wf'.review = wf.review,
           worker' \in Worker, worker'.up => worker.up, acks' \in Nat,
           stepRpc' \in [status : Statuses \ Terminal, mode : {None, "now", "later"}] \cup {NoStep},
           rx' \in Seq(Statuses \ Terminal), Len(rx') <= RxCap, created' \subseteq seen,
           troubles' \in Nat,
           UNCHANGED <<ticket, task, pending, poll, remote, offered, seen, dispatches, pushes, redrives,
                       crashes, faults>>
    PROVE  IInv'
  <1>1. TypeOK' /\ FlowInv'
    BY DEF remote, IInv, TypeOK, FlowInv
  <1>2. CycleInv'
    BY CycleKept
  <1>3. ApprovalInv'
    BY ApprovalKept DEF remote, IInv, ApprovalInv
  <1>4. WorkerInv'
    BY WorkerKept
  <1> QED
    BY <1>1, <1>2, <1>3, <1>4 DEF IInv

LEMMA AgentIdleInv ==
    ASSUME IInv, AgentIdle
    PROVE  IInv'
  <1>1. worker \in Worker /\ worker' = [worker EXCEPT !.agentStalled = FALSE]
    BY DEF AgentIdle, IInv, TypeOK
  <1>2. worker' \in Worker /\ worker'.up = worker.up
    BY <1>1, WorkerTyped DEF Worker
  <1>3. rx' \in Seq(Statuses \ Terminal) /\ Len(rx') <= RxCap
    BY SendTyped DEF AgentIdle, IInv, TypeOK, Statuses, Terminal
  <1> QED
    BY <1>2, <1>3, RpcInv DEF AgentIdle, RpcFrame, counters, IInv, TypeOK

LEMMA RequestHumanInv ==
    ASSUME IInv, RequestHuman
    PROVE  IInv'
  <1>1. worker \in Worker /\ worker' = [worker EXCEPT !.agentStalled = TRUE] /\ wf \in Row /\ troubles \in Nat
    BY DEF RequestHuman, IInv, TypeOK
  <1>2. worker' \in Worker /\ worker'.up = worker.up
    BY <1>1, WorkerTyped DEF Worker
  <1>3. [wf EXCEPT !.stalled = TRUE] \in Row
    BY <1>1, RowTyped
  <1>4. wf' \in Row /\ wf'.status = wf.status /\ wf'.cycles = wf.cycles /\ wf'.review = wf.review
    <2>1. wf' \in {wf, [wf EXCEPT !.stalled = TRUE]}
      BY DEF RequestHuman, Updated
    <2>2. CASE wf' = wf
      BY <1>1, <2>2
    <2>3. CASE wf' = [wf EXCEPT !.stalled = TRUE]
      <3>1. /\ [wf EXCEPT !.stalled = TRUE].status = wf.status
            /\ [wf EXCEPT !.stalled = TRUE].cycles = wf.cycles
            /\ [wf EXCEPT !.stalled = TRUE].review = wf.review
        BY <1>1 DEF Row
      <3> QED
        BY <1>3, <2>3, <3>1
    <2> QED
      BY <2>1, <2>2, <2>3
  <1> QED
    BY <1>1, <1>2, <1>4, RpcInv DEF RequestHuman, RpcFrame, IInv, TypeOK

LEMMA StepCompleteInv ==
    ASSUME IInv, StepComplete
    PROVE  IInv'
  <1>1. PICK n \in {worker.commitAt, Len(comments)} : worker' = [worker EXCEPT !.step = None, !.commitAt = n]
    BY DEF StepComplete, IInv, TypeOK, Worker
  <1>2. n \in 0..MaxComments /\ worker \in Worker
    BY <1>1, LimitsAssumption DEF IInv, TypeOK, FlowInv, Worker
  <1>3. worker' \in Worker /\ worker'.up = worker.up
    BY <1>1, <1>2, WorkerTyped DEF Worker
  <1>4. acks' \in Nat /\ troubles \in Nat
    BY DEF StepComplete, IInv, TypeOK
  <1> QED
    BY <1>3, <1>4, RpcInv DEF StepComplete, RpcFrame, counters, IInv, TypeOK

LEMMA StepArrivesInv ==
    ASSUME IInv, StepArrives
    PROVE  IInv'
  <1>1. acks' \in Nat
    BY DEF StepArrives, IInv, TypeOK
  <1>2. stepRpc' \in [status : Statuses \ Terminal, mode : {None, "now", "later"}] \cup {NoStep}
    BY DEF StepArrives, IInv, TypeOK, Active, Row
  <1> QED
    BY <1>1, <1>2, RpcInv DEF StepArrives, RpcFrame, counters, IInv, TypeOK

LEMMA StepRoutesInv ==
    ASSUME IInv, StepRoutes
    PROVE  IInv'
  <1>1. Route(stepRpc.status, stepRpc.mode) \in {"verifying", "implementing", "merging", None}
    BY DEF Route
  <1>2. UNCHANGED rx \/ \E s \in {"verifying", "implementing", "merging"} : Send(s)
    BY <1>1 DEF StepRoutes
  <1>3. rx' \in Seq(Statuses \ Terminal) /\ Len(rx') <= RxCap
    BY <1>2, SendTyped DEF IInv, TypeOK, Statuses, Terminal
  <1>4. created' \subseteq seen
    BY DEF StepRoutes, IInv, TypeOK
  <1> QED
    BY <1>3, <1>4, RpcInv DEF StepRoutes, RpcFrame, counters, IInv, TypeOK

\* A redrive starts a fresh budget; a dispatch already counted is not part of it.
LEMMA BudgetReset ==
    ASSUME IInv, task' = task,
           Active => wf'.cycles = 0 /\ dispatches' = FreshBudget,
           ~Active => wf' = wf /\ dispatches' = dispatches
    PROVE  CycleInv' /\ dispatches' \in Nat \cup {-1}
  <1>1. CASE Active
    BY <1>1, LimitsAssumption DEF CycleInv, Owed, FreshBudget
  <1>2. CASE ~Active
    BY <1>2, CycleKept DEF IInv, TypeOK
  <1> QED
    BY <1>1, <1>2

LEMMA RedriveInv ==
    ASSUME IInv, NEW s \in RedriveTargets, Redrive(s)
    PROVE  IInv'
  <1> DEFINE row == [wf EXCEPT !.stalled = FALSE, !.cycles = 0]
  <1>1. wf \in Row /\ s \in Statuses \ Terminal /\ redrives \in Nat
    BY OutcomesAssumption DEF IInv, TypeOK
  <1>2. row \in Row
    BY <1>1, RowTyped
  <1>3. row.cycles = 0 /\ row.status = wf.status /\ row.review = wf.review
    BY <1>1 DEF Row
  <1> HIDE DEF row
  <1>4. wf' = Updated(row) /\ (Active => wf' = row) /\ (~Active => wf' = wf)
    BY DEF Redrive, Updated, row
  <1>5. wf' \in Row /\ wf'.status = wf.status /\ wf'.review = wf.review
    BY <1>1, <1>2, <1>3, <1>4
  <1>6. UNCHANGED <<ticket, worker, acks, stepRpc, task, pending, poll, remote, feedback, pushes, troubles,
                    crashes, faults>>
    BY DEF Redrive
  <1>7. CycleInv' /\ dispatches' \in Nat \cup {-1}
    BY <1>3, <1>4, <1>6, BudgetReset DEF Redrive
  <1>8. rx' \in Seq(Statuses \ Terminal) /\ Len(rx') <= RxCap /\ redrives' \in Nat
    BY <1>1, SendTyped DEF Redrive, IInv
  <1>9. TypeOK' /\ FlowInv'
    BY <1>5, <1>6, <1>7, <1>8 DEF remote, feedback, IInv, TypeOK, FlowInv
  <1>10. ApprovalInv'
    BY <1>5, <1>6, ApprovalKept DEF remote, IInv, ApprovalInv
  <1>11. WorkerInv'
    BY <1>5, <1>6, WorkerKept
  <1> QED
    BY <1>7, <1>9, <1>10, <1>11 DEF IInv

LEMMA SetAutoApproveInv ==
    ASSUME IInv, SetAutoApprove
    PROVE  IInv'
  <1>1. ticket \in TicketRow /\ ticket' = [ticket EXCEPT !.autoapprove = TRUE]
    BY DEF SetAutoApprove, IInv, TypeOK
  <1>2. ticket' \in TicketRow /\ ticket'.meta = ticket.meta /\ ticket'.autoapprove
    BY <1>1, TicketTyped DEF TicketRow
  <1>3. UNCHANGED <<wf, worker, server, remote, feedback, dispatches, counters>>
    BY DEF SetAutoApprove
  <1>4. TypeOK' /\ FlowInv'
    BY <1>2, <1>3 DEF server, remote, feedback, counters, IInv, TypeOK, FlowInv
  <1>5. CycleInv'
    BY <1>3, CycleKept DEF server
  <1>6. ApprovalInv'
    BY <1>2, <1>3 DEF server, remote, IInv, ApprovalInv, Approved
  <1>7. WorkerInv'
    BY <1>3, WorkerKept DEF server, counters
  <1> QED
    BY <1>4, <1>5, <1>6, <1>7 DEF IInv

-----------------------------------------------------------------------------
(* The poller. *)

\* A step of a pass that leaves the worker, the ticket and the cycles alone.
LEMMA PollInv ==
    ASSUME IInv, PollFrame, UNCHANGED <<ticket, worker, dispatches>>, poll.pc # "kill",
           wf' \in Row, wf'.cycles = wf.cycles, wf'.status = wf.status,
           poll' \in Poll, poll'.pc = "idle" => poll' = NoPoll,
           poll'.pc = "meta" => poll'.signal = None /\ poll'.review = None,
           poll'.pc \in {"record", "send"} => poll'.target # None,
           poll'.pc \notin {"idle", "meta"} => ticket.meta = "full",
           poll'.signal = "merged" => gh.state = "merged",
           {wf'.review, poll'.review} \subseteq {wf.review, poll.review, "pending", "changes_requested", None}
                \/ Approved \/ MergedAlready,
           rx' \in Seq(Statuses \ Terminal), Len(rx') <= RxCap,
           seen \subseteq seen', seen' \subseteq DOMAIN comments, faults' \in {faults, faults + 1}
    PROVE  IInv'
  <1>1. faults \in Nat /\ (faults' = 0 => faults = 0)
    BY DEF IInv, TypeOK
  <1>2. TypeOK' /\ FlowInv'
    BY <1>1 DEF PollFrame, remote, IInv, TypeOK, FlowInv
  <1>3. CycleInv'
    BY CycleKept DEF PollFrame
  <1>4. ApprovalInv'
    BY ApprovalKept DEF PollFrame, remote
  <1>5. WorkerInv'
    BY <1>1, WorkerKept DEF PollFrame
  <1> QED
    BY <1>2, <1>3, <1>4, <1>5 DEF IInv

LEMMA UpdatedFields ==
    ASSUME wf \in Row, NEW row \in Row, row.status = wf.status, row.cycles = wf.cycles
    PROVE  /\ Updated(row) \in Row /\ Updated(row).status = wf.status /\ Updated(row).cycles = wf.cycles
           /\ Updated(row).review \in {wf.review, row.review}
  BY DEF Updated

\* What a pass may write to the row of conditions.
LEMMA ConditionTyped ==
    ASSUME wf \in Row
    PROVE  /\ \A c \in {"pending", "succeeded", "failed"} :
                LET row == Updated([wf EXCEPT !.ci = c])
                IN  row \in Row /\ row.status = wf.status /\ row.cycles = wf.cycles /\ row.review = wf.review
           /\ \A m \in {"unknown", "mergeable", "conflict"} :
                LET row == Updated([wf EXCEPT !.mergeable = m])
                IN  row \in Row /\ row.status = wf.status /\ row.cycles = wf.cycles /\ row.review = wf.review
           /\ \A r \in {"pending", "approved", "changes_requested"} :
                LET row == Updated([wf EXCEPT !.review = r])
                IN  row \in Row /\ row.status = wf.status /\ row.cycles = wf.cycles /\ row.review \in {wf.review, r}
           /\ \A m \in {None, "now", "later"} :
                LET row == Updated([wf EXCEPT !.mode = m])
                IN  row \in Row /\ row.status = wf.status /\ row.cycles = wf.cycles /\ row.review = wf.review
  <1>1. ASSUME NEW c \in {"pending", "succeeded", "failed"}
        PROVE  LET row == Updated([wf EXCEPT !.ci = c])
               IN  row \in Row /\ row.status = wf.status /\ row.cycles = wf.cycles /\ row.review = wf.review
    <2>1. [wf EXCEPT !.ci = c] \in Row
      BY RowTyped
    <2>2. [wf EXCEPT !.ci = c].status = wf.status /\ [wf EXCEPT !.ci = c].cycles = wf.cycles /\ [wf EXCEPT !.ci = c].review = wf.review
      BY DEF Row
    <2> QED
      BY <2>1, <2>2, UpdatedFields
  <1>2. ASSUME NEW m \in {"unknown", "mergeable", "conflict"}
        PROVE  LET row == Updated([wf EXCEPT !.mergeable = m])
               IN  row \in Row /\ row.status = wf.status /\ row.cycles = wf.cycles /\ row.review = wf.review
    <2>1. [wf EXCEPT !.mergeable = m] \in Row
      BY RowTyped
    <2>2. [wf EXCEPT !.mergeable = m].status = wf.status /\ [wf EXCEPT !.mergeable = m].cycles = wf.cycles /\ [wf EXCEPT !.mergeable = m].review = wf.review
      BY DEF Row
    <2> QED
      BY <2>1, <2>2, UpdatedFields
  <1>3. ASSUME NEW r \in {"pending", "approved", "changes_requested"}
        PROVE  LET row == Updated([wf EXCEPT !.review = r])
               IN  row \in Row /\ row.status = wf.status /\ row.cycles = wf.cycles /\ row.review \in {wf.review, r}
    <2>1. [wf EXCEPT !.review = r] \in Row
      BY RowTyped
    <2>2. [wf EXCEPT !.review = r].status = wf.status /\ [wf EXCEPT !.review = r].cycles = wf.cycles /\ [wf EXCEPT !.review = r].review = r
      BY DEF Row
    <2> QED
      BY <2>1, <2>2, UpdatedFields
  <1>4. ASSUME NEW m \in {None, "now", "later"}
        PROVE  LET row == Updated([wf EXCEPT !.mode = m])
               IN  row \in Row /\ row.status = wf.status /\ row.cycles = wf.cycles /\ row.review = wf.review
    <2>1. [wf EXCEPT !.mode = m] \in Row
      BY RowTyped
    <2>2. [wf EXCEPT !.mode = m].status = wf.status /\ [wf EXCEPT !.mode = m].cycles = wf.cycles /\ [wf EXCEPT !.mode = m].review = wf.review
      BY DEF Row
    <2> QED
      BY <2>1, <2>2, UpdatedFields
  <1> QED
    BY <1>1, <1>2, <1>3, <1>4

LEMMA NoPollTyped == NoPoll \in Poll /\ NoPoll.pc = "idle" /\ NoPoll.signal = None /\ NoPoll.review = None
  BY LimitsAssumption DEF NoPoll, Poll

LEMMA PollListInv ==
    ASSUME IInv, PollList
    PROVE  IInv'
  <1>1. poll.pc = "idle" /\ poll \in Poll /\ wf \in Row /\ poll = NoPoll
    BY DEF PollList, PollAt, IInv, TypeOK, FlowInv
  <1>2. poll' \in Poll /\ poll'.pc = "meta" /\ poll'.signal = None /\ poll'.review = None
    BY <1>1 DEF PollList, NoPoll, Poll
  <1> QED
    BY <1>1, <1>2, PollInv DEF PollList, IInv, TypeOK, None

LEMMA PollMetaInv ==
    ASSUME IInv, PollMeta
    PROVE  IInv'
  <1>1. poll.pc = "meta" /\ poll \in Poll /\ wf \in Row /\ poll.signal = None /\ poll.review = None
    BY DEF PollMeta, PollAt, IInv, TypeOK, FlowInv
  <1>2. CASE poll' = NoPoll
    BY <1>1, <1>2, NoPollTyped, PollInv DEF PollMeta, IInv, TypeOK, None
  <1>3. CASE /\ poll' = [NoPoll EXCEPT !.pc = "send", !.target = "addressing_feedback", !.mode = "later"]
             /\ ticket.meta = "full"
    <2>1. /\ poll' \in Poll /\ poll'.pc = "send" /\ poll'.target = "addressing_feedback"
          /\ poll'.signal = None /\ poll'.review = None
      <3>1. poll' = [pc |-> "send", ci |-> None, mergeable |-> None, review |-> None, signal |-> None,
                     unseen |-> 0, target |-> "addressing_feedback", mode |-> "later"]
        BY <1>3 DEF NoPoll
      <3>2. 0 \in 0..MaxComments
        BY LimitsAssumption
      <3> QED
        BY <3>1, <3>2 DEF Poll
    <2> QED
      BY <1>1, <1>3, <2>1, PollInv DEF PollMeta, IInv, TypeOK, None
  <1>4. CASE poll' = [poll EXCEPT !.pc = "load"] /\ ticket.meta = "full"
    <2>1. poll' \in Poll /\ poll'.pc = "load" /\ poll'.signal = None /\ poll'.review = None
      BY <1>1, <1>4 DEF Poll
    <2> QED
      BY <1>1, <1>4, <2>1, PollInv DEF PollMeta, IInv, TypeOK, None
  <1> QED
    BY <1>2, <1>3, <1>4 DEF PollMeta

LEMMA PollLoadInv ==
    ASSUME IInv, PollLoad
    PROVE  IInv'
  <1>1. poll.pc = "load" /\ poll \in Poll /\ wf \in Row /\ ticket.meta = "full"
    BY DEF PollLoad, PollAt, IInv, TypeOK, ApprovalInv
  <1>2. NoPoll \in Poll
    BY LimitsAssumption DEF NoPoll, Poll
  <1>3. /\ poll' \in Poll
        /\ \/ poll' = NoPoll
           \/ poll'.pc = "ci" /\ poll'.signal = poll.signal /\ poll'.review = wf.review
    <2> DEFINE next == [poll EXCEPT !.pc = "ci", !.ci = wf.ci, !.mergeable = wf.mergeable, !.review = wf.review]
    <2>1. wf.ci \in {"pending", "succeeded", "failed"} /\ wf.mergeable \in {"unknown", "mergeable", "conflict"}
          /\ wf.review \in {"pending", "approved", "changes_requested"}
      BY <1>1 DEF Row
    <2>2. next \in Poll /\ next.pc = "ci" /\ next.signal = poll.signal /\ next.review = wf.review
      BY <1>1, <2>1 DEF Poll
    <2>3. poll' \in {next, NoPoll}
      BY DEF PollLoad
    <2> HIDE DEF next
    <2> QED
      BY <1>2, <2>2, <2>3
  <1> QED
    BY <1>1, <1>3, PollInv DEF PollLoad, IInv, TypeOK, ApprovalInv, NoPoll, None

LEMMA PollCiInv ==
    ASSUME IInv, PollCi
    PROVE  IInv'
  <1>1. poll.pc = "ci" /\ poll \in Poll /\ wf \in Row /\ ticket.meta = "full"
    BY DEF PollCi, PollAt, IInv, TypeOK, ApprovalInv
  <1>2. CiAnswers \subseteq {"pending", "succeeded", "failed"}
    BY DEF CiAnswers, CiStatus
  <1>3. wf' \in Row /\ wf'.status = wf.status /\ wf'.cycles = wf.cycles /\ wf'.review = wf.review
    <2>1. wf' = wf \/ \E now \in {"pending", "succeeded", "failed"} : wf' = Updated([wf EXCEPT !.ci = now])
      BY <1>2 DEF PollCi
    <2> QED
      BY <1>1, <2>1, ConditionTyped
  <1>4. poll' \in Poll /\ poll'.pc = "mergeable" /\ poll'.signal = poll.signal /\ poll'.review = poll.review
    <2>1. \/ poll' = [poll EXCEPT !.pc = "mergeable"]
          \/ \E now \in {"pending", "succeeded", "failed"} : poll' = [poll EXCEPT !.pc = "mergeable", !.ci = now]
      BY <1>2 DEF PollCi
    <2> QED
      BY <1>1, <2>1 DEF Poll
  <1>5. faults' \in {faults, faults + 1}
    BY DEF PollCi, Fault
  <1> QED
    BY <1>1, <1>3, <1>4, <1>5, PollInv DEF PollCi, IInv, TypeOK, ApprovalInv

LEMMA PollMergeableInv ==
    ASSUME IInv, PollMergeable
    PROVE  IInv'
  <1>1. poll.pc = "mergeable" /\ poll \in Poll /\ wf \in Row /\ ticket.meta = "full"
    BY DEF PollMergeable, PollAt, IInv, TypeOK, ApprovalInv
  <1>2. PICK now \in {"unknown", "mergeable", "conflict"} :
            /\ wf' = IF now # poll.mergeable THEN Updated([wf EXCEPT !.mergeable = now]) ELSE wf
            /\ poll' = [poll EXCEPT !.pc = "review", !.mergeable = now]
    BY OutcomesAssumption DEF PollMergeable
  <1>3. wf' \in Row /\ wf'.status = wf.status /\ wf'.cycles = wf.cycles /\ wf'.review = wf.review
    BY <1>1, <1>2, ConditionTyped
  <1>4. poll' \in Poll /\ poll'.pc = "review" /\ poll'.signal = poll.signal /\ poll'.review = poll.review
    BY <1>1, <1>2 DEF Poll
  <1>5. faults' \in {faults, faults + 1}
    BY DEF PollMergeable, Fault
  <1> QED
    BY <1>1, <1>3, <1>4, <1>5, PollInv DEF PollMergeable, IInv, TypeOK, ApprovalInv

LEMMA SignalTyped ==
    ASSUME IInv, NEW stale
    PROVE  /\ SignalAfter(stale) \in {"approve", "respond", "merged", "closed", "pending"}
           /\ SignalAfter(stale) = "merged" => gh.state = "merged"
           /\ SignalAfter(stale) = "approve" => Approved
  <1>1. CASE gh.state \in {"merged", "closed"}
    BY <1>1 DEF SignalAfter
  <1>2. CASE gh.state \notin {"merged", "closed"} /\ Unseen = {}
    BY <1>2 DEF SignalAfter
  <1>3. CASE gh.state \notin {"merged", "closed"} /\ Unseen # {}
    <2>1. Newest \in DOMAIN comments /\ comments \in Seq({"approve", "respond", "other"})
      BY <1>3, NewestUnseen DEF IInv, TypeOK
    <2>2. comments[Newest] \in {"approve", "respond", "other"}
      BY <2>1
    <2>3. SignalAfter(stale) = "pending" \/ (SignalAfter(stale) = comments[Newest] /\ comments[Newest] # "other")
      BY <1>3 DEF SignalAfter
    <2> QED
      BY <2>1, <2>2, <2>3 DEF Approved
  <1> QED
    BY <1>1, <1>2, <1>3

LEMMA PollReviewInv ==
    ASSUME IInv, PollReview
    PROVE  IInv'
  <1>1. poll.pc = "review" /\ poll \in Poll /\ wf \in Row /\ ticket.meta = "full" /\ gh \in PullRequest
    BY DEF PollReview, PollAt, IInv, TypeOK, ApprovalInv
  <1>2. CASE Fault /\ poll' = [poll EXCEPT !.pc = "evaluate", !.signal = "pending"] /\ UNCHANGED wf
    <2>1. poll' \in Poll /\ poll'.pc = "evaluate" /\ poll'.signal = "pending" /\ poll'.review = poll.review
      BY <1>1, <1>2 DEF Poll
    <2> QED
      BY <1>1, <1>2, <2>1, PollInv DEF PollReview, Fault, IInv, TypeOK
  <1>3. ASSUME NEW signal, NEW review, NEW n, NEW stale, signal = SignalAfter(stale), review = ReviewOf(signal, poll.review),
               n = (IF gh.state = "open" THEN Cardinality(Unseen) ELSE 0),
               wf' = IF review # poll.review THEN Updated([wf EXCEPT !.review = review]) ELSE wf,
               poll' = [poll EXCEPT !.pc = "evaluate", !.review = review, !.signal = signal, !.unseen = n],
               faults' \in {faults, faults + 1}
        PROVE  IInv'
    <2>1. /\ signal \in {"approve", "respond", "merged", "closed", "pending"}
          /\ signal = "merged" => gh.state = "merged"
          /\ signal = "approve" => Approved
      BY <1>3, SignalTyped
    <2>2. /\ review \in {poll.review, "approved", "changes_requested"}
          /\ review = "approved" => Approved \/ MergedAlready
      BY <1>3, <2>1 DEF ReviewOf, IInv, ApprovalInv
    <2>3. review # poll.review => review \in {"pending", "approved", "changes_requested"}
      BY <2>2
    <2>4. wf' \in Row /\ wf'.status = wf.status /\ wf'.cycles = wf.cycles /\ wf'.review \in {wf.review, review}
      BY <1>1, <1>3, <2>3, ConditionTyped
    <2>5. n \in 0..MaxComments
      BY <1>3, UnseenCounted, LimitsAssumption DEF IInv
    <2>6. review \in {None, "pending", "approved", "changes_requested"}
      BY <1>1, <2>2 DEF Poll
    <2>7. poll' \in Poll /\ poll'.pc = "evaluate" /\ poll'.signal = signal /\ poll'.review = review
      <3>1. /\ poll.ci \in {None, "pending", "succeeded", "failed"}
            /\ poll.mergeable \in {None, "unknown", "mergeable", "conflict"}
            /\ poll.target \in {None, "addressing_feedback", "merging"} /\ poll.mode \in {None, "now", "later"}
        BY <1>1 DEF Poll
      <3>2. poll' = [pc |-> "evaluate", ci |-> poll.ci, mergeable |-> poll.mergeable, review |-> review,
                     signal |-> signal, unseen |-> n, target |-> poll.target, mode |-> poll.mode]
        BY <1>1, <1>3 DEF Poll
      <3>3. poll' \in Poll
        BY <2>1, <2>5, <2>6, <3>1, <3>2 DEF Poll
      <3> QED
        BY <3>2, <3>3
    <2>8. {wf'.review, poll'.review} \subseteq {wf.review, poll.review, "pending", "changes_requested", None}
            \/ Approved \/ MergedAlready
      <3>1. CASE review = "approved"
        BY <2>2, <3>1
      <3>2. CASE review # "approved"
        <4>1. wf'.review \in {wf.review, poll.review, "changes_requested"}
          BY <2>2, <2>4, <3>2
        <4>2. poll'.review \in {poll.review, "changes_requested"}
          BY <2>2, <2>7, <3>2
        <4> QED
          BY <4>1, <4>2
      <3> QED
        BY <3>1, <3>2
    <2>9. /\ PollFrame /\ UNCHANGED <<ticket, worker, rx, seen, dispatches>>
          /\ rx \in Seq(Statuses \ Terminal) /\ Len(rx) <= RxCap /\ seen \subseteq DOMAIN comments
      BY DEF PollReview, IInv, TypeOK
    <2> QED
      BY <1>1, <1>3, <2>1, <2>4, <2>7, <2>8, <2>9, PollInv
  <1> QED
    <2>1. CASE \E signal \in {ReviewSignal, SignalAfter(0)} :
                 LET review == ReviewOf(signal, poll.review)
                 IN  /\ IF signal = ReviewSignal THEN UNCHANGED faults ELSE Fault
                     /\ wf' = IF review # poll.review THEN Updated([wf EXCEPT !.review = review]) ELSE wf
                     /\ poll' = [poll EXCEPT !.pc = "evaluate", !.review = review, !.signal = signal,
                                             !.unseen = IF gh.state = "open" THEN Cardinality(Unseen) ELSE 0]
      <3>1. PICK signal : /\ signal \in {SignalAfter(gh.stale), SignalAfter(0)}
                          /\ faults' \in {faults, faults + 1}
                          /\ LET review == ReviewOf(signal, poll.review)
                             IN  /\ wf' = IF review # poll.review THEN Updated([wf EXCEPT !.review = review])
                                          ELSE wf
                                 /\ poll' = [poll EXCEPT !.pc = "evaluate", !.review = review, !.signal = signal,
                                                         !.unseen = IF gh.state = "open" THEN Cardinality(Unseen)
                                                                    ELSE 0]
        BY <2>1 DEF ReviewSignal, Fault
      <3>2. PICK stale : signal = SignalAfter(stale)
        BY <3>1
      <3> QED
        BY <1>3, <3>1, <3>2
    <2> QED
      BY <1>2, <2>1 DEF PollReview

LEMMA RecordTyped ==
    ASSUME NEW target \in {"addressing_feedback", "merging"}, NEW mode \in {"now", "later"}, Record(target, mode)
    PROVE  /\ poll' \in Poll /\ poll'.pc = "record" /\ poll'.target # None
           /\ poll'.signal = None /\ poll'.review = None
  <1>1. poll' = [pc |-> "record", ci |-> None, mergeable |-> None, review |-> None, signal |-> None,
                 unseen |-> 0, target |-> target, mode |-> mode]
    BY DEF Record, NoPoll
  <1> QED
    BY <1>1, LimitsAssumption DEF Poll, None

LEMMA PollManualMergeInv ==
    ASSUME IInv, PollManualMerge
    PROVE  IInv'
  <1>1. poll.pc \in {"evaluate", "manual"} /\ poll \in Poll /\ wf \in Row /\ ticket.meta = "full"
    BY DEF PollManualMerge, PollAt, IInv, TypeOK, ApprovalInv
  <1>2. CASE PollAt("evaluate")
    <2> DEFINE row == [wf EXCEPT !.review = "approved", !.ci = "succeeded", !.mergeable = "mergeable"]
    <2>1. /\ poll' = [NoPoll EXCEPT !.pc = "manual"] /\ wf' = Updated(row) /\ UNCHANGED faults
          /\ poll.signal = "merged"
      BY <1>2 DEF PollManualMerge, PollAt, IsMerged
    <2>2. MergedAlready
      BY <1>1, <2>1 DEF IInv, ApprovalInv, MergedAlready
    <2>3. row \in Row /\ row.status = wf.status /\ row.cycles = wf.cycles
      BY <1>1 DEF Row
    <2> HIDE DEF row
    <2>4. wf' \in Row /\ wf'.status = wf.status /\ wf'.cycles = wf.cycles
      BY <1>1, <2>1, <2>3, UpdatedFields
    <2>5. poll' \in Poll /\ poll'.pc = "manual" /\ poll'.signal = None
      BY <2>1, LimitsAssumption DEF NoPoll, Poll
    <2> QED
      BY <1>1, <2>1, <2>2, <2>4, <2>5, PollInv DEF PollManualMerge, IInv, TypeOK, None
  <1>3. CASE PollAt("manual")
    <2>1. \E target \in {"addressing_feedback", "merging"} : Record(target, "later")
      BY <1>3 DEF PollManualMerge, PollAt, TargetFor
    <2>2. /\ poll' \in Poll /\ poll'.pc = "record" /\ poll'.target # None
          /\ poll'.signal = None /\ poll'.review = None
      BY <2>1, RecordTyped
    <2>3. UNCHANGED wf /\ faults' \in {faults, faults + 1}
      BY <1>3 DEF PollManualMerge, PollAt, Fault
    <2> QED
      BY <1>1, <1>3, <2>2, <2>3, PollInv DEF PollManualMerge, PollAt, IInv, TypeOK, None
  <1> QED
    BY <1>2, <1>3 DEF PollManualMerge

LEMMA PollFailureInv ==
    ASSUME IInv, PollFailure
    PROVE  IInv'
  <1>1. rx' \in Seq(Statuses \ Terminal) /\ Len(rx') <= RxCap
    BY SendTyped DEF PollFailure, IInv, Statuses, Terminal
  <1> QED
    BY <1>1, NoPollTyped, PollInv DEF PollFailure, PollAt, IInv, TypeOK, None

LEMMA PollGreenInv ==
    ASSUME IInv, PollGreen
    PROVE  IInv'
  <1>1. \E target \in {"addressing_feedback", "merging"} : Record(target, "later")
    BY DEF PollGreen, TargetFor
  <1>2. poll' \in Poll /\ poll'.pc = "record" /\ poll'.target # None /\ poll'.signal = None /\ poll'.review = None
    BY <1>1, RecordTyped
  <1>3. ticket.meta = "full"
    BY DEF PollGreen, PollAt, IInv, ApprovalInv
  <1> QED
    BY <1>2, <1>3, PollInv DEF PollGreen, PollAt, IInv, TypeOK, None

LEMMA PollStayInv ==
    ASSUME IInv, PollStay
    PROVE  IInv'
  BY NoPollTyped, PollInv DEF PollStay, PollAt, IInv, TypeOK, None

LEMMA PollRecordInv ==
    ASSUME IInv, PollRecord
    PROVE  IInv'
  <1>1. poll.pc = "record" /\ poll \in Poll /\ poll.target # None /\ ticket.meta = "full"
    BY DEF PollRecord, PollAt, IInv, TypeOK, FlowInv, ApprovalInv
  <1>2. /\ poll' \in Poll /\ poll'.pc = "send" /\ poll'.target = poll.target
        /\ poll'.signal = poll.signal /\ poll'.review = poll.review
    BY <1>1 DEF PollRecord, Poll
  <1>3. seen \subseteq seen' /\ seen' \subseteq DOMAIN comments /\ faults' \in {faults, faults + 1}
    BY DEF PollRecord, Fault, IInv, TypeOK
  <1> QED
    BY <1>1, <1>2, <1>3, PollInv DEF PollRecord, IInv, TypeOK, ApprovalInv

LEMMA PollSendInv ==
    ASSUME IInv, PollSend
    PROVE  IInv'
  <1>1. poll.pc = "send" /\ poll \in Poll /\ poll.target # None /\ wf \in Row
    BY DEF PollSend, PollAt, IInv, TypeOK, FlowInv
  <1>2. poll.target \in Statuses \ Terminal /\ poll.mode \in {None, "now", "later"}
    BY <1>1 DEF Poll, Statuses, Terminal, None
  <1>3. rx' \in Seq(Statuses \ Terminal) /\ Len(rx') <= RxCap
    BY <1>2, SendTyped DEF PollSend, IInv, TypeOK
  <1>4. wf' \in Row /\ wf'.status = wf.status /\ wf'.cycles = wf.cycles /\ wf'.review = wf.review
    <2>1. wf' = wf \/ wf' = Updated([wf EXCEPT !.mode = poll.mode])
      BY DEF PollSend
    <2> QED
      BY <1>1, <1>2, <2>1, ConditionTyped
  <1>5. faults' \in {faults, faults + 1}
    BY DEF PollSend, Fault
  <1> QED
    BY <1>1, <1>3, <1>4, <1>5, NoPollTyped, PollInv DEF PollSend, IInv, TypeOK, None

LEMMA PollChangesRequestedInv ==
    ASSUME IInv, PollChangesRequested
    PROVE  IInv'
  <1> DEFINE row == [wf EXCEPT !.cycles = 0]
  <1>1. poll.pc = "evaluate" /\ poll \in Poll /\ wf \in Row /\ ticket.meta = "full"
    BY DEF PollChangesRequested, PollAt, IInv, TypeOK, ApprovalInv
  <1>2. row \in Row
    BY <1>1, RowTyped
  <1>3. row.cycles = 0 /\ row.status = wf.status /\ row.review = wf.review
    BY <1>1 DEF Row
  <1> HIDE DEF row
  <1>4. (Active => wf' = row) /\ (~Active => wf' = wf)
    BY DEF PollChangesRequested, Updated, row
  <1>5. wf' \in Row /\ wf'.status = wf.status /\ wf'.review = wf.review
    BY <1>1, <1>2, <1>3, <1>4
  <1>6. PollFrame /\ UNCHANGED <<ticket, worker, rx, seen, faults>>
    BY DEF PollChangesRequested
  <1>7. CycleInv' /\ dispatches' \in Nat \cup {-1}
    BY <1>3, <1>4, <1>6, BudgetReset DEF PollChangesRequested, PollFrame
  <1>8. poll' \in Poll /\ poll'.pc = "record" /\ poll'.target # None /\ poll'.signal = None /\ poll'.review = None
    BY RecordTyped DEF PollChangesRequested
  <1>9. TypeOK' /\ FlowInv'
    BY <1>5, <1>6, <1>7, <1>8 DEF PollFrame, remote, IInv, TypeOK, FlowInv
  <1>10. ApprovalInv'
    BY <1>1, <1>5, <1>6, <1>8, ApprovalKept DEF PollFrame, remote, None
  <1>11. WorkerInv'
    BY <1>1, <1>5, <1>6, <1>8, WorkerKept DEF PollFrame
  <1> QED
    BY <1>7, <1>9, <1>10, <1>11 DEF IInv

\* The row is cancelled first; then the worker is the poller's to stop.
LEMMA PollCancelInv ==
    ASSUME IInv, PollCancel
    PROVE  IInv'
  <1>1. /\ poll.pc \in {"evaluate", "kill", "reopen"} /\ poll \in Poll /\ wf \in Row /\ ticket.meta = "full"
        /\ faults \in Nat /\ worker \in Worker /\ ticket \in TicketRow
    BY DEF PollCancel, PollAt, IInv, TypeOK, ApprovalInv
  <1>2. /\ PollFrame /\ UNCHANGED <<rx, seen, dispatches>> /\ faults' \in {faults, faults + 1}
        /\ (faults' = 0 => faults = 0)
    BY <1>1 DEF PollCancel, Fault
  <1>3. /\ wf' \in Row /\ wf'.cycles = wf.cycles /\ wf'.review = wf.review
        /\ wf'.status = wf.status \/ (poll.pc = "evaluate" /\ (poll'.pc = "kill" \/ faults' # 0))
    <2>1. CASE poll.pc = "evaluate" /\ wf' = Updated([wf EXCEPT !.status = "cancelled"]) /\ poll' = KillNext
      <3> DEFINE row == [wf EXCEPT !.status = "cancelled"]
      <3>1. row \in Row
        BY <1>1, RowTyped DEF Statuses, Terminal
      <3>2. row.cycles = wf.cycles /\ row.review = wf.review
        BY <1>1 DEF Row
      <3> HIDE DEF row
      <3>3. wf' = Updated(row)
        BY <2>1 DEF row
      <3>4. Active => poll'.pc = "kill"
        BY <2>1 DEF KillNext, NoPoll
      <3> QED
        BY <1>1, <2>1, <3>1, <3>2, <3>3, <3>4 DEF Updated
    <2>2. CASE UNCHANGED wf
      BY <1>1, <2>2
    <2>3. CASE poll.pc = "evaluate" /\ wf' = Updated([wf EXCEPT !.status = "cancelled"]) /\ Fault
      <3> DEFINE row == [wf EXCEPT !.status = "cancelled"]
      <3>1. row \in Row
        BY <1>1, RowTyped DEF Statuses, Terminal
      <3>2. row.cycles = wf.cycles /\ row.review = wf.review
        BY <1>1 DEF Row
      <3> HIDE DEF row
      <3>3. wf' = Updated(row)
        BY <2>3 DEF row
      <3>4. faults' # 0
        BY <1>1, <2>3 DEF Fault
      <3> QED
        BY <1>1, <2>3, <3>1, <3>2, <3>3, <3>4 DEF Updated
    <2> QED
      BY <2>1, <2>2, <2>3 DEF PollCancel, PollAt
  <1>4. /\ poll' \in Poll /\ poll'.signal \in {None, poll.signal} /\ poll'.review \in {None, poll.review}
        /\ poll'.pc = "idle" => poll' = NoPoll
        /\ poll'.pc \in {"idle", "kill", "reopen"}
    <2>1. \/ poll' = NoPoll \/ poll' = [poll EXCEPT !.pc = "reopen"]
          \/ \E pc \in {"kill", "reopen"} : poll' = [NoPoll EXCEPT !.pc = pc]
      BY DEF PollCancel, KillNext
    <2>2. ASSUME NEW pc \in {"kill", "reopen"}, poll' = [NoPoll EXCEPT !.pc = pc]
          PROVE  poll' \in Poll /\ poll'.pc = pc /\ poll'.signal = None /\ poll'.review = None
      BY <2>2, LimitsAssumption DEF NoPoll, Poll
    <2>3. ASSUME poll' = [poll EXCEPT !.pc = "reopen"]
          PROVE  poll' \in Poll /\ poll'.pc = "reopen" /\ poll'.signal = poll.signal /\ poll'.review = poll.review
      BY <1>1, <2>3 DEF Poll
    <2> QED
      BY <2>1, <2>2, <2>3, NoPollTyped
  <1>5. /\ worker' \in Worker /\ (worker'.up => worker.up)
        /\ poll.pc = "kill" => ~worker'.up \/ faults' # 0
    <2>1. Stopped \in Worker /\ ~Stopped.up
      BY <1>1, WorkerTyped
    <2>2. worker' = Stopped \/ (worker' = worker /\ (poll.pc = "kill" => faults' = faults + 1))
      BY DEF PollCancel, PollAt, Fault
    <2> QED
      BY <1>1, <2>1, <2>2
  <1>6. ticket' \in TicketRow /\ ticket'.meta = ticket.meta /\ ticket'.autoapprove = ticket.autoapprove
    <2>1. ticket' = ticket \/ ticket' = [ticket EXCEPT !.closed = FALSE]
      BY DEF PollCancel
    <2> QED
      BY <1>1, <2>1 DEF TicketRow
  <1>7. TypeOK' /\ FlowInv'
    BY <1>1, <1>2, <1>3, <1>4, <1>5, <1>6 DEF PollFrame, remote, IInv, TypeOK, FlowInv
  <1>8. CycleInv'
    BY <1>2, <1>3, CycleKept DEF PollFrame
  <1>9. ApprovalInv'
    <2>1. poll'.signal = "merged" => gh.state = "merged"
      BY <1>4 DEF IInv, ApprovalInv, None
    <2> QED
      BY <1>1, <1>2, <1>3, <1>4, <1>6, <2>1, ApprovalKept DEF PollFrame, remote
  <1>10. WorkerInv'
    <2>1. task.pc \in {"merge", "finish"} => ~worker.up
      BY DEF IInv, WorkerInv
    <2>2. task' = task /\ crashes' = crashes
      BY <1>2 DEF PollFrame
    <2> QED
      BY <1>1, <1>2, <1>3, <1>5, <2>1, <2>2 DEF IInv, WorkerInv
  <1> QED
    BY <1>7, <1>8, <1>9, <1>10 DEF IInv

LEMMA PollStepInv ==
    ASSUME IInv, PollStep
    PROVE  IInv'
  BY PollListInv, PollMetaInv, PollLoadInv, PollCiInv, PollMergeableInv, PollReviewInv, PollManualMergeInv, PollCancelInv,
     PollChangesRequestedInv, PollFailureInv, PollGreenInv, PollStayInv, PollRecordInv, PollSendInv
  DEF PollStep

-----------------------------------------------------------------------------
(* GitHub, the reviewers, containers that stop, and the server's crashes. *)

LEMMA CommentInv ==
    ASSUME IInv, NEW k \in CommentKinds, Comment(k)
    PROVE  IInv'
  <1>1. /\ comments \in Seq({"approve", "respond", "other"}) /\ k \in {"approve", "respond", "other"}
        /\ comments' = Append(comments, k) /\ Len(comments) < MaxComments
    BY OutcomesAssumption DEF Comment, IInv, TypeOK
  <1>2. /\ comments' \in Seq({"approve", "respond", "other"}) /\ Len(comments') <= MaxComments
        /\ DOMAIN comments \subseteq DOMAIN comments' /\ \A i \in DOMAIN comments : comments'[i] = comments[i]
    BY <1>1, LimitsAssumption
  <1>3. UNCHANGED <<wf, ticket, worker, server, feedback, dispatches, counters, gh, mergedBy>>
    BY DEF Comment, GhFrame
  <1>4. TypeOK' /\ FlowInv'
    BY <1>2, <1>3 DEF server, feedback, counters, IInv, TypeOK, FlowInv
  <1>5. CycleInv'
    BY <1>3, CycleKept DEF server
  <1>6. ApprovalInv'
    <2>1. (Approved => Approved') /\ (MergedAlready' <=> MergedAlready)
      BY <1>2, <1>3 DEF Approved, MergedAlready
    <2> QED
      BY <1>3, <2>1 DEF server, IInv, ApprovalInv
  <1>7. WorkerInv'
    BY <1>3, WorkerKept DEF server, counters
  <1> QED
    BY <1>4, <1>5, <1>6, <1>7 DEF IInv

LEMMA HumanClosesInv ==
    ASSUME IInv, NEW h \in HumanClosings, HumanCloses(h)
    PROVE  IInv'
  <1>1. gh \in PullRequest /\ gh.state = "open" /\ gh' = [gh EXCEPT !.state = h] /\ h \in {"merged", "closed"}
    BY OutcomesAssumption DEF HumanCloses, IInv, TypeOK
  <1>2. gh' \in PullRequest /\ mergedBy' \in {mergedBy, "human"}
    BY <1>1 DEF HumanCloses, PullRequest
  <1>3. UNCHANGED <<wf, ticket, worker, server, feedback, dispatches, counters, comments>>
    BY DEF HumanCloses, GhFrame
  <1>4. TypeOK' /\ FlowInv'
    BY <1>2, <1>3 DEF server, feedback, counters, IInv, TypeOK, FlowInv
  <1>5. CycleInv'
    BY <1>3, CycleKept DEF server
  <1>6. ApprovalInv'
    <2>1. (Approved' <=> Approved) /\ ~MergedAlready /\ poll.signal # "merged"
      BY <1>1, <1>3 DEF Approved, MergedAlready, IInv, ApprovalInv
    <2> QED
      BY <1>2, <1>3, <2>1 DEF server, IInv, ApprovalInv
  <1>7. WorkerInv'
    BY <1>3, WorkerKept DEF server, counters
  <1> QED
    BY <1>4, <1>5, <1>6, <1>7 DEF IInv

LEMMA WorkerDiesInv ==
    ASSUME IInv, WorkerDies
    PROVE  IInv'
  <1>1. worker \in Worker /\ worker' = [worker EXCEPT !.up = FALSE, !.step = None] /\ troubles' \in Nat
    BY DEF WorkerDies, IInv, TypeOK
  <1>2. worker' \in Worker
    BY <1>1, WorkerTyped
  <1>3. ~worker'.up
    BY <1>1 DEF Worker
  <1> QED
    BY <1>1, <1>2, <1>3, RpcInv DEF WorkerDies, server, remote, feedback, IInv, TypeOK

LEMMA CrashInv ==
    ASSUME IInv, Crash
    PROVE  IInv'
  <1>1. crashes \in Nat /\ crashes' = crashes + 1 /\ rx' = <<>> /\ poll' = NoPoll /\ stepRpc' = NoStep
    BY DEF Crash, IInv, TypeOK
  <1>2. acks' \in Nat
    BY DEF Crash, IInv, TypeOK
  <1>3. /\ task' \in Task /\ task'.pc \in {None, "status"}
        /\ task' # NoTask => task'.target \notin Terminal
    <2>1. task' = NoTask \/ (task # NoTask /\ task' = Begin(task.target))
      BY DEF Crash
    <2>2. task # NoTask => task.target \in Statuses \ Terminal
      BY DEF IInv, TypeOK, FlowInv, Task
    <2> QED
      BY <2>1, <2>2 DEF NoTask, Begin, Task, TaskPc
  <1>4. UNCHANGED <<wf, ticket, worker, pending, remote, feedback, dispatches, pushes, redrives, troubles, faults>>
    BY DEF Crash
  <1>5. rx' \in Seq(Statuses \ Terminal) /\ Len(rx') <= RxCap
    BY <1>1, LimitsAssumption
  <1>6. TypeOK' /\ FlowInv'
    BY <1>1, <1>2, <1>3, <1>4, <1>5, NoPollTyped DEF remote, feedback, IInv, TypeOK, FlowInv
  <1>7. CycleInv'
    BY <1>3, <1>4, CycleKept DEF None
  <1>8. ApprovalInv'
    BY <1>1, <1>3, <1>4, NoPollTyped, ApprovalKept DEF remote, None, TaskPc
  <1>9. WorkerInv'
    BY <1>1, <1>3 DEF WorkerInv, None
  <1> QED
    BY <1>6, <1>7, <1>8, <1>9 DEF IInv

-----------------------------------------------------------------------------

LEMMA InvStep == IInv /\ [Next]_vars => IInv'
  <1> SUFFICES ASSUME IInv, [Next]_vars PROVE IInv'
    OBVIOUS
  <1>1. CASE UNCHANGED vars
    BY <1>1 DEF vars, server, remote, feedback, counters, IInv, TypeOK, FlowInv, CycleInv, Owed, ApprovalInv,
                Approved, MergedAlready, WorkerInv
  <1>2. CASE Next
    BY <1>2, HandleRequestInv, TaskStepInv, PollStepInv, AgentIdleInv, RequestHumanInv, StepCompleteInv,
       StepArrivesInv, StepRoutesInv, SetAutoApproveInv, WorkerDiesInv, CrashInv, RedriveInv, CommentInv,
       HumanClosesInv
    DEF Next
  <1> QED
    BY <1>1, <1>2

\* The inductive invariant holds in every state of a workflow.
THEOREM InvCorrect == Spec => []IInv
  BY InvInit, InvStep, PTL DEF Spec

-----------------------------------------------------------------------------
(* What the invariant gives. *)

\* Every row, record and channel of the workflow keeps its type.
THEOREM TypeCorrect == Spec => []TypeOK
  <1>1. IInv => TypeOK
    BY DEF IInv
  <1> QED
    BY <1>1, InvCorrect, PTL

\* Between two resets of the counter the agent is sent to implement at most
\* max_implement_cycles times, whatever fails, crashes or is asked twice.
THEOREM DispatchesBoundedCorrect == Spec => []DispatchesBounded
  <1>1. ASSUME IInv PROVE DispatchesBounded
    <2>1. dispatches \in Int /\ wf.cycles \in Nat /\ Owed \in {0, 1}
      BY <1>1 DEF IInv, TypeOK, Row, Owed
    <2> QED
      BY <1>1, <2>1, LimitsAssumption DEF IInv, CycleInv, DispatchesBounded
  <1> QED
    BY <1>1, InvCorrect, PTL

\* The server merges only what somebody approved, whichever way the workflow
\* got to merging and whatever the poller had read when.
THEOREM MergeNeedsApprovalCorrect == Spec => []MergeNeedsApproval
  <1>1. IInv => MergeNeedsApproval
    BY DEF IInv, ApprovalInv, Approved, MergeNeedsApproval
  <1> QED
    BY <1>1, InvCorrect, PTL

\* A workflow that has ended leaves no worker running, but for a crash or a
\* stop that failed.
THEOREM NoOrphanWorkerCorrect == Spec => []NoOrphanWorker
  <1>1. IInv => NoOrphanWorker
    BY DEF IInv, WorkerInv, NoOrphanWorker
  <1> QED
    BY <1>1, InvCorrect, PTL

-----------------------------------------------------------------------------
(* An ended row is never written again. *)

LEMMA EndedFinish ==
    ASSUME ~Active
    PROVE  /\ \A row : Updated(row) = wf
           /\ \A row : Finish(TRUE, row) \/ Finish(FALSE, row) => wf' = row
           /\ Promoted = wf
  BY DEF Updated, Finish, Promoted

LEMMA EndedTask ==
    ASSUME ~Active, TaskStep
    PROVE  wf' = wf
  <1>1. CASE TaskStatus \/ TaskNoop \/ TaskLimit \/ TaskDispatch
    BY <1>1, EndedFinish DEF TaskStatus, TaskNoop, TaskLimit, TaskDispatch, Fail
  <1>2. CASE TaskHook \/ TaskPush
    BY <1>2, EndedFinish DEF TaskHook, TaskPush, Fail
  <1>3. CASE TaskEnsurePr \/ TaskPrMeta \/ TaskConditions \/ TaskFeedback
    BY <1>3, EndedFinish DEF TaskEnsurePr, TaskPrMeta, TaskConditions, TaskFeedback, Fail
  <1>4. CASE TaskGate \/ TaskKill \/ TaskMerge \/ TaskFinish \/ TaskClose
    BY <1>4, EndedFinish DEF TaskGate, TaskKill, TaskMerge, MergeRefused, TaskFinish, TaskClose, Fail
  <1> QED
    BY <1>1, <1>2, <1>3, <1>4 DEF TaskStep

LEMMA EndedPoll ==
    ASSUME ~Active, PollStep
    PROVE  wf' = wf
  <1>1. CASE PollList \/ PollMeta
    BY <1>1 DEF PollList, PollMeta
  <1>2. CASE PollManualMerge \/ PollCancel \/ PollChangesRequested
    BY <1>2, EndedFinish DEF PollManualMerge, PollCancel, PollChangesRequested
  <1>3. CASE PollFailure \/ PollGreen \/ PollStay \/ PollRecord \/ PollSend
    BY <1>3, EndedFinish DEF PollFailure, PollGreen, PollStay, PollRecord, PollSend
  <1>4. CASE PollLoad \/ PollCi
    BY <1>4, EndedFinish DEF PollLoad, PollCi
  <1>5. CASE PollMergeable
    BY <1>5, EndedFinish DEF PollMergeable
  <1>6. CASE PollReview
    BY <1>6, EndedFinish DEF PollReview
  <1> QED
    BY <1>1, <1>2, <1>3, <1>4, <1>5, <1>6 DEF PollStep

\* A workflow that is done or cancelled stays so, whatever requests, RPCs and
\* passes of the poller were still on their way: no step writes its row.
THEOREM EndedStaysEndedCorrect == Spec => EndedStaysEnded
  <1>1. ASSUME [Next]_vars, wf.status \in Terminal PROVE wf'.status = wf.status
    <2>1. ~Active
      BY <1>1 DEF Active
    <2>2. CASE UNCHANGED vars
      BY <2>2 DEF vars
    <2>3. CASE HandleRequest \/ AgentIdle \/ RequestHuman \/ StepComplete \/ StepArrives \/ StepRoutes
      BY <2>1, <2>3, EndedFinish DEF HandleRequest, AgentIdle, RequestHuman, StepComplete, StepArrives, StepRoutes
    <2>4. CASE SetAutoApprove \/ WorkerDies \/ Crash \/ \E s \in RedriveTargets : Redrive(s)
      BY <2>1, <2>4, EndedFinish DEF SetAutoApprove, WorkerDies, Crash, Redrive
    <2>5. CASE (\E k \in CommentKinds : Comment(k)) \/ \E h \in HumanClosings : HumanCloses(h)
      BY <2>5 DEF Comment, HumanCloses, GhFrame
    <2> QED
      BY <1>1, <2>1, <2>2, <2>3, <2>4, <2>5, EndedTask, EndedPoll DEF Next
  <1>2. [Next]_vars => [wf.status \in Terminal => wf'.status = wf.status]_vars
    BY <1>1
  <1> QED
    BY <1>2, PTL DEF Spec, EndedStaysEnded
=============================================================================
