---------------------------- MODULE EventPoller ----------------------------
(***************************************************************************)
(* Delivery of ui_events to the clients of SubscribeUiEvents: the triggers *)
(* that write a row in every transaction, one PgEventPoller for each       *)
(* database (db_events/src/lib.rs) and the loop of UiEventPoller that      *)
(* merges their batches (server/src/ui_event_poller.rs).                   *)
(*                                                                         *)
(* The id of a row is drawn from a sequence when the row is written, the   *)
(* row is seen when its transaction commits: ids may become visible out of *)
(* order.  An event is its database and its id.                            *)
(***************************************************************************)
EXTENDS Integers, Sequences, FiniteSets

CONSTANTS
    Databases,
    Listeners,
    ChannelCap,   \* capacity of an mpsc channel (64 in the code)
    MaxId,        \* bound: rows of a database
    MaxFaults     \* bound: failing queries and LISTEN connections

ASSUME ChannelCapAssumption == ChannelCap \in Nat \ {0}
ASSUME BoundsAssumption == MaxId \in Nat /\ MaxFaults \in Nat

Ids == 1..MaxId
Event == Databases \X Ids
Batch == [db : Databases, ids : SUBSET Ids]

VARIABLES
    nextId,       \* the sequence of the table
    writing,      \* ids of rows whose transaction is open
    table,        \* ids of committed rows
    notified,     \* a NOTIFY has not been read
    listening,    \* the LISTEN connection is there
    poller,       \* poll_once of each database
    channel,      \* from a poller to the merge loop
    listeners,    \* senders of the registered listeners
    merge,        \* dispatch_batch of the merge loop, which holds the lock
    inbox,        \* from the merge loop to a listener
    client,       \* is the receiver of a listener there
    received      \* batches a listener has read

VARIABLE faults

\* Observers, not part of the code: ids ever committed, events committed after
\* a higher id was, and events committed while a listener was registered.
VARIABLES committed, overtaken, owed

database == <<nextId, writing, table>>
observers == <<committed, overtaken, owed>>
wake == <<notified, listening>>
delivery == <<listeners, merge, inbox, client, received>>
vars == <<database, wake, poller, channel, delivery, faults, observers>>

NoMerge == [batch |-> [db |-> "none", ids |-> {}], todo |-> <<>>, alive |-> <<>>]
Idle == [pc |-> "wait", ids |-> {}]
MaxOf(S) == CHOOSE i \in S : \A j \in S : j <= i

-----------------------------------------------------------------------------
(* Transactions. *)

\* A trigger inserts a row: INSERT INTO ui_events, pg_notify.
Write(d) ==
    /\ nextId[d] <= MaxId
    /\ nextId' = [nextId EXCEPT ![d] = @ + 1]
    /\ writing' = [writing EXCEPT ![d] = @ \cup {nextId[d]}]
    /\ UNCHANGED <<table, wake, poller, channel, delivery, faults, observers>>

Commit(d, i) ==
    /\ i \in writing[d]
    /\ writing' = [writing EXCEPT ![d] = @ \ {i}]
    /\ table' = [table EXCEPT ![d] = @ \cup {i}]
    /\ notified' = [notified EXCEPT ![d] = listening[d]]
    /\ committed' = [committed EXCEPT ![d] = @ \cup {i}]
    /\ overtaken' = IF \E j \in committed[d] : j > i THEN overtaken \cup {<<d, i>>} ELSE overtaken
    /\ owed' = [l \in Listeners |-> IF client[l] = "open" THEN owed[l] \cup {<<d, i>>} ELSE owed[l]]
    /\ UNCHANGED <<nextId, listening, poller, channel, delivery, faults>>

Rollback(d, i) ==
    /\ i \in writing[d]
    /\ writing' = [writing EXCEPT ![d] = @ \ {i}]
    /\ UNCHANGED <<nextId, table, wake, poller, channel, delivery, faults, observers>>

-----------------------------------------------------------------------------
(* PgEventPoller *)

\* A query or a connection fails.
Fault == faults < MaxFaults /\ faults' = faults + 1

At(d, pc) == poller[d].pc = pc
Goto(d, pc) == poller' = [poller EXCEPT ![d].pc = pc]

FetchEvents(d) ==
    /\ At(d, "fetch")
    /\ \/ /\ poller' = [poller EXCEPT ![d] = IF table[d] = {} THEN Idle
                                             ELSE [pc |-> "delete", ids |-> table[d]]]
          /\ UNCHANGED faults
       \/ Fault /\ Goto(d, "wait")
    /\ UNCHANGED <<database, wake, channel, delivery, observers>>

\* Mutant: the table is emptied whatever has been committed since the read.
RemainingNone(d) == {}

\* Mutant: the last row of the batch is kept.
RemainingMax(d) == {i \in table[d] : i >= MaxOf(poller[d].ids)}

\* DELETE FROM ui_events WHERE id <= max_id
Remaining(d) == {i \in table[d] : i > MaxOf(poller[d].ids)}

\* The batch is dispatched even if it can not be deleted.
DeleteEvents(d) ==
    /\ At(d, "delete")
    /\ Goto(d, "send")
    /\ \/ table' = [table EXCEPT ![d] = Remaining(d)] /\ UNCHANGED faults
       \/ Fault /\ UNCHANGED table
    /\ UNCHANGED <<nextId, writing, wake, channel, delivery, observers>>

\* dispatch_batch; the merge loop is the one listener of a PgEventPoller.
SendBatch(d) ==
    /\ At(d, "send")
    /\ Len(channel[d]) < ChannelCap
    /\ channel' = [channel EXCEPT ![d] = Append(@, poller[d].ids)]
    /\ poller' = [poller EXCEPT ![d] = Idle]
    /\ UNCHANGED <<database, wake, delivery, faults, observers>>

WakeNotification(d) ==
    /\ At(d, "wait") /\ Goto(d, "fetch")
    /\ listening[d] /\ notified[d]
    /\ notified' = [notified EXCEPT ![d] = FALSE]
    /\ UNCHANGED <<database, listening, channel, delivery, faults, observers>>

\* Mutant: the end of the interval starts the next one and no round.
WakeTimeoutIgnored(d) == At(d, "wait") /\ UNCHANGED vars

\* The fallback interval ends.
WakeTimeout(d) ==
    /\ At(d, "wait") /\ Goto(d, "fetch")
    /\ UNCHANGED <<database, wake, channel, delivery, faults, observers>>

\* The connection is lost, what it had not read with it; one attempt is made
\* to connect again.
WakeListenError(d) ==
    /\ At(d, "wait") /\ Goto(d, "fetch")
    /\ listening[d]
    /\ Fault
    /\ \E ok \in BOOLEAN : listening' = [listening EXCEPT ![d] = ok]
    /\ notified' = [notified EXCEPT ![d] = FALSE]
    /\ UNCHANGED <<database, channel, delivery, observers>>

-----------------------------------------------------------------------------
(* UiEventPoller *)

\* A batch is taken and the lock of the listeners, all of which are drained
\* into the dispatch.
MergeReceive(d) ==
    /\ merge = NoMerge
    /\ channel[d] # <<>>
    /\ channel' = [channel EXCEPT ![d] = Tail(@)]
    /\ IF listeners = <<>> THEN UNCHANGED <<merge, listeners>>
       ELSE /\ merge' = [batch |-> [db |-> d, ids |-> Head(channel[d])], todo |-> listeners,
                         alive |-> <<>>]
            /\ listeners' = <<>>
    /\ UNCHANGED <<database, wake, poller, inbox, client, received, faults, observers>>

Alive(l) == IF client[l] = "open" THEN Append(merge.alive, l) ELSE merge.alive

\* send waits for room in the channel of an open listener and fails for a
\* closed one, which is pruned.  After the last one the lock is released.
MergeSend ==
    LET l == Head(merge.todo) IN
    /\ merge # NoMerge
    /\ IF client[l] = "open"
       THEN /\ Len(inbox[l]) < ChannelCap
            /\ inbox' = [inbox EXCEPT ![l] = Append(@, merge.batch)]
       ELSE UNCHANGED inbox
    /\ IF Len(merge.todo) = 1
       THEN merge' = NoMerge /\ listeners' = Alive(l)
       ELSE /\ merge' = [merge EXCEPT !.todo = Tail(@), !.alive = Alive(l)]
            /\ UNCHANGED listeners
    /\ UNCHANGED <<database, wake, poller, channel, client, received, faults, observers>>

\* add_listener waits for the lock.
AddListener(l) ==
    /\ client[l] = "new"
    /\ merge = NoMerge
    /\ client' = [client EXCEPT ![l] = "open"]
    /\ listeners' = Append(listeners, l)
    /\ UNCHANGED <<database, wake, poller, channel, merge, inbox, received, faults, observers>>

Receive(l) ==
    /\ client[l] = "open"
    /\ inbox[l] # <<>>
    /\ inbox' = [inbox EXCEPT ![l] = Tail(@)]
    /\ received' = [received EXCEPT ![l] = Append(@, Head(inbox[l]))]
    /\ UNCHANGED <<database, wake, poller, channel, listeners, merge, client, faults, observers>>

\* The client goes away.
CloseListener(l) ==
    /\ client[l] = "open"
    /\ client' = [client EXCEPT ![l] = "closed"]
    /\ inbox' = [inbox EXCEPT ![l] = <<>>]
    /\ UNCHANGED <<database, wake, poller, channel, listeners, merge, received, faults, observers>>

-----------------------------------------------------------------------------
Init ==
    /\ nextId = [d \in Databases |-> 1]
    /\ writing = [d \in Databases |-> {}]
    /\ table = [d \in Databases |-> {}]
    /\ notified = [d \in Databases |-> FALSE]
    /\ listening \in [Databases -> BOOLEAN]
    /\ poller = [d \in Databases |-> [pc |-> "fetch", ids |-> {}]]
    /\ channel = [d \in Databases |-> <<>>]
    /\ listeners = <<>>
    /\ merge = NoMerge
    /\ inbox = [l \in Listeners |-> <<>>]
    /\ client = [l \in Listeners |-> "new"]
    /\ received = [l \in Listeners |-> <<>>]
    /\ faults = 0
    /\ committed = [d \in Databases |-> {}]
    /\ overtaken = {}
    /\ owed = [l \in Listeners |-> {}]

PollStep(d) == FetchEvents(d) \/ DeleteEvents(d) \/ SendBatch(d)

Wake(d) == WakeNotification(d) \/ WakeTimeout(d) \/ WakeListenError(d)

Next ==
    \/ \E d \in Databases : \/ Write(d)
                            \/ \E i \in Ids : Commit(d, i) \/ Rollback(d, i)
                            \/ PollStep(d) \/ Wake(d) \/ MergeReceive(d)
    \/ MergeSend
    \/ \E l \in Listeners : AddListener(l) \/ Receive(l) \/ CloseListener(l)

Spec == Init /\ [][Next]_vars

\* The tasks run, the fallback interval ends, and a client that does not go
\* away reads its stream.
Fairness ==
    /\ \A d \in Databases : WF_vars(PollStep(d)) /\ WF_vars(Wake(d)) /\ SF_vars(MergeReceive(d))
    /\ WF_vars(MergeSend)
    /\ \A l \in Listeners : WF_vars(Receive(l))

FairSpec == Spec /\ Fairness

-----------------------------------------------------------------------------
(* Properties. *)

\* Every variable has its type and no channel exceeds its capacity.
TypeOK ==
    /\ nextId \in [Databases -> 1..MaxId + 1]
    /\ writing \in [Databases -> SUBSET Ids]
    /\ table \in [Databases -> SUBSET Ids]
    /\ notified \in [Databases -> BOOLEAN]
    /\ listening \in [Databases -> BOOLEAN]
    /\ poller \in [Databases -> [pc : {"wait", "fetch", "delete", "send"}, ids : SUBSET Ids]]
    /\ channel \in [Databases -> Seq(SUBSET Ids)] /\ \A d \in Databases : Len(channel[d]) <= ChannelCap
    /\ listeners \in Seq(Listeners)
    /\ merge = NoMerge
          \/ merge \in [batch : Batch, todo : Seq(Listeners) \ {<<>>}, alive : Seq(Listeners)]
    /\ inbox \in [Listeners -> Seq(Batch)] /\ \A l \in Listeners : Len(inbox[l]) <= ChannelCap
    /\ client \in [Listeners -> {"new", "open", "closed"}]
    /\ received \in [Listeners -> Seq(Batch)]
    /\ faults \in 0..MaxFaults
    /\ committed \in [Databases -> SUBSET Ids]
    /\ overtaken \subseteq Event
    /\ owed \in [Listeners -> SUBSET Event]

In(e, b) == b.db = e[1] /\ e[2] \in b.ids
InSeq(e, q) == \E i \in 1..Len(q) : In(e, q[i])

\* Where an event that a listener has not read yet still is.
OnTheWay(e, l) ==
    \/ e[2] \in table[e[1]]
    \/ e[2] \in poller[e[1]].ids
    \/ \E i \in 1..Len(channel[e[1]]) : e[2] \in channel[e[1]][i]
    \/ merge # NoMerge /\ In(e, merge.batch) /\ \E i \in 1..Len(merge.todo) : merge.todo[i] = l
    \/ InSeq(e, inbox[l])

Read(e, l) == InSeq(e, received[l])

\* No event is lost to a listener that was registered when it was committed and
\* is still there: the row is deleted by id, not by what was read, and yet
\* between the read and the delete, a full channel and a listener that goes
\* away in the middle of a dispatch, it is always somewhere on its way.  The
\* exception are rows whose transaction was overtaken by one with a higher id.
NotLost ==
    \A l \in Listeners : client[l] = "open" =>
        \A e \in owed[l] \ overtaken : Read(e, l) \/ OnTheWay(e, l)

\* A listener that was sent to keeps its place: it is registered, or about to be
\* registered again by the dispatch that holds the lock.
StaysRegistered ==
    \A l \in Listeners : client[l] = "open" =>
        \E q \in {listeners, merge.todo, merge.alive} : \E i \in 1..Len(q) : q[i] = l

\* While no query fails, a listener reads every event once, and the events of a
\* database in the order of their ids but for those that were overtaken.
OnceInOrder ==
    faults = 0 =>
        \A l \in Listeners : \A i, j \in 1..Len(received[l]) :
            LET a == received[l][i]
                b == received[l][j]
            IN  i < j /\ a.db = b.db =>
                    \A m \in a.ids, n \in b.ids : m < n \/ (m # n /\ <<b.db, n>> \in overtaken)

\* Every event reaches every listener that was registered when it was committed
\* and does not go away, whichever wake-ups are lost with the LISTEN connection.
EventuallyRead ==
    \A l \in Listeners : \A e \in Event :
        (e \in owed[l] \ overtaken) ~> (Read(e, l) \/ client[l] # "open")

\* What db_events says of poll_once: it "drains all buffered rows, deletes them,
\* and dispatches the batch to registered mpsc receivers", so a row that was
\* deleted has been dispatched.
DeletedIsDispatched ==
    \A l \in Listeners : client[l] = "open" =>
        \A e \in owed[l] : Read(e, l) \/ OnTheWay(e, l)
=============================================================================
