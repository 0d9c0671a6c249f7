---------------------------- MODULE TicketStore ----------------------------
(***************************************************************************)
(* The ticket database and the RPCs on it (ticket_db/src/ticket_repo.rs,   *)
(* graph.rs, migrations/001_initial.sql and the ticket RPCs of             *)
(* server/src/grpc_ticket.rs).  Calls run concurrently and every SQL       *)
(* statement is a transaction of its own: update_ticket reads the whole    *)
(* row and later writes it back, a change of project renames the ticket    *)
(* one table after another, create_workflow reads two tables and then      *)
(* inserts.                                                                *)
(*                                                                         *)
(* A ticket id is a project and a hash.  The trigger of every update walks *)
(* the ancestors of the row with a recursive query that never ends on a    *)
(* cycle: such a statement hangs, holding the row.                         *)
(***************************************************************************)
EXTENDS Naturals, Sequences, FiniteSets

CONSTANTS
    Projects,    \* project keys, numbers so that ids are ordered
    Hashes,      \* the random part of an id
    Starts,      \* tickets and blocking edges that earlier calls left, and how many of
                 \* these calls count
    Requests,    \* the changes that update_ticket is asked for
    Callers,     \* concurrent callers of the service, the workflow handlers among them
    MaxCalls     \* bound: calls in a behaviour

ASSUME StoreAssumption ==
    /\ Projects \subseteq Nat \ {0} /\ Hashes \subseteq Nat /\ MaxCalls \in Nat
    /\ IsFiniteSet(Projects) /\ IsFiniteSet(Hashes)

Ids == Projects \X Hashes
None == <<0, 0>>

Row == [status : {"open", "closed"}, lifecycle : {"open", "design", "done"}, parent : Ids \cup {None}]
NoRow == [status |-> "none", lifecycle |-> "none", parent |-> None]

\* update_ticket's change: any of the columns, and the project.
Same == <<0, 1>>
Change ==
    [status : {"same", "open", "closed"}, lifecycle : {"same", "design", "done"},
     parent : Ids \cup {None, Same}, project : Projects \cup {0}, force : BOOLEAN]
NoChange == [status |-> "same", lifecycle |-> "same", parent |-> Same, project |-> 0, force |-> FALSE]

ASSUME RequestAssumption == Requests \subseteq Change

-----------------------------------------------------------------------------
(* The ancestors of the triggers and of list_ticket_tree. *)

\* The n-th ancestor of i in the table R.
Ancestor(R, i) ==
    LET up[n \in 0..Cardinality(Ids)] ==
            IF n = 0 THEN i ELSE IF up[n - 1] = None THEN None ELSE R[up[n - 1]].parent
    IN  up

\* Mutant: UNION instead of UNION ALL, which stops at a ticket it has seen.
EndlessNever(R, i) == FALSE

\* WITH RECURSIVE ancestors ... UNION ALL does not end.
Endless(R, i) == Ancestor(R, i)[Cardinality(Ids)] # None

\* Tables that calls can have made: keys are met, no walk over parents is
\* endless, and no ticket is closed above an open one.
Sound(R, B) ==
    LET present == {i \in Ids : R[i] # NoRow} IN
    /\ R \in [Ids -> Row \cup {NoRow}] /\ B \subseteq present \X present
    /\ \A i \in Ids : R[i].parent \in {None} \cup present
    /\ \A i \in Ids : ~Endless(R, i)
    /\ \A i, j \in Ids : R[i].status = "closed" /\ R[j].parent = i => R[j].status # "open"

ASSUME StartAssumption == \A s \in Starts : Sound(s.rows, s.blocks) /\ s.calls \in 0..MaxCalls

-----------------------------------------------------------------------------

VARIABLES
    rows,        \* table ticket
    blocks,      \* table edge, kind 'blocks': <<blocker, blocked>>
    meta,        \* tickets with a row in meta (no foreign key)
    activities,  \* tickets with a row in activity
    comments,    \* tickets with a row in ticket_comments
    workflows,   \* active workflow rows per ticket id (another database)
    call,        \* what each caller is doing
    calls        \* calls made

\* Observers: what each row holds if every change is applied to the row as it
\* is when the change commits; the tickets on which two calls overlapped; the
\* tickets under which a child was opened, created or put while they were
\* being closed or later, those that the close of their parent closed by
\* force, which looks no deeper, and those that a merge closes, which does not
\* look at all; whether two rows were written at a time; the tickets for which
\* a handler inserted a workflow because its own update failed.
VARIABLES asked, overlapped, unchecked, tangled, spare

tables == <<rows, blocks, meta, activities, comments, workflows>>
observers == <<asked, overlapped, unchecked, tangled, spare>>
vars == <<tables, call, calls, observers>>

Exists(i) == rows[i] # NoRow
Open(i) == rows[i].status = "open"
Children(i) == {j \in Ids : Exists(j) /\ rows[j].parent = i}

NoCall == [pc |-> "idle", id |-> None, change |-> NoChange, seen |-> NoRow, newId |-> None]

Goto(c, pc) == call' = [call EXCEPT ![c].pc = pc]
Return(c) == call' = [call EXCEPT ![c] = NoCall]
Step(c, pc) == call[c].pc = pc
Hung(c) == call[c].pc \in {"hung", "hungBelow"}

StartCall(c) == call[c] = NoCall /\ calls < MaxCalls /\ calls' = calls + 1

-----------------------------------------------------------------------------
(* graph.rs *)

\* build_graph: edges between existing tickets.
Edges == {e \in blocks : Exists(e[1]) /\ Exists(e[2])}

\* Mutant: the search goes no further than a closed blocker.
UpstreamOpen(i) ==
    LET reach[n \in 0..Cardinality(Ids)] ==
            IF n = 0 THEN {i}
            ELSE reach[n - 1] \cup {e[1] : e \in {d \in Edges : Open(d[1]) /\ d[2] \in reach[n - 1]}}
    IN  reach[Cardinality(Ids)] \ {i}

\* Reverse DFS from i, without i itself.
Upstream(i) ==
    LET reach[n \in 0..Cardinality(Ids)] ==
            IF n = 0 THEN {i}
            ELSE reach[n - 1] \cup {e[1] : e \in {d \in Edges : d[2] \in reach[n - 1]}}
    IN  reach[Cardinality(Ids)] \ {i}

\* compute_blocked, on the tables as they are in one state.
ComputeBlocked(S) == {i \in S : Exists(i) /\ \E j \in Upstream(i) : Open(j)}

-----------------------------------------------------------------------------
(* Calls of one statement. *)

\* A statement that refers to a ticket waits while its id is being changed.
Settled(i) ==
    \A c \in Callers : call[c].pc \in {"commit", "hung"} /\ call[c].newId # call[c].id
                          => i \notin {call[c].id, call[c].newId}

Referable(i) == Exists(i) /\ Settled(i)

\* Every trigger walks the ancestors.  A call of one statement that never ends
\* changes nothing that the others see, and is left out.
TriggerEnds(i) == ~Endless(rows, i)

NewRow(p) == [status |-> "open", lifecycle |-> "open", parent |-> p]

\* create_ticket: the generated id is lengthened until it is free.
CreateTicket(c, i, p) ==
    /\ StartCall(c)
    /\ ~Exists(i) /\ Settled(i)
    /\ p \in {None} \cup {j \in Ids : Referable(j) /\ TriggerEnds(j)}
    /\ rows' = [rows EXCEPT ![i] = NewRow(p)]
    /\ asked' = [asked EXCEPT ![i] = NewRow(p)]
    /\ unchecked' = unchecked \cup {p}
    /\ UNCHANGED <<blocks, meta, activities, comments, workflows, call, overlapped, tangled, spare>>

\* add_block: the foreign keys have to exist, cycles are not looked for.
AddBlock(c, i, j) ==
    /\ StartCall(c) /\ Referable(i) /\ Referable(j) /\ TriggerEnds(i)
    /\ blocks' = blocks \cup {<<i, j>>}
    /\ UNCHANGED <<rows, meta, activities, comments, workflows, call, observers>>

RemoveBlock(c, i, j) ==
    /\ StartCall(c) /\ <<i, j>> \in blocks /\ TriggerEnds(i)
    /\ blocks' = blocks \ {<<i, j>>}
    /\ UNCHANGED <<rows, meta, activities, comments, workflows, call, observers>>

SetMeta(c, i) ==
    /\ StartCall(c) /\ Exists(i) /\ TriggerEnds(i)
    /\ meta' = meta \cup {i}
    /\ UNCHANGED <<rows, blocks, activities, comments, workflows, call, observers>>

DeleteMeta(c, i) ==
    /\ StartCall(c) /\ i \in meta /\ TriggerEnds(i)
    /\ meta' = meta \ {i}
    /\ UNCHANGED <<rows, blocks, activities, comments, workflows, call, observers>>

AddActivity(c, i) ==
    /\ StartCall(c) /\ Referable(i) /\ TriggerEnds(i)
    /\ activities' = activities \cup {i}
    /\ UNCHANGED <<rows, blocks, meta, comments, workflows, call, observers>>

InsertTicketComment(c, i) ==
    /\ StartCall(c) /\ Referable(i) /\ TriggerEnds(i)
    /\ comments' = comments \cup {i}
    /\ UNCHANGED <<rows, blocks, meta, activities, workflows, call, observers>>

-----------------------------------------------------------------------------
(* update_ticket: the RPC, then the repository's. *)

Closing(ch) == ch.status = "closed"

UpdateTicket(c, i, ch) ==
    /\ StartCall(c) /\ Exists(i)
    /\ ch.parent \in {None, Same} \cup {j \in Ids : Exists(j)}
    /\ call' = [call EXCEPT ![c] = [pc |-> IF Closing(ch) THEN "children" ELSE "read", id |-> i,
                                    change |-> ch, seen |-> NoRow, newId |-> i]]
    /\ UNCHANGED <<tables, observers>>

\* close_ticket of the merge calls the repository's update_ticket directly.
Merged == [NoChange EXCEPT !.status = "closed", !.lifecycle = "done"]

CloseTicket(c, i) ==
    /\ StartCall(c)
    /\ call' = [call EXCEPT ![c] = [pc |-> "read", id |-> i, change |-> Merged, seen |-> NoRow, newId |-> i]]
    /\ unchecked' = unchecked \cup {i}
    /\ UNCHANGED <<tables, asked, overlapped, tangled, spare>>

AfterRead == {"rekey", "refs", "meta", "comments", "write", "commit", "hung"}
BusyOn(i, c) == \E d \in Callers \ {c} : call[d].id = i /\ call[d].pc \in AfterRead

\* Mutant: the row is locked from the read on, by readers that both wait to write.
HeldFromRead(i, c) == BusyOn(i, c)

\* Another statement has locked the row: its own, or one of the children that it
\* was closing when it hung.
Held(i, c) ==
    \E d \in Callers \ {c} :
        \/ call[d].id = i /\ call[d].pc \in {"commit", "hung"}
        \/ call[d].id = rows[i].parent /\ call[d].pc = "hungBelow" /\ Open(i)

\* Mutant: a ticket is closed whatever its children are.
HasOpenChildrenNever(i) == FALSE

\* epic_all_children_closed
HasOpenChildren(i) == \E j \in Children(i) : rows[j].status # "closed"

\* Closing looks at the children, or closes those directly below by force.
CheckChildren(c) ==
    LET i == call[c].id
        below == {j \in Children(i) : rows[j].status # "closed"}
        close(R) == [j \in Ids |-> IF j \in below THEN [R[j] EXCEPT !.status = "closed"] ELSE R[j]]
    IN  /\ Step(c, "children")
        /\ IF call[c].change.force
           THEN /\ \A j \in below : ~Held(j, c)
                /\ \/ /\ \A j \in below : ~Endless(rows, j)
                      /\ rows' = close(rows) /\ asked' = close(asked)
                      /\ overlapped' = overlapped \cup {j \in below : BusyOn(j, c)}
                      /\ Goto(c, "read") /\ unchecked' = (unchecked \cup below) \ {i}
                   \/ /\ \E j \in below : Endless(rows, j)
                      /\ Goto(c, "hungBelow") /\ UNCHANGED <<rows, asked, overlapped, unchecked>>
           ELSE /\ \/ HasOpenChildren(i) /\ Return(c) /\ UNCHANGED unchecked
                   \/ ~HasOpenChildren(i) /\ Goto(c, "read") /\ unchecked' = unchecked \ {i}
                /\ UNCHANGED <<rows, asked, overlapped>>
        /\ UNCHANGED <<blocks, meta, activities, comments, workflows, calls, tangled, spare>>

\* The whole row is read; a ticket that is gone is an error.
ReadTicket(c) ==
    LET i == call[c].id IN
    /\ Step(c, "read")
    /\ IF Exists(i)
       THEN /\ call' = [call EXCEPT ![c].pc = IF call[c].change.project \notin {0, i[1]}
                                              THEN "rekey" ELSE "write",
                                    ![c].seen = rows[i]]
            /\ overlapped' = IF BusyOn(i, c) THEN overlapped \cup {i} ELSE overlapped
       ELSE Return(c) /\ UNCHANGED overlapped
    /\ UNCHANGED <<tables, calls, asked, unchecked, tangled, spare>>

\* Candidates for the id in the new project: the same hash, lengthened with a
\* random character as long as it is taken.
Candidates(i, p) ==
    IF Exists(<<p, i[2]>>) THEN {j \in Ids : j[1] = p /\ ~Exists(j)} ELSE {<<p, i[2]>>}

RekeyTicketId(c) ==
    LET free == Candidates(call[c].id, call[c].change.project) IN
    /\ Step(c, "rekey")
    /\ \/ \E j \in free : call' = [call EXCEPT ![c].pc = "refs", ![c].newId = j]
       \/ free = {} /\ Return(c)
    /\ UNCHANGED <<tables, calls, observers>>

\* update_ticket_references, one table after the other.  The new id has no
\* row yet, so that the first statement that finds a reference with a foreign
\* key fails, and with it the call.
UpdateReferences(c) ==
    LET i == call[c].id IN
    /\ Step(c, "refs")
    /\ IF Children(i) # {} \/ i \in activities \/ \E e \in blocks : i \in {e[1], e[2]}
       THEN Return(c)
       ELSE Goto(c, "meta")
    /\ UNCHANGED <<tables, calls, observers>>

UpdateMeta(c) ==
    LET i == call[c].id IN
    /\ Step(c, "meta")
    /\ meta' = IF i \in meta THEN (meta \ {i}) \cup {call[c].newId} ELSE meta
    /\ Goto(c, "comments")
    /\ UNCHANGED <<rows, blocks, activities, comments, workflows, calls, observers>>

UpdateComments(c) ==
    /\ Step(c, "comments")
    /\ IF call[c].id \in comments
       THEN Return(c)
       ELSE Goto(c, "write")
    /\ UNCHANGED <<tables, calls, observers>>

\* The row with the change.
With(row, ch) ==
    [status    |-> IF ch.status = "same" THEN row.status ELSE ch.status,
     lifecycle |-> IF ch.lifecycle = "same" THEN row.lifecycle ELSE ch.lifecycle,
     parent    |-> IF ch.parent = Same THEN row.parent ELSE ch.parent]

\* What UPDATE writes: the columns that are set, and the others as they were read.
Written(row, ch) == With(row, ch)

Moved(R, c, new) ==
    [R EXCEPT ![call[c].id] = NoRow, ![call[c].newId] = new]

Renaming(c) == call[c].newId # call[c].id

\* A parent, or an id to which a row is being renamed, that is still referred to.
Referred(i) == \/ Children(i) # {} \/ i \in activities \cup comments
               \/ \E e \in blocks : i \in {e[1], e[2]}

\* The primary key and the foreign keys admit the row: its parent is there when
\* the statement ends.
Allowed(c, new) ==
    /\ Renaming(c) => ~Exists(call[c].newId) /\ ~Referred(call[c].id)
    /\ new.parent \in {None} \cup {j \in Ids : Moved(rows, c, new)[j] # NoRow}

\* UPDATE ticket ... WHERE id: it waits for the row and for updates that have
\* not committed and give or take an id that it needs, checks the keys and runs
\* the trigger, which sees the committed rows and its own.
WriteTicket(c) ==
    LET i == call[c].id
        new == Written(call[c].seen, call[c].change)
    IN  /\ Step(c, "write")
        /\ ~Held(i, c)
        /\ \A d \in Callers \ {c} :
              call[d].pc \in {"commit", "hung"} =>
                  /\ Renaming(d) => new.parent # call[d].id
                  /\ Renaming(c) => /\ Written(call[d].seen, call[d].change).parent # i
                                    /\ call[d].newId # call[c].newId
        /\ \/ ~Exists(i) /\ Return(c) /\ UNCHANGED tangled
           \/ /\ Exists(i)
              /\ ~Allowed(c, new)
              /\ Return(c) /\ UNCHANGED tangled
           \/ /\ Exists(i)
              /\ Allowed(c, new)
              /\ Goto(c, IF Endless(Moved(rows, c, new), call[c].newId) THEN "hung" ELSE "commit")
              /\ tangled' = (tangled \/ \E d \in Callers \ {c} : call[d].pc = "commit")
        /\ UNCHANGED <<tables, calls, asked, overlapped, unchecked, spare>>

CommitTicket(c) ==
    LET i == call[c].id
        new == Written(call[c].seen, call[c].change)
    IN  /\ Step(c, "commit")
        /\ rows' = Moved(rows, c, new)
        /\ asked' = Moved(asked, c, With(asked[i], call[c].change))
        /\ overlapped' = IF i \in overlapped THEN overlapped \cup {call[c].newId} ELSE overlapped
        /\ unchecked' = unchecked \cup (IF new.status = "open" THEN {new.parent} ELSE {})
                                \cup (IF i \in unchecked THEN {call[c].newId} ELSE {})
        /\ Return(c)
        /\ UNCHANGED <<blocks, meta, activities, comments, workflows, calls, tangled, spare>>

-----------------------------------------------------------------------------
(* create_workflow: the ticket, then its workflow, then the insert. *)

CreateWorkflow(c, i) ==
    /\ StartCall(c) /\ Exists(i) /\ Open(i)
    /\ call' = [call EXCEPT ![c] = [NoCall EXCEPT !.pc = "active", !.id = i]]
    /\ UNCHANGED <<tables, observers>>

\* get_workflow_by_ticket
HasActive(i) == workflows[i] > 0

CheckActive(c) ==
    LET i == call[c].id IN
    /\ Step(c, "active")
    /\ IF HasActive(i) THEN Return(c) ELSE Goto(c, "insert")
    /\ overlapped' = IF \E d \in Callers \ {c} : call[d].id = i /\ call[d].pc = "insert"
                     THEN overlapped \cup {i} ELSE overlapped
    /\ UNCHANGED <<tables, calls, asked, unchecked, tangled, spare>>

InsertWorkflow(c) ==
    /\ Step(c, "insert")
    /\ workflows' = [workflows EXCEPT ![call[c].id] = @ + 1]
    /\ Return(c)
    /\ UNCHANGED <<rows, blocks, meta, activities, comments, calls, observers>>

\* run_handler of the coordinator: its update of the status failed, and it
\* inserts a row without looking for one.
RunHandler(c, i) ==
    /\ StartCall(c)
    /\ workflows' = [workflows EXCEPT ![i] = @ + 1]
    /\ spare' = spare \cup {i}
    /\ UNCHANGED <<rows, blocks, meta, activities, comments, call, asked, overlapped, unchecked, tangled>>

-----------------------------------------------------------------------------
(* import_records *)

Before(i, j) == i[1] < j[1] \/ (i[1] = j[1] /\ i[2] < j[2])

\* Rows are inserted in the order of the export, by id, and the foreign key of
\* each is checked at once.
Importable(R, present) ==
    \A i \in Ids : R[i] # NoRow /\ R[i].parent # None
        => R[i].parent \in present \/ Before(R[i].parent, i)

\* One ticket and a child of it; the collision check and the transaction fail
\* alike, and nothing is inserted.
ImportRecords(c, i, j) ==
    LET R == [k \in Ids |-> CASE k = i -> NewRow(None) [] k = j -> NewRow(i) [] OTHER -> NoRow] IN
    /\ StartCall(c) /\ i # j
    /\ ~Exists(i) /\ ~Exists(j) /\ Settled(i) /\ Settled(j) /\ Importable(R, {})
    /\ rows' = [k \in Ids |-> IF k \in {i, j} THEN R[k] ELSE rows[k]]
    /\ asked' = [k \in Ids |-> IF k \in {i, j} THEN R[k] ELSE asked[k]]
    /\ unchecked' = unchecked \cup {i}
    /\ UNCHANGED <<blocks, meta, activities, comments, workflows, call, overlapped, tangled, spare>>

-----------------------------------------------------------------------------

Init ==
    /\ \E s \in Starts : rows = s.rows /\ blocks = s.blocks /\ calls = s.calls
    /\ meta = {} /\ activities = {} /\ comments = {}
    /\ workflows = [i \in Ids |-> 0]
    /\ call = [c \in Callers |-> NoCall]
    /\ asked = rows /\ overlapped = {} /\ unchecked = {} /\ tangled = FALSE /\ spare = {}

UpdateStep(c) ==
    \/ CheckChildren(c) \/ ReadTicket(c)
    \/ RekeyTicketId(c) \/ UpdateReferences(c) \/ UpdateMeta(c) \/ UpdateComments(c)
    \/ WriteTicket(c) \/ CommitTicket(c)

WorkflowStep(c) == CheckActive(c) \/ InsertWorkflow(c)

Request(c) ==
    \E i \in Ids :
        \/ SetMeta(c, i) \/ DeleteMeta(c, i) \/ AddActivity(c, i) \/ InsertTicketComment(c, i) \/ CreateWorkflow(c, i)
        \/ CloseTicket(c, i) \/ RunHandler(c, i)
        \/ \E ch \in Requests : UpdateTicket(c, i, ch)
        \/ \E p \in Ids \cup {None} : CreateTicket(c, i, p)
        \/ \E j \in Ids : AddBlock(c, i, j) \/ RemoveBlock(c, i, j) \/ ImportRecords(c, i, j)

Next == \E c \in Callers : Request(c) \/ UpdateStep(c) \/ WorkflowStep(c)

Spec == Init /\ [][Next]_vars

-----------------------------------------------------------------------------
(* Properties *)

Call == [pc : {"idle", "children", "read", "active", "insert", "hungBelow"} \cup AfterRead,
         id : Ids \cup {None}, change : Change, seen : Row \cup {NoRow},
         newId : Ids \cup {None}]

\* Every table and every call holds values of its kind.
TypeOK ==
    /\ rows \in [Ids -> Row \cup {NoRow}] /\ asked \in [Ids -> Row \cup {NoRow}]
    /\ blocks \subseteq Ids \X Ids
    /\ {meta, activities, comments, overlapped, spare} \subseteq SUBSET Ids
    /\ unchecked \subseteq Ids \cup {None}
    /\ workflows \in [Ids -> Nat] /\ tangled \in BOOLEAN /\ calls \in 0..MaxCalls
    /\ call \in [Callers -> Call]

\* The walks over parents end: no ticket is its own ancestor, unless two
\* updates were uncommitted at the same time (each writes a parent, the one it
\* read if not a new one).  The code has no check; what prevents the cycle is
\* that the trigger of the statement that would close it never returns.
ParentsAcyclic ==
    tangled \/ \A i \in Ids : Exists(i) => ~(\E n \in 1..Cardinality(Ids) : Ancestor(rows, i)[n] = i)

\* A path of edges leads from j to i: i is in every set that holds the tickets
\* j blocks and, with a ticket, those it blocks.
Path(j, i) ==
    \A S \in SUBSET Ids :
        (\A e \in Edges : e[1] \in S \cup {j} => e[2] \in S) => i \in S

\* blocked_among returns the tickets with "at least one transitive blocker
\* which is not closed": those that another open ticket reaches over edges.
BlockedExact ==
    ComputeBlocked(Ids) = {i \in Ids : \E j \in Ids \ {i} : Exists(j) /\ Open(j) /\ Path(j, i)}

\* A ticket that update_ticket closed has no open child, unless the child was
\* opened, created or put there after the close looked, or the ticket was closed
\* by force with its parent, or by a merge, which does not look.
EpicsCloseLast ==
    \A i \in Ids : Exists(i) /\ ~Open(i) /\ i \notin unchecked
                       => \A j \in Children(i) : ~Open(j)

\* A change of one column leaves the others alone: a ticket on which no two
\* calls overlapped holds, in every column, the newest change of that column.
ChangesKept == \A i \in Ids \ overlapped : rows[i] = asked[i]

\* At most one active workflow per ticket, unless two create_workflow calls
\* were between the check and the insert, or a handler inserted a row of its own.
OneActiveWorkflow == \A i \in Ids \ (overlapped \cup spare) : workflows[i] <= 1

\* The waits for rows are never circular: as long as no statement hangs, some call
\* that has begun can go on.
CallsProceed ==
    \/ \A c \in Callers : call[c] = NoCall
    \/ \E c \in Callers : Hung(c) \/ ENABLED (UpdateStep(c) \/ WorkflowStep(c))

\* "Updates all foreign key references in a transaction, then returns the new
\* ID" (rekey_ticket_id): when the rename is over, no metadata is left under an
\* id that no ticket has.
MetaMovesWithTicket ==
    \A i \in meta : Exists(i) \/ \E c \in Callers : i \in {call[c].id, call[c].newId}

\* The file that export writes can be imported ("Reads a JSONL file produced by
\* `ur ticket export`"): into an empty database it inserts without an error.
ExportImports == Importable(rows, {})

\* TicketUpdate's columns are options, and those that are None keep their value:
\* ChangesKept for every ticket.
NoUpdateLost == \A i \in Ids : rows[i] = asked[i]

\* "Reject if there is already an active (non-terminal) workflow for this
\* ticket" (create_workflow).
NeverTwoWorkflows == \A i \in Ids : workflows[i] <= 1

\* "ticket has open children; close them first or use --force" (the error
\* HasOpenChildren): EpicsCloseLast for every ticket.
NoOpenChildUnderClosed == \A i \in Ids : Exists(i) /\ ~Open(i) => \A j \in Children(i) : ~Open(j)

\* No statement hangs.
NothingHangs == \A c \in Callers : ~Hung(c)
=============================================================================
