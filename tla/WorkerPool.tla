----------------------------- MODULE WorkerPool -----------------------------
(***************************************************************************)
(* Worker launch and stop over a project's pool of repository slots:       *)
(* RepoPoolManager (server/src/pool.rs), LaunchManager::launch             *)
(* (server/src/grpc.rs), WorkerManager (server/src/worker.rs), the worker, *)
(* slot and worker_slot tables (workflow_db/src/worker_repo.rs) and the    *)
(* reconciliation at server start (server/src/main.rs).                    *)
(*                                                                         *)
(* A worker is one launch: its id is drawn fresh for each.  A process id   *)
(* (ticket id) names a container; several workers may be launched for it.  *)
(* A slot is its index, the name of its directory; UNIQUE(project_key,     *)
(* slot_name) makes it the key of the slot row as well.                    *)
(***************************************************************************)
EXTENDS Integers, Sequences, FiniteSets

CONSTANTS
    Workers,      \* worker ids, one for each launch
    Processes,    \* process ids
    StopCalls,    \* stop requests that may be served at the same time
    PoolLimit,    \* project.pool_limit
    MaxCrashes,   \* bound: server crashes
    MaxCancels,   \* bound: launches whose client goes away
    MaxFaults,    \* bound: failing RPCs and database calls
    MaxStops,     \* bound: stop requests
    MaxLosses     \* bound: slot directories or containers removed by hand

ASSUME PoolLimitAssumption == PoolLimit \in Nat
ASSUME MaxAssumption == {MaxCrashes, MaxCancels, MaxFaults, MaxStops, MaxLosses} \subseteq Nat

None == "none"
ASSUME NamesAssumption == None \notin Workers
NoSlot == -1
SlotIndices == Nat

VARIABLES
    up,           \* the server is running
    disk,         \* slot directories of the pool
    slots,        \* slot rows, oldest first
    claiming,     \* slots mid-acquisition (in memory)
    worker,       \* worker rows
    link,         \* worker_slot rows: worker -> slot
    container,    \* container names (processes) -> worker that runs in it
    mount,        \* what a worker's container has mounted as its workspace
    launch,       \* launch requests being served
    stop          \* stop requests being served

\* Observer, not part of the code: slots that were ever claimed from a stale
\* candidate list, or mounted by a live container that neither a claim nor a
\* link protects.
VARIABLE exposed

VARIABLES crashes, cancels, faults, stops, losses

tables == <<slots, worker, link>>
host == <<disk, container, mount>>
counters == <<crashes, cancels, faults, stops, losses>>
code == <<up, claiming, launch, stop, tables, host, counters>>
vars == <<code, exposed>>

WorkerRow ==
    [status : {"provisioning", "running", "stopped"}, process : Processes, slot : SlotIndices,
     named : BOOLEAN]   \* container_id is still the container's name
NoRow == [status |-> None, process |-> None, slot |-> NoSlot, named |-> FALSE]

LaunchPc == {"found", "recycle", "scan", "clone", "insert", "claim_new", "checkout", "prepare",
             "cleanup", "record", "run", "finalize", "link", "setup"}
Launch == [pc : LaunchPc, process : Processes, candidates : SUBSET SlotIndices,
           slot : SlotIndices \cup {NoSlot}, claimed : BOOLEAN]
NoLaunch == [pc |-> "none", process |-> None, candidates |-> {}, slot |-> NoSlot,
             claimed |-> FALSE]
\* The identity of a worker is used once.
Launched == [NoLaunch EXCEPT !.pc = "over"]

StopPc == {"kill", "clean", "unlink", "status"}
NoStop == [pc |-> "none", worker |-> None, row |-> NoRow]

Active(w) == worker[w].status \in {"provisioning", "running"}
Alive(w) == \E p \in Processes : container[p] = w
InLaunch(w) == launch[w].pc \in LaunchPc

-----------------------------------------------------------------------------
(* Selection of a slot. *)

\* Mutant: a slot counts as free whatever worker_slot says.
AvailableUnjoined(s) == TRUE

\* find_available_slots: not linked to an active worker
Available(s) == \A w \in Workers : Active(w) => link[w] # s

HasRow(s) == \E i \in 1..Len(slots) : slots[i] = s

\* The rows found, which stay in the order of creation: a row is only added at
\* the end, and none goes, as long as a launch is being served.
FindAvailableSlots == {s \in {slots[i] : i \in 1..Len(slots)} : Available(s)}

\* Mutant: pool_limit is compared with the wrong operator.
LimitReachedOffByOne(n) == n > PoolLimit

LimitReached(n) == n >= PoolLimit

\* next_slot_index: the first i at which the sorted list does not hold i
NextSlotIndex(S) ==
    CHOOSE i \in 0..Cardinality(S) : i \notin S /\ \A j \in 0..(i - 1) : j \in S

\* Mutant: the slot is handed out although it is being acquired.
ClaimableAlways(s) == TRUE

\* claim_slot: claiming.insert
Claimable(s) == s \notin claiming

\* Drop of the SlotClaim
Released(w) == IF launch[w].claimed THEN claiming \ {launch[w].slot} ELSE claiming

\* A claim of the worker's own launch, or a link of its active row.
Protected(w) ==
    \/ launch[w].claimed /\ launch[w].slot = mount[w]
    \/ Active(w) /\ link[w] = mount[w]

Unprotected == {mount[w] : w \in {u \in Workers : Alive(u) /\ ~Protected(u)}}

ClaimedStale == {s \in claiming : ~Available(s)}

Observe == exposed' = exposed \cup Unprotected' \cup (ClaimedStale' \ claiming)

LaunchStep(w, from, to) ==
    /\ up
    /\ launch[w].pc = from
    /\ launch' = [launch EXCEPT ![w].pc = to]

\* The launch returns an error; whatever it holds is dropped.
Fails(w) ==
    /\ launch' = [launch EXCEPT ![w] = Launched]
    /\ claiming' = Released(w)

LaunchWorker(w, p) ==
    /\ up
    /\ launch[w] = NoLaunch
    /\ launch' = [launch EXCEPT ![w] = [NoLaunch EXCEPT !.pc = "found", !.process = p,
                                                        !.candidates = FindAvailableSlots]]
    /\ UNCHANGED <<up, claiming, stop, tables, host, counters>>
    /\ Observe

\* The first candidate that is not mid-acquisition is claimed; the list may
\* by then be older than a link.
ClaimSlot(w) ==
    LET free == {i \in 1..Len(slots) : slots[i] \in launch[w].candidates /\ Claimable(slots[i])}
        first == CHOOSE i \in free : \A j \in free : i <= j
    IN  /\ up
        /\ launch[w].pc = "found"
        /\ IF free = {}
           THEN /\ launch' = [launch EXCEPT ![w].pc = "scan"]
                /\ UNCHANGED claiming
           ELSE /\ launch' = [launch EXCEPT ![w].pc = "recycle", ![w].slot = slots[first],
                                            ![w].claimed = TRUE]
                /\ claiming' = claiming \cup {slots[first]}
        /\ UNCHANGED <<up, stop, tables, host, counters>>
        /\ Observe

\* builderd resets the directory, or clones it again if it is gone.
RecycleSlot(w) ==
    /\ LaunchStep(w, "recycle", "checkout")
    /\ disk' = disk \cup {launch[w].slot}
    /\ UNCHANGED <<up, claiming, stop, tables, container, mount, counters>>
    /\ Observe

ScanSlots(w) ==
    /\ up
    /\ launch[w].pc = "scan"
    /\ IF LimitReached(Cardinality(disk))
       THEN Fails(w)
       ELSE /\ launch' = [launch EXCEPT ![w].pc = "clone", ![w].slot = NextSlotIndex(disk)]
            /\ UNCHANGED claiming
    /\ UNCHANGED <<up, stop, tables, host, counters>>
    /\ Observe

\* git clone refuses a directory that exists.
PrepareNewSlot(w) ==
    /\ up
    /\ launch[w].pc = "clone"
    /\ disk' = disk \cup {launch[w].slot}
    /\ IF launch[w].slot \in disk
       THEN Fails(w)
       ELSE launch' = [launch EXCEPT ![w].pc = "insert"] /\ UNCHANGED claiming
    /\ UNCHANGED <<up, stop, tables, container, mount, counters>>
    /\ Observe

\* UNIQUE(project_key, slot_name)
InsertSlot(w) ==
    /\ up
    /\ launch[w].pc = "insert"
    /\ IF HasRow(launch[w].slot)
       THEN Fails(w) /\ UNCHANGED slots
       ELSE /\ slots' = Append(slots, launch[w].slot)
            /\ launch' = [launch EXCEPT ![w].pc = "claim_new"]
            /\ UNCHANGED claiming
    /\ UNCHANGED <<up, stop, worker, link, host, counters>>
    /\ Observe

ClaimNewSlot(w) ==
    /\ up
    /\ launch[w].pc = "claim_new"
    /\ IF Claimable(launch[w].slot)
       THEN /\ launch' = [launch EXCEPT ![w].pc = "checkout", ![w].claimed = TRUE]
            /\ claiming' = claiming \cup {launch[w].slot}
       ELSE Fails(w)
    /\ UNCHANGED <<up, stop, tables, host, counters>>
    /\ Observe

-----------------------------------------------------------------------------
(* LaunchManager::launch after the slot has been acquired. *)

\* checkout_branch needs the slot row.
CheckoutBranch(w) ==
    /\ up
    /\ launch[w].pc = "checkout"
    /\ IF HasRow(launch[w].slot)
       THEN launch' = [launch EXCEPT ![w].pc = "prepare"] /\ UNCHANGED claiming
       ELSE Fails(w)
    /\ UNCHANGED <<up, stop, tables, host, counters>>
    /\ Observe

\* Mutant: the launch tries again until the other worker has gone.
PrepareRetries(w) ==
    /\ up
    /\ launch[w].pc = "prepare"
    /\ launch' = [launch EXCEPT ![w].pc =
                     IF \E u \in Workers : Active(u) /\ worker[u].process = launch[w].process
                     THEN "checkout" ELSE "cleanup"]
    /\ UNCHANGED <<up, claiming, stop, tables, host, counters>>
    /\ Observe

\* Refused while a worker of the same process is provisioning or running.
Prepare(w) ==
    /\ up
    /\ launch[w].pc = "prepare"
    /\ IF \E u \in Workers : Active(u) /\ worker[u].process = launch[w].process
       THEN Fails(w)
       ELSE launch' = [launch EXCEPT ![w].pc = "cleanup"] /\ UNCHANGED claiming
    /\ UNCHANGED <<up, stop, tables, host, counters>>
    /\ Observe

\* run_and_record removes any container that has the name.
RemoveContainer(p) == container' = [container EXCEPT ![p] = None]

PreLaunchCleanup(w) ==
    /\ LaunchStep(w, "cleanup", "record")
    /\ RemoveContainer(launch[w].process)
    /\ UNCHANGED <<up, claiming, stop, tables, disk, mount, counters>>
    /\ Observe

RecordProvisioningWorker(w) ==
    /\ LaunchStep(w, "record", "run")
    /\ worker' = [worker EXCEPT ![w] = [status |-> "provisioning", process |-> launch[w].process,
                                        slot |-> launch[w].slot, named |-> TRUE]]
    /\ UNCHANGED <<up, claiming, stop, slots, link, host, counters>>
    /\ Observe

CanRun(w) == container[launch[w].process] = None /\ launch[w].slot \in disk

\* docker run of the launches in ran, no two of them for the same name
Start(ran) ==
    /\ container' = [p \in Processes |->
                        IF \E w \in ran : launch[w].process = p
                        THEN CHOOSE w \in ran : launch[w].process = p ELSE container[p]]
    /\ mount' = [w \in Workers |-> IF w \in ran THEN launch[w].slot ELSE mount[w]]

\* Calls to builderd whose caller is no longer there, or gets an error, may
\* have had their effect: a directory cloned, or removed to be cloned again, a
\* container started.
MayTakeEffect(W) ==
    LET at(pc) == {w \in W : launch[w].pc = pc} IN
    /\ \E cloned \in SUBSET (at("clone") \cup at("recycle")), removed \in SUBSET at("recycle") :
          disk' = (disk \ {launch[w].slot : w \in removed}) \cup {launch[w].slot : w \in cloned}
    /\ \E ran \in SUBSET {w \in at("run") : CanRun(w)} :
          /\ \A u, w \in ran : launch[u].process = launch[w].process => u = w
          /\ Start(ran)

\* docker run fails if the name is taken or the directory is gone: the row is
\* deleted again.
RunContainer(w) ==
    /\ up
    /\ launch[w].pc = "run"
    /\ IF CanRun(w)
       THEN /\ Start({w})
            /\ launch' = [launch EXCEPT ![w].pc = "finalize"]
            /\ UNCHANGED <<claiming, worker, link>>
       ELSE /\ Fails(w)
            /\ worker' = [worker EXCEPT ![w] = NoRow]
            /\ link' = [link EXCEPT ![w] = NoSlot]
            /\ UNCHANGED <<container, mount>>
    /\ UNCHANGED <<up, stop, slots, disk, counters>>
    /\ Observe

\* The row carries Docker's id from now on; without a row the container is
\* stopped again.
FinalizeWorkerLaunch(w) ==
    /\ up
    /\ launch[w].pc = "finalize"
    /\ worker[w] # NoRow
    /\ worker' = [worker EXCEPT ![w].status = "running", ![w].named = FALSE]
    /\ launch' = [launch EXCEPT ![w].pc = "link"]
    /\ UNCHANGED <<up, claiming, stop, slots, link, host, counters>>
    /\ Observe

LinkWorkerSlot(w) ==
    /\ LaunchStep(w, "link", "setup")
    /\ link' = [link EXCEPT ![w] = launch[w].slot]
    /\ UNCHANGED <<up, claiming, stop, slots, worker, host, counters>>
    /\ Observe

\* post_launch_setup ends, well or not, and the claim is dropped.
PostLaunchSetup(w) ==
    /\ up
    /\ launch[w].pc = "setup"
    /\ Fails(w)
    /\ UNCHANGED <<up, stop, tables, host, counters>>
    /\ Observe

-----------------------------------------------------------------------------
(* Launches that fail or are cancelled. *)

FailsWithError == {"found", "recycle", "scan", "clone", "insert", "checkout", "prepare",
                   "cleanup", "record"}

\* An RPC or a database call before the row is written fails.
LaunchFault(w) ==
    /\ up
    /\ launch[w].pc \in FailsWithError
    /\ faults < MaxFaults
    /\ faults' = faults + 1
    /\ Fails(w)
    /\ MayTakeEffect({w})
    /\ UNCHANGED <<up, stop, tables, crashes, cancels, stops, losses>>
    /\ Observe

\* launch_worker returns an error, after docker run or before, and the row is
\* deleted.
RunFault(w) ==
    /\ up
    /\ launch[w].pc = "run"
    /\ faults < MaxFaults
    /\ faults' = faults + 1
    /\ Fails(w)
    /\ worker' = [worker EXCEPT ![w] = NoRow]
    /\ link' = [link EXCEPT ![w] = NoSlot]
    /\ MayTakeEffect({w})
    /\ UNCHANGED <<up, stop, slots, crashes, cancels, stops, losses>>
    /\ Observe

\* Storing the id or the link fails: the container is stopped, the row deleted.
FinalizeFault(w) ==
    /\ up
    /\ launch[w].pc \in {"finalize", "link"}
    /\ faults < MaxFaults
    /\ faults' = faults + 1
    /\ Fails(w)
    /\ container' = [p \in Processes |-> IF container[p] = w THEN None ELSE container[p]]
    /\ worker' = [worker EXCEPT ![w] = NoRow]
    /\ link' = [link EXCEPT ![w] = NoSlot]
    /\ UNCHANGED <<up, stop, slots, disk, mount, crashes, cancels, stops, losses>>
    /\ Observe

\* The client of the launch RPC goes away: the future is dropped at its await,
\* the claim with it, and nothing else is undone.
LaunchCancelled(w) ==
    /\ up
    /\ InLaunch(w)
    /\ cancels < MaxCancels
    /\ cancels' = cancels + 1
    /\ Fails(w)
    /\ MayTakeEffect({w})
    /\ UNCHANGED <<up, stop, tables, crashes, faults, stops, losses>>
    /\ Observe

-----------------------------------------------------------------------------
(* stop_by_worker_id; the status of the row is not looked at. *)

StopWorker(i, w) ==
    /\ up
    /\ stop[i] = NoStop
    /\ stops < MaxStops
    /\ stops' = stops + 1
    /\ worker[w] # NoRow
    /\ stop' = [stop EXCEPT ![i] = [pc |-> "kill", worker |-> w, row |-> worker[w]]]
    /\ UNCHANGED <<up, claiming, launch, tables, host, crashes, cancels, faults, losses>>
    /\ Observe

\* stop by process id when no row of the process is running: the container that
\* has the name is stopped through the row that holds its id, if there is one,
\* and else removed as an orphan.
StopUnrecordedByName(i, p) ==
    LET w == container[p] IN
    /\ up
    /\ stop[i] = NoStop
    /\ stops < MaxStops
    /\ stops' = stops + 1
    /\ w # None
    /\ \A u \in Workers : ~(worker[u].status = "running" /\ worker[u].process = p)
    /\ IF worker[w] # NoRow /\ ~worker[w].named
       THEN /\ stop' = [stop EXCEPT ![i] = [pc |-> "kill", worker |-> w, row |-> worker[w]]]
            /\ UNCHANGED container
       ELSE RemoveContainer(p) /\ UNCHANGED stop
    /\ UNCHANGED <<up, claiming, launch, tables, disk, mount, crashes, cancels, faults, losses>>
    /\ Observe

StopStep(i, from, to) ==
    /\ up
    /\ stop[i].pc = from
    /\ stop' = [stop EXCEPT ![i].pc = to]

\* A row that still carries the container's name stops whatever has that name;
\* a container that is gone is tolerated.
StopContainer(i) ==
    LET row == stop[i].row IN
    /\ StopStep(i, "kill", "clean")
    /\ container' = [p \in Processes |->
                        IF IF row.named THEN p = row.process ELSE container[p] = stop[i].worker
                        THEN None ELSE container[p]]
    /\ UNCHANGED <<up, claiming, launch, tables, disk, mount, counters>>
    /\ Observe

\* clean_slot resets the directory of the row's workspace; errors are logged.
CleanSlot(i) ==
    /\ StopStep(i, "clean", "unlink")
    /\ UNCHANGED <<up, claiming, launch, tables, host, counters>>
    /\ Observe

UnlinkWorkerSlot(i) ==
    /\ StopStep(i, "unlink", "status")
    /\ link' = [link EXCEPT ![stop[i].worker] = NoSlot]
    /\ UNCHANGED <<up, claiming, launch, slots, worker, host, counters>>
    /\ Observe

\* A row that has been deleted meanwhile is not updated.
MarkStopped(i) ==
    LET w == stop[i].worker IN
    /\ up
    /\ stop[i].pc = "status"
    /\ worker' = IF worker[w] = NoRow THEN worker ELSE [worker EXCEPT ![w].status = "stopped"]
    /\ stop' = [stop EXCEPT ![i] = NoStop]
    /\ UNCHANGED <<up, claiming, launch, slots, link, host, counters>>
    /\ Observe

\* A call of the stop fails and the stop returns its error.
StopFault(i) ==
    /\ up
    /\ stop[i].pc \in {"kill", "unlink", "status"}
    /\ faults < MaxFaults
    /\ faults' = faults + 1
    /\ stop' = [stop EXCEPT ![i] = NoStop]
    /\ UNCHANGED <<up, claiming, launch, tables, host, crashes, cancels, stops, losses>>
    /\ Observe

-----------------------------------------------------------------------------
(* Crash, restart and what happens outside the server. *)

\* Whatever was in memory is gone; builderd goes on.
Crash ==
    /\ up
    /\ crashes < MaxCrashes
    /\ crashes' = crashes + 1
    /\ up' = FALSE
    /\ claiming' = {}
    /\ launch' = [w \in Workers |-> IF InLaunch(w) THEN Launched ELSE launch[w]]
    /\ stop' = [i \in StopCalls |-> NoStop]
    /\ MayTakeEffect(Workers)
    /\ UNCHANGED <<tables, cancels, faults, stops, losses>>
    /\ Observe

\* Mutant: a container that is not found counts as running.
FoundAliveAlways(w) == worker[w] # NoRow

\* What inspect_worker finds for a row: a container of its own, or, while the
\* row has only a name, any container of that name.
FoundAlive(w) == Alive(w) \/ (worker[w].named /\ container[worker[w].process] # None)

\* reconcile_single_worker: alive rows are running, active dead rows stopped.
Reconciled(w) ==
    IF worker[w] = NoRow THEN NoRow
    ELSE IF FoundAlive(w) THEN [worker[w] EXCEPT !.status = "running"]
    ELSE [worker[w] EXCEPT !.status = "stopped"]

Position(s) == CHOOSE i \in 1..Len(slots) : slots[i] = s

\* reconcile_slots: the rows without a directory go, the others keep their
\* order, and the directories without a row get one, in any order.
ReconciledRows(rows) ==
    /\ \A s \in disk : \E i \in 1..Cardinality(disk) : rows[i] = s
    /\ \A i, j \in 1..Cardinality(disk) :
          i < j /\ HasRow(rows[j]) => HasRow(rows[i]) /\ Position(rows[i]) < Position(rows[j])

\* The workers linked to a slot without a directory go with it.  Then the
\* workers are reconciled, but for those whose probe fails, and stopped rows
\* past their time to live deleted, with their links.
Restart ==
    /\ ~up
    /\ up' = TRUE
    /\ \E rows \in [1..Cardinality(disk) -> disk] : ReconciledRows(rows) /\ slots' = rows
    /\ LET gone(w) == link[w] # NoSlot /\ link[w] \notin disk IN
       \E unknown \in SUBSET Workers :
       \E old \in SUBSET {w \in Workers : /\ worker[w].status = "stopped"
                                        /\ FoundAlive(w) => w \in unknown} :
             /\ faults' = IF unknown = {} THEN faults ELSE faults + 1
             /\ faults' <= MaxFaults
             /\ worker' = [w \in Workers |-> IF gone(w) \/ w \in old THEN NoRow
                                             ELSE IF w \in unknown THEN worker[w] ELSE Reconciled(w)]
             /\ link' = [w \in Workers |->
                            IF \/ gone(w)
                               \/ w \in old
                               \/ w \notin unknown /\ Active(w) /\ ~FoundAlive(w)
                            THEN NoSlot ELSE link[w]]
    /\ UNCHANGED <<claiming, launch, stop, host, crashes, cancels, stops, losses>>
    /\ Observe

\* A directory is deleted by hand while no container has it mounted.
LoseDirectory(s) ==
    /\ losses < MaxLosses
    /\ losses' = losses + 1
    /\ s \in disk
    /\ \A w \in Workers : Alive(w) => mount[w] # s
    /\ disk' = disk \ {s}
    /\ UNCHANGED <<up, claiming, launch, stop, tables, container, mount,
                   crashes, cancels, faults, stops>>
    /\ Observe

\* A container dies or is removed behind the server's back.
LoseContainer(p) ==
    /\ losses < MaxLosses
    /\ losses' = losses + 1
    /\ container[p] # None
    /\ RemoveContainer(p)
    /\ UNCHANGED <<up, claiming, launch, stop, tables, disk, mount,
                   crashes, cancels, faults, stops>>
    /\ Observe

-----------------------------------------------------------------------------
Init ==
    /\ up = TRUE
    /\ disk = {}
    /\ slots = <<>>
    /\ claiming = {}
    /\ worker = [w \in Workers |-> NoRow]
    /\ link = [w \in Workers |-> NoSlot]
    /\ container = [p \in Processes |-> None]
    /\ mount = [w \in Workers |-> NoSlot]
    /\ launch = [w \in Workers |-> NoLaunch]
    /\ stop = [i \in StopCalls |-> NoStop]
    /\ exposed = {}
    /\ crashes = 0 /\ cancels = 0 /\ faults = 0 /\ stops = 0 /\ losses = 0

AcquireStep(w) ==
    \/ ClaimSlot(w) \/ RecycleSlot(w) \/ ScanSlots(w) \/ PrepareNewSlot(w)
    \/ InsertSlot(w) \/ ClaimNewSlot(w)

RunStep(w) ==
    \/ CheckoutBranch(w) \/ Prepare(w) \/ PreLaunchCleanup(w) \/ RecordProvisioningWorker(w)
    \/ RunContainer(w) \/ FinalizeWorkerLaunch(w) \/ LinkWorkerSlot(w) \/ PostLaunchSetup(w)

LaunchEnds(w) == LaunchFault(w) \/ RunFault(w) \/ FinalizeFault(w) \/ LaunchCancelled(w)

StopProgress(i) ==
    \/ StopContainer(i) \/ CleanSlot(i) \/ UnlinkWorkerSlot(i) \/ MarkStopped(i)

Next ==
    \/ \E w \in Workers : \/ \E p \in Processes : LaunchWorker(w, p)
                          \/ AcquireStep(w) \/ RunStep(w) \/ LaunchEnds(w)
    \/ \E i \in StopCalls : \/ \E w \in Workers : StopWorker(i, w)
                            \/ \E p \in Processes : StopUnrecordedByName(i, p)
                            \/ StopProgress(i) \/ StopFault(i)
    \/ Crash \/ Restart
    \/ \E s \in disk : LoseDirectory(s)
    \/ \E p \in Processes : LoseContainer(p)

Spec == Init /\ [][Next]_vars

\* builderd and the database answer every call, well or not.
Fairness == \A w \in Workers : WF_vars(AcquireStep(w) \/ RunStep(w))

-----------------------------------------------------------------------------
(* Properties. *)

\* Every variable has its type; a claimed launch and an active row name a slot.
TypeOK ==
    /\ up \in BOOLEAN
    /\ disk \subseteq SlotIndices
    /\ slots \in Seq(SlotIndices)
    /\ claiming \subseteq SlotIndices
    /\ worker \in [Workers -> WorkerRow \cup {NoRow}]
    /\ link \in [Workers -> SlotIndices \cup {NoSlot}]
    /\ container \in [Processes -> Workers \cup {None}]
    /\ mount \in [Workers -> SlotIndices \cup {NoSlot}]
    /\ launch \in [Workers -> Launch \cup {NoLaunch, Launched}]
    /\ stop \in [StopCalls -> [pc : StopPc, worker : Workers, row : WorkerRow] \cup {NoStop}]
    /\ exposed \subseteq SlotIndices
    /\ {crashes, cancels, faults, stops, losses} \subseteq Nat

\* pool_limit bounds the directories and the rows although acquire_slot reads
\* the directory listing, and clones, in two separate calls: launches that read
\* the same listing compete for the same name, and the clone admits one.
WithinLimit ==
    \A s \in disk \cup {slots[i] : i \in 1..Len(slots)} : s < PoolLimit

\* The claim set holds exactly the slots of the launches that own a SlotClaim,
\* each of one launch: no path out of a launch (success, error, cancellation,
\* crash) strands a claim or releases another launch's.
ClaimsExact ==
    /\ claiming = {launch[w].slot : w \in {u \in Workers : launch[u].claimed}}
    /\ \A u, w \in Workers : launch[u].claimed /\ launch[w].claimed /\ launch[u].slot = launch[w].slot
                                => u = w

\* No two live containers work in the same slot, unless that slot was claimed
\* from a stale candidate list or a container in it lost its protection (the
\* two gaps of the properties below): claim, link and status cover each other at
\* every hand-over from one launch to the next.
OneWorkerPerSlot ==
    \A u, w \in Workers : u # w /\ Alive(u) /\ Alive(w) /\ mount[u] = mount[w] => mount[u] \in exposed

\* A restart whose probes all answer gives back every slot that a crash left
\* linked to a worker without a container: the slot of each directory is free
\* again or held by a row whose container is there.
RestartRepairs ==
    [][~up /\ up' /\ faults' = faults =>
          \A s \in disk : /\ HasRow(s)'
                          /\ \/ Available(s)'
                             \/ \E w \in Workers : link'[w] = s /\ Alive(w)]_vars

\* A claim is always given back: a launch ends, one way or another, so no slot
\* stays out of the pool.
ClaimsReleased ==
    \A s \in 0..(PoolLimit - 1) : (s \in claiming) ~> (s \notin claiming)

\* What pool.rs says of the claim set: it "Prevents two concurrent acquire_slot
\* calls from selecting the same slot", so a slot being acquired is never in
\* use by another worker.
ClaimedNotLinked ==
    \A u, w \in Workers :
        u # w /\ launch[w].claimed => ~(Active(u) /\ link[u] = launch[w].slot)

\* What pool.rs says of slots: "All slots are exclusive", so one that the pool
\* would hand out has no container in it.
FreeSlotUnmounted ==
    \A i \in 1..Len(slots) : Available(slots[i]) /\ Claimable(slots[i])
        => \A w \in Workers : Alive(w) => mount[w] # slots[i]

\* The same of a stop: clean_slot discards whatever is in the directory, so it
\* runs only on a directory that no other worker is in, unless two workers were
\* let into it before.
CleanSafe ==
    [][\A i \in StopCalls, w \in Workers :
          /\ stop[i].pc = "clean" /\ stop'[i].pc = "unlink"
          /\ w # stop[i].worker /\ Alive(w) /\ mount[w] = stop[i].row.slot
          => mount[w] \in exposed]_vars

\* What pool.rs says of a cancelled or failed launch: "the slot returns to the
\* pool", so a directory without a row is one that some launch is preparing.
SlotReturnsToPool ==
    up => \A s \in disk : HasRow(s) \/ \E w \in Workers : InLaunch(w) /\ launch[w].slot = s
=============================================================================
