-------------------------- MODULE WorkerPoolProofs --------------------------
(***************************************************************************)
(* Proofs about the worker pool, for any set of workers, processes and     *)
(* stop requests, any pool limit and any number of crashes, cancelled      *)
(* launches, failing calls and lost directories or containers.             *)
(***************************************************************************)
EXTENDS WorkerPool, FiniteSetTheorems, WellFoundedInduction, TLAPS

-----------------------------------------------------------------------------
(* The inductive invariant. *)

\* Where a launch owns a SlotClaim.
ClaimPc == {"recycle", "checkout", "prepare", "cleanup", "record", "run", "finalize", "link",
            "setup"}

\* Where a launch knows its slot.
SlotPc == ClaimPc \cup {"clone", "insert", "claim_new"}

\* pool_limit bounds whatever may become a directory or a row.
LimitInv ==
    /\ WithinLimit
    /\ \A w \in Workers : /\ launch[w].slot < PoolLimit
                          /\ \A s \in launch[w].candidates : s < PoolLimit

\* What the step a launch is at says of its claim, its row, its link and its
\* container's mount.
LaunchInv ==
    \A w \in Workers :
        /\ launch[w].claimed <=> launch[w].pc \in ClaimPc
        /\ launch[w].pc \in SlotPc => launch[w].slot \in SlotIndices
        /\ launch[w].pc \notin {"setup", "over"} => link[w] = NoSlot
        /\ launch[w].pc \in {"finalize", "link", "setup"} => mount[w] = launch[w].slot
        /\ launch[w].pc \in {"link", "setup"} => ~worker[w].named
        /\ worker[w].named => link[w] = NoSlot
        /\ link[w] \in {NoSlot, mount[w]}

\* Nothing of a launch survives the server.
DownInv == ~up => \A w \in Workers : launch[w].pc \notin LaunchPc

\* A live container has a slot mounted.
MountInv == \A w \in Workers : Alive(w) => mount[w] \in SlotIndices

\* A live container that nothing protects has been seen.
Covered == Unprotected \subseteq exposed

\* A slot that is being acquired is linked to no active worker but the one it
\* is being acquired for.
ClaimLink ==
    \A v, w \in Workers :
        launch[v].claimed /\ Active(w) /\ link[w] = launch[v].slot /\ v # w
            => launch[v].slot \in exposed

\* Two active workers are linked to one slot only after such an overlap.
LinkExclusive ==
    \A v, w \in Workers :
        Active(v) /\ Active(w) /\ link[v] = link[w] /\ link[v] # NoSlot /\ v # w
            => link[v] \in exposed

IInv ==
    /\ TypeOK
    /\ LimitInv
    /\ LaunchInv
    /\ DownInv
    /\ MountInv
    /\ ClaimsExact
    /\ Covered
    /\ ClaimLink
    /\ LinkExclusive

-----------------------------------------------------------------------------
(* The records. *)

LEMMA LaunchTyped ==
    ASSUME TypeOK, NEW w \in Workers, launch[w].pc \in LaunchPc
    PROVE  launch[w] \in Launch
  <1>1. launch[w] \in Launch \cup {NoLaunch, Launched}
    BY DEF TypeOK
  <1>2. NoLaunch.pc \notin LaunchPc /\ Launched.pc \notin LaunchPc
    BY DEF NoLaunch, Launched, LaunchPc
  <1> QED
    BY <1>1, <1>2

LEMMA PcTyped ==
    ASSUME NEW l \in Launch, NEW pc \in LaunchPc
    PROVE  /\ [l EXCEPT !.pc = pc] \in Launch
           /\ [l EXCEPT !.pc = pc].pc = pc
           /\ [l EXCEPT !.pc = pc].slot = l.slot
           /\ [l EXCEPT !.pc = pc].claimed = l.claimed
           /\ [l EXCEPT !.pc = pc].candidates = l.candidates
           /\ [l EXCEPT !.pc = pc].process = l.process
  BY DEF Launch

LEMMA LaunchedFields ==
    /\ Launched.pc = "over" /\ Launched.slot = NoSlot /\ Launched.claimed = FALSE
    /\ Launched.candidates = {} /\ NoLaunch.pc = "none" /\ NoLaunch.slot = NoSlot
    /\ NoLaunch.claimed = FALSE /\ NoLaunch.candidates = {}
    /\ NoLaunch # Launched
  BY DEF Launched, NoLaunch

\* The launch of one worker goes to another step.
LEMMA Moved ==
    ASSUME TypeOK, NEW w \in Workers, launch[w].pc \in LaunchPc, NEW pc \in LaunchPc,
           launch' = [launch EXCEPT ![w].pc = pc]
    PROVE  /\ launch' \in [Workers -> Launch \cup {NoLaunch, Launched}]
           /\ launch'[w].pc = pc /\ launch'[w].slot = launch[w].slot
           /\ launch'[w].claimed = launch[w].claimed
           /\ launch'[w].candidates = launch[w].candidates
           /\ \A u \in Workers \ {w} : launch'[u] = launch[u]
  <1>1. launch[w] \in Launch
    BY LaunchTyped
  <1>2. /\ launch'[w] = [launch[w] EXCEPT !.pc = pc]
        /\ \A u \in Workers \ {w} : launch'[u] = launch[u]
        /\ launch' = [u \in Workers |-> IF u = w THEN launch'[w] ELSE launch[u]]
    BY DEF TypeOK
  <1>3. launch'[w] \in Launch
    BY <1>1, <1>2, PcTyped
  <1>4. launch' \in [Workers -> Launch \cup {NoLaunch, Launched}]
    BY <1>2, <1>3 DEF TypeOK
  <1> QED
    BY <1>1, <1>2, <1>4, PcTyped

\* The launch of one worker is over.
LEMMA Ended ==
    ASSUME TypeOK, NEW w \in Workers, launch' = [launch EXCEPT ![w] = Launched]
    PROVE  /\ launch' \in [Workers -> Launch \cup {NoLaunch, Launched}]
           /\ launch'[w] = Launched
           /\ \A u \in Workers \ {w} : launch'[u] = launch[u]
  BY DEF TypeOK

-----------------------------------------------------------------------------
(* What keeps the parts of the invariant. *)

Held(w, s) == Active(w) /\ link[w] = s /\ s # NoSlot
Owned(w, s) == launch[w].claimed /\ launch[w].slot = s

LEMMA Seen ==
    ASSUME Observe
    PROVE  Covered' /\ exposed \subseteq exposed' /\ \A s \in ClaimedStale' \ claiming : s \in exposed'
  BY DEF Observe, Covered

LEMMA SeenTyped ==
    ASSUME Observe, exposed \subseteq SlotIndices, MountInv', claiming' \subseteq SlotIndices
    PROVE  exposed' \subseteq SlotIndices
  BY DEF Observe, MountInv, Unprotected, ClaimedStale

LEMMA OverlapsKept ==
    ASSUME IInv, Observe,
           \A w \in Workers : \A s : Owned(w, s)' => Owned(w, s),
           \A w \in Workers : \A s : Held(w, s)' => Held(w, s)
    PROVE  ClaimLink' /\ LinkExclusive'
  <1>1. exposed \subseteq exposed'
    BY Seen
  <1>2. \A v \in Workers : launch[v].claimed => launch[v].slot # NoSlot
    BY DEF IInv, LaunchInv, SlotPc, SlotIndices, NoSlot
  <1>3. ClaimLink'
    BY <1>1, <1>2 DEF IInv, ClaimLink, Held, Owned
  <1>4. LinkExclusive'
    BY <1>1 DEF IInv, LinkExclusive, Held
  <1> QED
    BY <1>3, <1>4

LEMMA ClaimsKept ==
    ASSUME ClaimsExact, claiming' = claiming,
           \A w \in Workers : /\ launch'[w].claimed <=> launch[w].claimed
                              /\ launch[w].claimed => launch'[w].slot = launch[w].slot
    PROVE  ClaimsExact'
  BY DEF ClaimsExact

LEMMA ClaimsDropped ==
    ASSUME ClaimsExact, NEW w \in Workers, launch'[w] = Launched, claiming' = Released(w),
           \A u \in Workers \ {w} : launch'[u] = launch[u]
    PROVE  ClaimsExact'
  BY LaunchedFields DEF ClaimsExact, Released

LEMMA ClaimsTaken ==
    ASSUME ClaimsExact, NEW w \in Workers, NEW s, s \notin claiming,
           ~launch[w].claimed, launch'[w].claimed, launch'[w].slot = s,
           claiming' = claiming \cup {s},
           \A u \in Workers \ {w} : launch'[u] = launch[u]
    PROVE  ClaimsExact'
  BY DEF ClaimsExact

\* A new claim of a slot that an active worker is linked to is seen.
LEMMA OverlapsTaken ==
    ASSUME IInv, Observe, NEW w \in Workers, NEW s \in SlotIndices, s \notin claiming,
           launch'[w].slot = s, claiming' = claiming \cup {s},
           \A u \in Workers \ {w} : launch'[u] = launch[u],
           UNCHANGED <<worker, link>>
    PROVE  ClaimLink' /\ LinkExclusive'
  <1>1. exposed \subseteq exposed'
    BY Seen
  <1>2. \A u \in Workers : Active(u)' = Active(u)
    BY DEF Active
  <1>3. ASSUME NEW u \in Workers, Active(u), link[u] = s PROVE s \in exposed'
    <2>1. ~Available(s)'
      BY <1>2, <1>3 DEF Available
    <2> QED
      BY <2>1, Seen DEF ClaimedStale
  <1>4. ClaimLink'
    BY <1>1, <1>2, <1>3 DEF IInv, ClaimLink
  <1>5. LinkExclusive'
    BY <1>1, <1>2 DEF IInv, LinkExclusive
  <1> QED
    BY <1>4, <1>5

-----------------------------------------------------------------------------
(* Numbers. *)

LEMMA LeastExists ==
    ASSUME NEW T, T \subseteq Nat, T # {}
    PROVE  \E i \in T : \A j \in T : i <= j
  <1>1. PICK x \in T : \A y \in T : ~(<<y, x>> \in OpToRel(<, Nat))
    BY NatLessThanWellFounded, WFMin
  <1>2. \A y \in T : ~(y < x)
    <2>1. ASSUME NEW y \in T, y < x PROVE <<y, x>> \in OpToRel(<, Nat)
      BY <2>1 DEF OpToRel
    <2> QED
      BY <1>1, <2>1
  <1> QED
    BY <1>2

\* next_slot_index finds an index, and one below the limit.
LEMMA NextIndexBelowLimit ==
    ASSUME NEW S, S \subseteq SlotIndices, \A s \in S : s < PoolLimit,
           ~LimitReached(Cardinality(S))
    PROVE  NextSlotIndex(S) \in SlotIndices /\ NextSlotIndex(S) < PoolLimit
  <1> USE PoolLimitAssumption DEF SlotIndices
  <1>1. IsFiniteSet(S) /\ Cardinality(S) \in Nat
    BY FS_BoundedSetOfNaturals, FS_CardinalityType
  <1>2. Cardinality(S) < PoolLimit
    BY <1>1 DEF LimitReached
  <1>3. PICK i \in Nat \ S : \A j \in Nat \ S : i <= j
    <2>1. PoolLimit \in Nat \ S
      OBVIOUS
    <2>2. Nat \ S \subseteq Nat /\ Nat \ S # {}
      BY <2>1
    <2> QED
      BY <2>2, LeastExists
  <1>4. \A j \in 0..(i - 1) : j \in S
    BY <1>3
  <1>5. i <= Cardinality(S)
    <2>1. 0..(i - 1) \in SUBSET S
      BY <1>4
    <2>2. Cardinality(0..(i - 1)) = i
      BY FS_Interval
    <2> QED
      BY <1>1, <2>1, <2>2, FS_Subset
  <1>6. \E k \in 0..Cardinality(S) : k \notin S /\ \A j \in 0..(k - 1) : j \in S
    BY <1>1, <1>4, <1>5
  <1>7. NextSlotIndex(S) \in 0..Cardinality(S)
    BY <1>6 DEF NextSlotIndex
  <1> QED
    BY <1>1, <1>2, <1>7

-----------------------------------------------------------------------------
(* Steps that differ in little. *)

Tables == [Workers -> WorkerRow \cup {NoRow}]
Containers == [Processes -> Workers \cup {None}]
Links == [Workers -> SlotIndices \cup {NoSlot}]
CountersTyped == {crashes, cancels, faults, stops, losses} \subseteq Nat

\* A launch goes on, or ends and drops its claim; its row and its link stay or
\* are deleted together.
LEMMA LaunchMoves ==
    ASSUME IInv, Observe, NEW w \in Workers, launch[w].pc \in LaunchPc, up' = up, up,
           launch' \in [Workers -> Launch \cup {NoLaunch, Launched}],
           \A u \in Workers \ {w} : launch'[u] = launch[u],
           \/ launch'[w] = Launched /\ claiming' = Released(w)
           \/ /\ claiming' = claiming
              /\ launch'[w].claimed = launch[w].claimed
              /\ launch'[w].candidates = launch[w].candidates
              /\ launch[w].claimed => launch'[w].slot = launch[w].slot
              /\ launch'[w].slot < PoolLimit
              /\ launch'[w].pc \in LaunchPc \ {"finalize", "link", "setup"}
              /\ launch[w].pc \in LaunchPc \ {"finalize", "link", "setup"}
              /\ launch'[w].pc \in ClaimPc <=> launch[w].pc \in ClaimPc
              /\ launch'[w].pc \in SlotPc => launch'[w].slot \in SlotIndices
              /\ mount' = mount,
           \/ UNCHANGED <<worker, link>>
           \/ /\ launch'[w] = Launched
              /\ worker' = [worker EXCEPT ![w] = NoRow] /\ link' = [link EXCEPT ![w] = NoSlot],
           slots' \in Seq(SlotIndices), disk' \subseteq SlotIndices, WithinLimit',
           container' \in Containers, mount' \in Links, MountInv',
           \A u \in Workers : mount'[u] = mount[u] \/ (u = w /\ launch[w].pc = "run"),
           stop' = stop, CountersTyped'
    PROVE  IInv'
  <1> USE DEF Tables, Containers, Links
  <1>0. TypeOK /\ LaunchInv /\ ClaimsExact
    BY DEF IInv
  <1>1. /\ worker' \in Tables /\ link' \in Links
        /\ \A u \in Workers \ {w} : worker'[u] = worker[u] /\ link'[u] = link[u]
        /\ \/ worker'[w] = worker[w] /\ link'[w] = link[w]
           \/ launch'[w] = Launched /\ worker'[w] = NoRow /\ link'[w] = NoSlot
    BY <1>0 DEF TypeOK
  <1>2. claiming' \subseteq SlotIndices
    BY <1>0 DEF TypeOK, Released
  <1>3. exposed' \subseteq SlotIndices
    BY <1>0, <1>2, SeenTyped DEF TypeOK
  <1>4. TypeOK'
    BY <1>0, <1>1, <1>2, <1>3 DEF TypeOK, CountersTyped
  <1>5. LimitInv'
    <2>1. launch'[w].slot < PoolLimit /\ \A s \in launch'[w].candidates : s < PoolLimit
      BY LaunchedFields, PoolLimitAssumption DEF IInv, LimitInv, NoSlot
    <2> QED
      BY <2>1 DEF IInv, LimitInv
  <1>6. LaunchInv'
    <2> SUFFICES ASSUME NEW u \in Workers
                 PROVE  /\ launch'[u].claimed <=> launch'[u].pc \in ClaimPc
                        /\ launch'[u].pc \in SlotPc => launch'[u].slot \in SlotIndices
                        /\ launch'[u].pc \notin {"setup", "over"} => link'[u] = NoSlot
                        /\ launch'[u].pc \in {"finalize", "link", "setup"} => mount'[u] = launch'[u].slot
                        /\ launch'[u].pc \in {"link", "setup"} => ~worker'[u].named
                        /\ worker'[u].named => link'[u] = NoSlot
                        /\ link'[u] \in {NoSlot, mount'[u]}
      BY DEF LaunchInv
    <2>1. CASE u # w
      BY <1>0, <1>1, <2>1 DEF LaunchInv
    <2>2. CASE u = w /\ launch'[w] = Launched
      <3>1. NoRow.named = FALSE
        BY DEF NoRow
      <3>2. launch[w].pc = "run" => link[w] = NoSlot
        BY <1>0 DEF LaunchInv
      <3> QED
        BY <1>0, <1>1, <2>2, <3>1, <3>2, LaunchedFields DEF LaunchInv, ClaimPc, SlotPc
    <2>3. CASE u = w /\ launch'[w] # Launched
      BY <1>0, <1>1, <2>3 DEF LaunchInv, LaunchPc
    <2> QED
      BY <2>1, <2>2, <2>3
  <1>7. DownInv'
    BY DEF DownInv
  <1>8. ClaimsExact'
    <2>1. CASE launch'[w] = Launched /\ claiming' = Released(w)
      BY <1>0, <2>1, ClaimsDropped
    <2>2. CASE ~(launch'[w] = Launched /\ claiming' = Released(w))
      BY <1>0, <2>2, ClaimsKept
    <2> QED
      BY <2>1, <2>2
  <1>9. ClaimLink' /\ LinkExclusive'
    <2>1. \A u \in Workers : \A s : Owned(u, s)' => Owned(u, s)
      BY LaunchedFields DEF Owned
    <2>2. \A u \in Workers : \A s : Held(u, s)' => Held(u, s)
      BY <1>1 DEF Held, Active, NoRow
    <2> QED
      BY <2>1, <2>2, OverlapsKept
  <1> QED
    BY <1>4, <1>5, <1>6, <1>7, <1>8, <1>9, Seen DEF IInv

\* No launch moves: a row is marked stopped, a link, a container or a directory
\* goes, or none of it.
LEMMA LaunchesStay ==
    ASSUME IInv, Observe, UNCHANGED <<up, launch, claiming, mount, slots>>,
           disk' \subseteq disk,
           container' \in Containers,
           \A p \in Processes : container'[p] \in {None, container[p]},
           link' \in Links, \A w \in Workers : link'[w] \in {NoSlot, link[w]},
           worker' \in Tables,
           \A w \in Workers : /\ Active(w)' => Active(w)
                              /\ worker'[w].named <=> worker[w].named,
           stop' \in [StopCalls -> [pc : StopPc, worker : Workers, row : WorkerRow] \cup {NoStop}],
           CountersTyped'
    PROVE  IInv'
  <1> USE DEF Tables, Containers, Links
  <1>0. TypeOK /\ LaunchInv /\ ClaimsExact
    BY DEF IInv
  <1>1. MountInv'
    BY NamesAssumption DEF IInv, MountInv, Alive
  <1>2. exposed' \subseteq SlotIndices
    BY <1>0, <1>1, SeenTyped DEF TypeOK
  <1>3. TypeOK'
    BY <1>0, <1>2 DEF TypeOK, CountersTyped
  <1>4. LimitInv' /\ LaunchInv' /\ DownInv'
    BY <1>0 DEF IInv, LimitInv, WithinLimit, LaunchInv, DownInv
  <1>5. ClaimsExact'
    BY <1>0, ClaimsKept
  <1>6. ClaimLink' /\ LinkExclusive'
    <2>1. \A u \in Workers : \A s : Owned(u, s)' => Owned(u, s)
      BY DEF Owned
    <2>2. \A u \in Workers : \A s : Held(u, s)' => Held(u, s)
      BY DEF Held
    <2> QED
      BY <2>1, <2>2, OverlapsKept
  <1> QED
    BY <1>1, <1>3, <1>4, <1>5, <1>6, Seen DEF IInv

-----------------------------------------------------------------------------
(* The steps of a launch. *)

LEMMA LimitKept == ASSUME IInv, UNCHANGED <<disk, slots>> PROVE WithinLimit'
  BY DEF IInv, LimitInv, WithinLimit

LEMMA MountKept ==
    ASSUME IInv, mount' = mount, \A p \in Processes : container'[p] \in {None, container[p]}
    PROVE  MountInv'
  BY NamesAssumption DEF IInv, MountInv, Alive

LEMMA CountersKept == ASSUME IInv, UNCHANGED counters PROVE CountersTyped'
  BY DEF IInv, TypeOK, CountersTyped, counters

LEMMA PlainMove ==
    ASSUME IInv, Observe, NEW w \in Workers, NEW pc \in LaunchPc \ {"finalize", "link", "setup"},
           launch[w].pc \in LaunchPc \ {"finalize", "link", "setup"},
           launch' = [launch EXCEPT ![w].pc = pc],
           pc \in ClaimPc <=> launch[w].pc \in ClaimPc,
           pc \in SlotPc => launch[w].pc \in SlotPc,
           up, UNCHANGED <<up, claiming, stop, worker, link, mount, counters>>,
           slots' \in Seq(SlotIndices), disk' \subseteq SlotIndices, WithinLimit',
           container' \in Containers, \A p \in Processes : container'[p] \in {None, container[p]}
    PROVE  IInv'
  <1>0. TypeOK /\ LaunchInv /\ LimitInv /\ mount \in Links
    BY DEF IInv, TypeOK, Links
  <1>1. /\ launch' \in [Workers -> Launch \cup {NoLaunch, Launched}]
        /\ launch'[w].pc = pc /\ launch'[w].slot = launch[w].slot
        /\ launch'[w].claimed = launch[w].claimed
        /\ launch'[w].candidates = launch[w].candidates
        /\ \A u \in Workers \ {w} : launch'[u] = launch[u]
    BY <1>0, Moved
  <1>2. pc \in SlotPc => launch'[w].slot \in SlotIndices
    BY <1>0, <1>1 DEF LaunchInv
  <1>3. launch'[w].slot < PoolLimit
    BY <1>0, <1>1 DEF LimitInv
  <1> QED
    BY <1>0, <1>1, <1>2, <1>3, MountKept, CountersKept, LaunchMoves

LEMMA PlainFail ==
    ASSUME IInv, Observe, NEW w \in Workers, launch[w].pc \in LaunchPc, Fails(w),
           up, UNCHANGED <<up, stop, slots>>, CountersTyped',
           \/ UNCHANGED <<worker, link>>
           \/ worker' = [worker EXCEPT ![w] = NoRow] /\ link' = [link EXCEPT ![w] = NoSlot],
           disk' \subseteq SlotIndices, \A s \in disk' : s < PoolLimit,
           container' \in Containers, mount' \in Links, MountInv',
           \A u \in Workers : mount'[u] = mount[u] \/ (u = w /\ launch[w].pc = "run")
    PROVE  IInv'
  <1>0. TypeOK /\ WithinLimit /\ slots \in Seq(SlotIndices)
    BY DEF IInv, TypeOK, LimitInv
  <1>1. /\ launch' \in [Workers -> Launch \cup {NoLaunch, Launched}]
        /\ launch'[w] = Launched /\ claiming' = Released(w)
        /\ \A u \in Workers \ {w} : launch'[u] = launch[u]
    BY <1>0, Ended DEF Fails
  <1>2. WithinLimit'
    BY <1>0 DEF WithinLimit
  <1> QED
    BY <1>0, <1>1, <1>2, LaunchMoves

LEMMA EffectsTyped ==
    ASSUME IInv, NEW W \in SUBSET Workers, MayTakeEffect(W)
    PROVE  /\ disk' \subseteq SlotIndices /\ \A s \in disk' : s < PoolLimit
           /\ container' \in Containers /\ mount' \in Links /\ MountInv'
           /\ \A u \in Workers : mount'[u] = mount[u] \/ (u \in W /\ launch[u].pc = "run")
  <1>0. TypeOK /\ LaunchInv /\ LimitInv /\ MountInv
    BY DEF IInv
  <1>1. \A w \in Workers : launch[w].pc \in {"clone", "recycle", "run"} =>
           launch[w].slot \in SlotIndices /\ launch[w].slot < PoolLimit
    BY <1>0 DEF LaunchInv, LimitInv, SlotPc, ClaimPc
  <1>2. disk' \subseteq SlotIndices /\ \A s \in disk' : s < PoolLimit
    <2>1. PICK cloned \in SUBSET {w \in W : launch[w].pc \in {"clone", "recycle"}},
               removed \in SUBSET W :
            disk' = (disk \ {launch[w].slot : w \in removed}) \cup {launch[w].slot : w \in cloned}
      BY DEF MayTakeEffect
    <2> QED
      BY <1>0, <1>1, <2>1 DEF TypeOK, LimitInv, WithinLimit
  <1>3. PICK ran \in SUBSET {w \in W : launch[w].pc = "run"} : Start(ran)
    BY DEF MayTakeEffect
  <1>4. \A p \in Processes : container'[p] \in ran \cup {container[p]}
    BY <1>3 DEF Start
  <1>5. container' \in Containers
    BY <1>0, <1>3, <1>4 DEF Start, Containers, TypeOK
  <1>6. /\ mount' \in Links
        /\ \A u \in ran : mount'[u] = launch[u].slot
        /\ \A u \in Workers \ ran : mount'[u] = mount[u]
    BY <1>0, <1>1, <1>3 DEF Start, Links, TypeOK
  <1>7. MountInv'
    BY <1>0, <1>1, <1>4, <1>6 DEF MountInv, Alive
  <1> QED
    BY <1>2, <1>5, <1>6, <1>7

LEMMA LaunchWorkerStep ==
    ASSUME IInv, NEW w \in Workers, NEW p \in Processes, LaunchWorker(w, p) PROVE IInv'
  <1> USE DEF IInv
  <1>1. /\ Observe /\ launch[w] = NoLaunch
        /\ UNCHANGED <<up, claiming, stop, slots, worker, link, disk, container, mount, counters>>
    BY DEF LaunchWorker, tables, host
  <1>2. FindAvailableSlots \subseteq SlotIndices /\ \A s \in FindAvailableSlots : s < PoolLimit
    BY DEF FindAvailableSlots, TypeOK, LimitInv, WithinLimit
  <1>3. /\ launch'[w] = [pc |-> "found", process |-> p, candidates |-> FindAvailableSlots,
                         slot |-> NoSlot, claimed |-> FALSE]
        /\ \A u \in Workers \ {w} : launch'[u] = launch[u]
        /\ launch' = [u \in Workers |-> IF u = w THEN launch'[w] ELSE launch[u]]
    BY DEF LaunchWorker, NoLaunch, TypeOK
  <1>4. /\ launch'[w].pc = "found" /\ launch'[w].slot = NoSlot /\ launch'[w].claimed = FALSE
        /\ launch'[w].candidates = FindAvailableSlots
    BY <1>3
  <1>5. launch'[w] \in Launch
    BY <1>2, <1>3 DEF Launch, LaunchPc
  <1>6. MountInv'
    BY <1>1, MountKept
  <1>7. exposed' \subseteq SlotIndices
    BY <1>1, <1>6, SeenTyped DEF TypeOK
  <1>8. TypeOK'
    BY <1>1, <1>3, <1>5, <1>7 DEF TypeOK, counters
  <1>9. LimitInv'
    BY <1>1, <1>2, <1>3, <1>4, PoolLimitAssumption DEF LimitInv, WithinLimit, NoSlot
  <1>10. LaunchInv'
    BY <1>1, <1>3, <1>4, LaunchedFields DEF LaunchInv, ClaimPc, SlotPc
  <1>11. DownInv'
    BY <1>1 DEF DownInv, LaunchWorker
  <1>12. ClaimsExact'
    BY <1>1, <1>3, <1>4, LaunchedFields, ClaimsKept
  <1>13. ClaimLink' /\ LinkExclusive'
    <2>1. \A u \in Workers : \A s : Owned(u, s)' => Owned(u, s)
      BY <1>3, <1>4 DEF Owned
    <2>2. \A u \in Workers : \A s : Held(u, s)' => Held(u, s)
      BY <1>1 DEF Held, Active
    <2> QED
      BY <1>1, <2>1, <2>2, OverlapsKept
  <1> QED
    BY <1>1, <1>6, <1>8, <1>9, <1>10, <1>11, <1>12, <1>13, Seen

\* A launch takes a slot that no other launch has claimed.
LEMMA SlotTaken ==
    ASSUME IInv, Observe, NEW w \in Workers, NEW s \in SlotIndices, s < PoolLimit, s \notin claiming,
           NEW pc \in {"recycle", "checkout"},
           launch[w].pc \in LaunchPc, ~launch[w].claimed,
           \/ launch' = [launch EXCEPT ![w].pc = pc, ![w].slot = s, ![w].claimed = TRUE]
           \/ launch[w].slot = s /\ launch' = [launch EXCEPT ![w].pc = pc, ![w].claimed = TRUE],
           claiming' = claiming \cup {s},
           up, UNCHANGED <<up, stop, slots, worker, link, disk, container, mount, counters>>
    PROVE  IInv'
  <1> USE DEF IInv
  <1>1. /\ launch'[w] = [pc |-> pc, process |-> launch[w].process,
                         candidates |-> launch[w].candidates, slot |-> s, claimed |-> TRUE]
        /\ \A u \in Workers \ {w} : launch'[u] = launch[u]
        /\ launch' = [u \in Workers |-> IF u = w THEN launch'[w] ELSE launch[u]]
    <2>1. launch[w] \in Launch
      BY LaunchTyped
    <2>2. \/ launch'[w] = [launch[w] EXCEPT !.pc = pc, !.slot = s, !.claimed = TRUE]
          \/ launch[w].slot = s /\ launch'[w] = [launch[w] EXCEPT !.pc = pc, !.claimed = TRUE]
      BY DEF TypeOK
    <2>3. launch'[w] = [pc |-> pc, process |-> launch[w].process,
                        candidates |-> launch[w].candidates, slot |-> s, claimed |-> TRUE]
      BY <2>1, <2>2 DEF Launch
    <2> QED
      BY <2>3 DEF TypeOK
  <1>2. /\ launch'[w].pc = pc /\ launch'[w].slot = s /\ launch'[w].claimed
        /\ launch'[w].candidates = launch[w].candidates
    BY <1>1
  <1>3. launch'[w] \in Launch
    BY <1>1, LaunchTyped DEF Launch, LaunchPc
  <1>4. MountInv'
    BY MountKept
  <1>5. exposed' \subseteq SlotIndices
    BY <1>4, SeenTyped DEF TypeOK
  <1>6. TypeOK'
    BY <1>1, <1>3, <1>5 DEF TypeOK, counters
  <1>7. LimitInv'
    BY <1>1, <1>2 DEF LimitInv, WithinLimit
  <1>8. launch[w].pc \notin {"setup", "over"}
    BY DEF LaunchInv, ClaimPc, LaunchPc
  <1>9. LaunchInv'
    BY <1>1, <1>2, <1>8 DEF LaunchInv, ClaimPc, SlotPc
  <1>10. DownInv'
    BY DEF DownInv
  <1>11. ClaimsExact'
    BY <1>1, <1>2, ClaimsTaken
  <1>12. ClaimLink' /\ LinkExclusive'
    BY <1>1, <1>2, OverlapsTaken
  <1> QED
    BY <1>4, <1>6, <1>7, <1>9, <1>10, <1>11, <1>12, Seen

LEMMA ClaimSlotStep == ASSUME IInv, NEW w \in Workers, ClaimSlot(w) PROVE IInv'
  <1> DEFINE free == {i \in 1..Len(slots) : slots[i] \in launch[w].candidates /\ Claimable(slots[i])}
             first == CHOOSE i \in free : \A j \in free : i <= j
  <1>1. /\ Observe /\ up /\ launch[w].pc = "found"
        /\ UNCHANGED <<up, stop, slots, worker, link, disk, container, mount, counters>>
    BY DEF ClaimSlot, tables, host
  <1>2. TypeOK /\ LaunchInv /\ LimitInv /\ container \in Containers
    BY DEF IInv, TypeOK, Containers
  <1>3. CASE free = {}
    <2>1. launch' = [launch EXCEPT ![w].pc = "scan"] /\ claiming' = claiming
      BY <1>3 DEF ClaimSlot
    <2>2. slots' \in Seq(SlotIndices) /\ disk' \subseteq SlotIndices /\ WithinLimit'
      BY <1>1, <1>2, LimitKept DEF TypeOK
    <2>3. "scan" \notin ClaimPc \cup SlotPc /\ "found" \notin ClaimPc
      BY DEF ClaimPc, SlotPc
    <2> QED
      BY <1>1, <1>2, <2>1, <2>2, <2>3, PlainMove DEF LaunchPc
  <1>4. CASE free # {}
    <2>1. first \in free
      <3>1. free \subseteq Nat
        BY <1>2 DEF TypeOK
      <3>2. \E i \in free : \A j \in free : i <= j
        <4> HIDE DEF free
        <4> QED
          BY <1>4, <3>1, LeastExists
      <3> QED
        BY <3>2
    <2>2. /\ launch' = [launch EXCEPT ![w].pc = "recycle", ![w].slot = slots[first],
                                      ![w].claimed = TRUE]
          /\ claiming' = claiming \cup {slots[first]}
      BY <1>4 DEF ClaimSlot
    <2>3. /\ slots[first] \in SlotIndices /\ slots[first] < PoolLimit
          /\ slots[first] \notin claiming
      BY <1>2, <2>1 DEF TypeOK, LimitInv, WithinLimit, Claimable
    <2>4. ~launch[w].claimed /\ launch[w].pc \in LaunchPc
      BY <1>1, <1>2 DEF LaunchInv, ClaimPc, LaunchPc
    <2> QED
      BY <1>1, <2>2, <2>3, <2>4, SlotTaken
  <1> QED
    BY <1>3, <1>4

LEMMA ClaimNewSlotStep == ASSUME IInv, NEW w \in Workers, ClaimNewSlot(w) PROVE IInv'
  <1>1. /\ Observe /\ up /\ launch[w].pc = "claim_new"
        /\ UNCHANGED <<up, stop, slots, worker, link, disk, container, mount, counters>>
    BY DEF ClaimNewSlot, tables, host
  <1>2. TypeOK /\ LaunchInv /\ LimitInv /\ container \in Containers /\ mount \in Links
    BY DEF IInv, TypeOK, Containers, Links
  <1>3. CASE Claimable(launch[w].slot)
    <2>1. /\ launch[w].slot \in SlotIndices /\ launch[w].slot < PoolLimit
          /\ ~launch[w].claimed /\ launch[w].pc \in LaunchPc
      BY <1>1, <1>2 DEF LaunchInv, LimitInv, ClaimPc, SlotPc, LaunchPc
    <2> QED
      BY <1>1, <1>3, <2>1, SlotTaken DEF ClaimNewSlot, Claimable
  <1>4. CASE ~Claimable(launch[w].slot)
    <2>1. disk' \subseteq SlotIndices /\ \A s \in disk' : s < PoolLimit
      BY <1>1, <1>2 DEF TypeOK, LimitInv, WithinLimit
    <2>2. Fails(w) /\ launch[w].pc \in LaunchPc
      BY <1>1, <1>4 DEF ClaimNewSlot, LaunchPc
    <2> QED
      BY <1>1, <1>2, <2>1, <2>2, MountKept, CountersKept, PlainFail
  <1> QED
    BY <1>3, <1>4

LEMMA AcquireStepStep == ASSUME IInv, NEW w \in Workers, AcquireStep(w) PROVE IInv'
  <1>0. /\ TypeOK /\ LaunchInv /\ LimitInv /\ container \in Containers /\ mount \in Links
        /\ disk \subseteq SlotIndices /\ slots \in Seq(SlotIndices) /\ WithinLimit
        /\ \A s \in disk : s < PoolLimit
    BY DEF IInv, TypeOK, LimitInv, WithinLimit, Containers, Links
  <1>1. CASE RecycleSlot(w)
    <2>1. /\ Observe /\ up /\ launch[w].pc = "recycle"
          /\ launch' = [launch EXCEPT ![w].pc = "checkout"]
          /\ disk' = disk \cup {launch[w].slot}
          /\ UNCHANGED <<up, claiming, stop, slots, worker, link, container, mount, counters>>
      BY <1>1 DEF RecycleSlot, LaunchStep, tables
    <2>2. launch[w].slot \in SlotIndices /\ launch[w].slot < PoolLimit
      BY <1>0, <2>1 DEF LaunchInv, LimitInv, SlotPc, ClaimPc
    <2>3. disk' \subseteq SlotIndices /\ WithinLimit'
      BY <1>0, <2>1, <2>2 DEF WithinLimit
    <2> QED
      BY <1>0, <2>1, <2>3, PlainMove DEF LaunchPc, ClaimPc, SlotPc
  <1>2. CASE ScanSlots(w)
    <2>1. /\ Observe /\ up /\ launch[w].pc = "scan" /\ launch[w].pc \in LaunchPc
          /\ UNCHANGED <<up, stop, slots, worker, link, disk, container, mount, counters>>
      BY <1>2 DEF ScanSlots, tables, host, LaunchPc
    <2>2. CASE LimitReached(Cardinality(disk))
      <3>1. Fails(w)
        BY <1>2, <2>2 DEF ScanSlots
      <3> QED
        BY <1>0, <2>1, <3>1, MountKept, CountersKept, PlainFail
    <2>3. CASE ~LimitReached(Cardinality(disk))
      <3> PICK s : s = NextSlotIndex(disk)
        OBVIOUS
      <3>1. s \in SlotIndices /\ s < PoolLimit
        BY <1>0, <2>3, NextIndexBelowLimit
      <3>2. launch' = [launch EXCEPT ![w].pc = "clone", ![w].slot = s] /\ claiming' = claiming
        BY <1>2, <2>3 DEF ScanSlots
      <3>3. launch[w] \in Launch
        BY <1>0, <2>1, LaunchTyped
      <3>4. /\ launch'[w] = [launch[w] EXCEPT !.pc = "clone", !.slot = s]
            /\ \A u \in Workers \ {w} : launch'[u] = launch[u]
            /\ launch' = [u \in Workers |-> IF u = w THEN launch'[w] ELSE launch[u]]
        BY <1>0, <3>2 DEF TypeOK
      <3>5. /\ launch'[w] \in Launch
            /\ launch'[w].pc = "clone" /\ launch'[w].slot = s
            /\ launch'[w].claimed = launch[w].claimed
            /\ launch'[w].candidates = launch[w].candidates
        BY <3>1, <3>3, <3>4 DEF Launch, LaunchPc
      <3>6. launch' \in [Workers -> Launch \cup {NoLaunch, Launched}]
        BY <1>0, <3>4, <3>5 DEF TypeOK
      <3>7. ~launch[w].claimed
        BY <1>0, <2>1 DEF LaunchInv, ClaimPc
      <3>8. "clone" \notin ClaimPc /\ "scan" \notin ClaimPc
            /\ "clone" \in LaunchPc \ {"finalize", "link", "setup"}
            /\ "scan" \in LaunchPc \ {"finalize", "link", "setup"}
        BY DEF ClaimPc, LaunchPc
      <3>9. WithinLimit'
        BY <2>1, LimitKept
      <3> QED
        BY <1>0, <2>1, <3>1, <3>2, <3>4, <3>5, <3>6, <3>7, <3>8, <3>9, MountKept, CountersKept, LaunchMoves
    <2> QED
      BY <2>2, <2>3
  <1>3. CASE PrepareNewSlot(w)
    <2>1. /\ Observe /\ up /\ launch[w].pc = "clone" /\ launch[w].pc \in LaunchPc
          /\ disk' = disk \cup {launch[w].slot}
          /\ UNCHANGED <<up, stop, slots, worker, link, container, mount, counters>>
      BY <1>3 DEF PrepareNewSlot, tables, LaunchPc
    <2>2. launch[w].slot \in SlotIndices /\ launch[w].slot < PoolLimit
      BY <1>0, <2>1 DEF LaunchInv, LimitInv, SlotPc
    <2>3. disk' \subseteq SlotIndices /\ WithinLimit' /\ \A s \in disk' : s < PoolLimit
      BY <1>0, <2>1, <2>2 DEF WithinLimit
    <2>4. CASE launch[w].slot \in disk
      <3>1. Fails(w)
        BY <1>3, <2>4 DEF PrepareNewSlot
      <3> QED
        BY <1>0, <2>1, <2>3, <3>1, MountKept, CountersKept, PlainFail
    <2>5. CASE launch[w].slot \notin disk
      <3>1. launch' = [launch EXCEPT ![w].pc = "insert"] /\ claiming' = claiming
        BY <1>3, <2>5 DEF PrepareNewSlot
      <3> QED
        BY <1>0, <2>1, <2>3, <3>1, PlainMove DEF LaunchPc, ClaimPc, SlotPc
    <2> QED
      BY <2>4, <2>5
  <1>4. CASE InsertSlot(w)
    <2>1. /\ Observe /\ up /\ launch[w].pc = "insert" /\ launch[w].pc \in LaunchPc
          /\ UNCHANGED <<up, stop, worker, link, disk, container, mount, counters>>
      BY <1>4 DEF InsertSlot, host, LaunchPc
    <2>2. launch[w].slot \in SlotIndices /\ launch[w].slot < PoolLimit
      BY <1>0, <2>1 DEF LaunchInv, LimitInv, SlotPc
    <2>3. CASE HasRow(launch[w].slot)
      <3>1. Fails(w) /\ slots' = slots
        BY <1>4, <2>3 DEF InsertSlot
      <3> QED
        BY <1>0, <2>1, <3>1, MountKept, CountersKept, PlainFail
    <2>4. CASE ~HasRow(launch[w].slot)
      <3>1. /\ slots' = Append(slots, launch[w].slot)
            /\ launch' = [launch EXCEPT ![w].pc = "claim_new"] /\ claiming' = claiming
        BY <1>4, <2>4 DEF InsertSlot
      <3>2. slots' \in Seq(SlotIndices)
        BY <1>0, <2>2, <3>1
      <3>3. \A i \in 1..Len(slots') : \/ i \in 1..Len(slots) /\ slots'[i] = slots[i]
                                      \/ slots'[i] = launch[w].slot
        BY <1>0, <2>2, <3>1
      <3>4. WithinLimit'
        BY <1>0, <2>1, <2>2, <3>3 DEF WithinLimit
      <3> QED
        BY <1>0, <2>1, <3>1, <3>2, <3>4, PlainMove DEF LaunchPc, ClaimPc, SlotPc
    <2> QED
      BY <2>3, <2>4
  <1> QED
    BY <1>1, <1>2, <1>3, <1>4, ClaimSlotStep, ClaimNewSlotStep DEF AcquireStep

\* A launch that works with its row, its container and its link.
LEMMA LateMove ==
    ASSUME IInv, Observe, NEW w \in Workers, NEW pc \in {"run", "finalize", "link", "setup"},
           launch[w].pc \in {"record", "run", "finalize", "link"},
           launch' = [launch EXCEPT ![w].pc = pc],
           up, UNCHANGED <<up, claiming, stop, slots, disk, counters>>,
           worker' \in Tables, link' \in Links, container' \in Containers, mount' \in Links, MountInv',
           \A u \in Workers \ {w} : /\ worker'[u] = worker[u] /\ link'[u] = link[u]
                                    /\ mount'[u] = mount[u],
           pc # "run" => mount'[w] = launch[w].slot,
           pc \in {"link", "setup"} => ~worker'[w].named,
           IF pc = "setup" THEN link'[w] = launch[w].slot ELSE link'[w] = NoSlot
    PROVE  IInv'
  <1> USE DEF IInv
  <1>1. /\ launch' \in [Workers -> Launch \cup {NoLaunch, Launched}]
        /\ launch'[w].pc = pc /\ launch'[w].slot = launch[w].slot
        /\ launch'[w].claimed = launch[w].claimed
        /\ launch'[w].candidates = launch[w].candidates
        /\ \A u \in Workers \ {w} : launch'[u] = launch[u]
    BY Moved DEF LaunchPc
  <1>2. launch[w].claimed /\ launch[w].slot \in SlotIndices
    BY DEF LaunchInv, ClaimPc, SlotPc
  <1>3. exposed' \subseteq SlotIndices
    BY SeenTyped DEF TypeOK
  <1>4. TypeOK'
    BY <1>1, <1>3 DEF TypeOK, counters, Tables, Links, Containers
  <1>5. LimitInv'
    BY <1>1 DEF LimitInv, WithinLimit
  <1>6. LaunchInv'
    BY <1>1, <1>2 DEF LaunchInv, ClaimPc, SlotPc
  <1>7. DownInv'
    BY DEF DownInv
  <1>8. ClaimsExact'
    BY <1>1, ClaimsKept
  <1>9. exposed \subseteq exposed'
    BY Seen
  <1>10. \A v \in Workers \ {w} : launch[v].claimed => launch[v].slot # launch[w].slot
    BY <1>2 DEF ClaimsExact
  <1>11. \A u \in Workers \ {w} : Active(u)' <=> Active(u)
    BY DEF Active
  <1>12. \A v \in Workers : launch[v].claimed => launch[v].slot # NoSlot
    BY DEF LaunchInv, SlotPc, SlotIndices, NoSlot
  <1>13. ClaimLink'
    <2> SUFFICES ASSUME NEW v \in Workers, NEW u \in Workers, launch'[v].claimed, Active(u)',
                        link'[u] = launch'[v].slot, v # u
                 PROVE  launch'[v].slot \in exposed'
      BY DEF ClaimLink
    <2>1. launch[v].claimed /\ launch'[v].slot = launch[v].slot
      BY <1>1
    <2>2. CASE u = w
      BY <1>10, <1>12, <2>1, <2>2
    <2>3. CASE u # w
      BY <1>9, <1>11, <2>1, <2>3 DEF ClaimLink
    <2> QED
      BY <2>2, <2>3
  <1>14. LinkExclusive'
    <2>1. ASSUME NEW u \in Workers \ {w}, Active(u), link[u] = link'[w], link'[w] # NoSlot
          PROVE  link[u] \in exposed'
      BY <1>2, <1>9, <2>1 DEF ClaimLink
    <2> QED
      BY <1>9, <1>11, <2>1 DEF LinkExclusive
  <1> QED
    BY <1>4, <1>5, <1>6, <1>7, <1>8, <1>13, <1>14, Seen

LEMMA RunStepStep == ASSUME IInv, NEW w \in Workers, RunStep(w) PROVE IInv'
  <1>0. /\ TypeOK /\ LaunchInv /\ LimitInv /\ container \in Containers /\ mount \in Links
        /\ worker \in Tables /\ link \in Links
        /\ disk \subseteq SlotIndices /\ slots \in Seq(SlotIndices) /\ WithinLimit
        /\ \A s \in disk : s < PoolLimit
    BY DEF IInv, TypeOK, LimitInv, WithinLimit, Containers, Links, Tables
  <1>1. CASE CheckoutBranch(w)
    <2>1. /\ Observe /\ up /\ launch[w].pc = "checkout" /\ launch[w].pc \in LaunchPc
          /\ UNCHANGED <<up, stop, slots, worker, link, disk, container, mount, counters>>
          /\ \/ Fails(w)
             \/ launch' = [launch EXCEPT ![w].pc = "prepare"] /\ claiming' = claiming
      BY <1>1 DEF CheckoutBranch, tables, host, LaunchPc
    <2>2. CASE Fails(w)
      BY <1>0, <2>1, <2>2, MountKept, CountersKept, PlainFail
    <2>3. CASE ~Fails(w)
      BY <1>0, <2>1, <2>3, LimitKept, PlainMove DEF LaunchPc, ClaimPc, SlotPc
    <2> QED
      BY <2>2, <2>3
  <1>2. CASE Prepare(w)
    <2>1. /\ Observe /\ up /\ launch[w].pc = "prepare" /\ launch[w].pc \in LaunchPc
          /\ UNCHANGED <<up, stop, slots, worker, link, disk, container, mount, counters>>
          /\ \/ Fails(w)
             \/ launch' = [launch EXCEPT ![w].pc = "cleanup"] /\ claiming' = claiming
      BY <1>2 DEF Prepare, tables, host, LaunchPc
    <2>2. CASE Fails(w)
      BY <1>0, <2>1, <2>2, MountKept, CountersKept, PlainFail
    <2>3. CASE ~Fails(w)
      BY <1>0, <2>1, <2>3, LimitKept, PlainMove DEF LaunchPc, ClaimPc, SlotPc
    <2> QED
      BY <2>2, <2>3
  <1>3. CASE PreLaunchCleanup(w)
    <2>1. /\ Observe /\ up /\ launch[w].pc = "cleanup"
          /\ launch' = [launch EXCEPT ![w].pc = "record"]
          /\ UNCHANGED <<up, claiming, stop, slots, worker, link, disk, mount, counters>>
      BY <1>3 DEF PreLaunchCleanup, LaunchStep, tables
    <2>2. container' \in Containers /\ \A p \in Processes : container'[p] \in {None, container[p]}
      BY <1>0, <1>3 DEF PreLaunchCleanup, RemoveContainer, Containers
    <2> QED
      BY <1>0, <2>1, <2>2, LimitKept, PlainMove DEF LaunchPc, ClaimPc, SlotPc
  <1>4. CASE RecordProvisioningWorker(w)
    <2>1. /\ Observe /\ up /\ launch[w].pc = "record"
          /\ launch' = [launch EXCEPT ![w].pc = "run"]
          /\ UNCHANGED <<up, claiming, stop, slots, link, disk, container, mount, counters>>
      BY <1>4 DEF RecordProvisioningWorker, LaunchStep, host
    <2>2. launch[w].slot \in SlotIndices /\ launch[w].process \in Processes /\ link[w] = NoSlot
      BY <1>0, <2>1, LaunchTyped DEF LaunchInv, SlotPc, ClaimPc, Launch, LaunchPc
    <2>3. worker' \in Tables /\ \A u \in Workers \ {w} : worker'[u] = worker[u]
      BY <1>0, <1>4, <2>2 DEF RecordProvisioningWorker, Tables, WorkerRow
    <2> QED
      BY <1>0, <2>1, <2>2, <2>3, MountKept, LateMove
  <1>5. CASE RunContainer(w)
    <2>1. /\ Observe /\ up /\ launch[w].pc = "run" /\ launch[w].pc \in LaunchPc
          /\ UNCHANGED <<up, stop, slots, disk, counters>>
      BY <1>5 DEF RunContainer, LaunchPc
    <2>2. CASE CanRun(w)
      <3>1. /\ Start({w}) /\ launch' = [launch EXCEPT ![w].pc = "finalize"]
            /\ UNCHANGED <<claiming, worker, link>>
        BY <1>5, <2>2 DEF RunContainer
      <3>2. launch[w].slot \in SlotIndices /\ link[w] = NoSlot
        BY <1>0, <2>1 DEF LaunchInv, SlotPc, ClaimPc
      <3>3. container' \in Containers /\ \A p \in Processes : container'[p] \in {w, container[p]}
        BY <1>0, <3>1 DEF Start, Containers
      <3>4. /\ mount' \in Links /\ mount'[w] = launch[w].slot
            /\ \A u \in Workers \ {w} : mount'[u] = mount[u]
        BY <1>0, <3>1, <3>2 DEF Start, Links
      <3>5. MountInv'
        BY <3>2, <3>3, <3>4 DEF IInv, MountInv, Alive
      <3> QED
        BY <1>0, <2>1, <3>1, <3>2, <3>3, <3>4, <3>5, LateMove
    <2>3. CASE ~CanRun(w)
      <3>1. /\ Fails(w) /\ worker' = [worker EXCEPT ![w] = NoRow]
            /\ link' = [link EXCEPT ![w] = NoSlot]
            /\ UNCHANGED <<container, mount>>
        BY <1>5, <2>3 DEF RunContainer
      <3> QED
        BY <1>0, <2>1, <3>1, MountKept, CountersKept, PlainFail
    <2> QED
      BY <2>2, <2>3
  <1>6. CASE FinalizeWorkerLaunch(w)
    <2>1. /\ Observe /\ up /\ launch[w].pc = "finalize" /\ worker[w] # NoRow
          /\ launch' = [launch EXCEPT ![w].pc = "link"]
          /\ worker' = [worker EXCEPT ![w].status = "running", ![w].named = FALSE]
          /\ UNCHANGED <<up, claiming, stop, slots, link, disk, container, mount, counters>>
      BY <1>6 DEF FinalizeWorkerLaunch, host
    <2>2. worker[w] \in WorkerRow
      BY <1>0, <2>1 DEF Tables
    <2>3. /\ worker'[w] = [worker[w] EXCEPT !.status = "running", !.named = FALSE]
          /\ \A u \in Workers \ {w} : worker'[u] = worker[u]
          /\ worker' = [u \in Workers |-> IF u = w THEN worker'[w] ELSE worker[u]]
      BY <1>0, <2>1 DEF Tables
    <2>4. worker'[w] \in WorkerRow /\ ~worker'[w].named
      BY <2>2, <2>3 DEF WorkerRow
    <2>5. worker' \in Tables
      BY <1>0, <2>3, <2>4 DEF Tables
    <2>6. link[w] = NoSlot /\ mount[w] = launch[w].slot
      BY <1>0, <2>1 DEF LaunchInv
    <2> QED
      BY <1>0, <2>1, <2>3, <2>4, <2>5, <2>6, MountKept, LateMove
  <1>7. CASE LinkWorkerSlot(w)
    <2>1. /\ Observe /\ up /\ launch[w].pc = "link"
          /\ launch' = [launch EXCEPT ![w].pc = "setup"]
          /\ link' = [link EXCEPT ![w] = launch[w].slot]
          /\ UNCHANGED <<up, claiming, stop, slots, worker, disk, container, mount, counters>>
      BY <1>7 DEF LinkWorkerSlot, LaunchStep, host
    <2>2. launch[w].slot \in SlotIndices /\ mount[w] = launch[w].slot /\ ~worker[w].named
      BY <1>0, <2>1 DEF LaunchInv, SlotPc, ClaimPc
    <2>3. link' \in Links /\ link'[w] = launch[w].slot /\ \A u \in Workers \ {w} : link'[u] = link[u]
      BY <1>0, <2>1, <2>2 DEF Links
    <2> QED
      BY <1>0, <2>1, <2>2, <2>3, MountKept, LateMove
  <1>8. CASE PostLaunchSetup(w)
    <2>1. /\ Observe /\ up /\ launch[w].pc = "setup" /\ launch[w].pc \in LaunchPc /\ Fails(w)
          /\ UNCHANGED <<up, stop, slots, worker, link, disk, container, mount, counters>>
      BY <1>8 DEF PostLaunchSetup, tables, host, LaunchPc
    <2> QED
      BY <1>0, <2>1, MountKept, CountersKept, PlainFail
  <1> QED
    BY <1>1, <1>2, <1>3, <1>4, <1>5, <1>6, <1>7, <1>8 DEF RunStep

LEMMA LaunchEndsStep == ASSUME IInv, NEW w \in Workers, LaunchEnds(w) PROVE IInv'
  <1>0. /\ TypeOK /\ container \in Containers /\ mount \in Links
        /\ disk \subseteq SlotIndices /\ \A s \in disk : s < PoolLimit
        /\ {crashes, cancels, faults, stops, losses} \subseteq Nat
    BY DEF IInv, TypeOK, LimitInv, WithinLimit, Containers, Links
  <1>1. CASE LaunchFault(w)
    <2>1. /\ Observe /\ up /\ launch[w].pc \in LaunchPc /\ Fails(w) /\ MayTakeEffect({w})
          /\ UNCHANGED <<up, stop, slots, worker, link>>
      BY <1>1 DEF LaunchFault, tables, FailsWithError, LaunchPc
    <2>2. CountersTyped'
      BY <1>0, <1>1 DEF LaunchFault, CountersTyped
    <2> QED
      BY <1>0, <2>1, <2>2, EffectsTyped, PlainFail
  <1>2. CASE RunFault(w)
    <2>1. /\ Observe /\ up /\ launch[w].pc \in LaunchPc /\ Fails(w) /\ MayTakeEffect({w})
          /\ worker' = [worker EXCEPT ![w] = NoRow] /\ link' = [link EXCEPT ![w] = NoSlot]
          /\ UNCHANGED <<up, stop, slots>>
      BY <1>2 DEF RunFault, LaunchPc
    <2>2. CountersTyped'
      BY <1>0, <1>2 DEF RunFault, CountersTyped
    <2>3. /\ disk' \subseteq SlotIndices /\ \A s \in disk' : s < PoolLimit
          /\ container' \in Containers /\ mount' \in Links /\ MountInv'
          /\ \A u \in Workers : mount'[u] = mount[u] \/ (u = w /\ launch[w].pc = "run")
      BY <2>1, EffectsTyped
    <2> QED
      BY <1>0, <2>1, <2>2, <2>3, PlainFail
  <1>3. CASE FinalizeFault(w)
    <2>1. /\ Observe /\ up /\ launch[w].pc \in LaunchPc /\ Fails(w)
          /\ worker' = [worker EXCEPT ![w] = NoRow] /\ link' = [link EXCEPT ![w] = NoSlot]
          /\ UNCHANGED <<up, stop, slots, disk, mount>>
      BY <1>3 DEF FinalizeFault, LaunchPc
    <2>2. CountersTyped'
      BY <1>0, <1>3 DEF FinalizeFault, CountersTyped
    <2>3. container' \in Containers /\ \A p \in Processes : container'[p] \in {None, container[p]}
      BY <1>0, <1>3 DEF FinalizeFault, Containers
    <2> QED
      BY <1>0, <2>1, <2>2, <2>3, MountKept, PlainFail
  <1>4. CASE LaunchCancelled(w)
    <2>1. /\ Observe /\ up /\ launch[w].pc \in LaunchPc /\ Fails(w) /\ MayTakeEffect({w})
          /\ UNCHANGED <<up, stop, slots, worker, link>>
      BY <1>4 DEF LaunchCancelled, tables, InLaunch
    <2>2. CountersTyped'
      BY <1>0, <1>4 DEF LaunchCancelled, CountersTyped
    <2> QED
      BY <1>0, <2>1, <2>2, EffectsTyped, PlainFail
  <1> QED
    BY <1>1, <1>2, <1>3, <1>4 DEF LaunchEnds

-----------------------------------------------------------------------------
(* Stops, losses, crash and restart. *)

Stops == [StopCalls -> [pc : StopPc, worker : Workers, row : WorkerRow] \cup {NoStop}]

LEMMA StopTyped ==
    ASSUME TypeOK, NEW i \in StopCalls, stop[i].pc \in StopPc
    PROVE  /\ stop[i] \in [pc : StopPc, worker : Workers, row : WorkerRow]
           /\ \A pc \in StopPc : [stop EXCEPT ![i].pc = pc] \in Stops
           /\ [stop EXCEPT ![i] = NoStop] \in Stops
  <1>1. stop[i] \in [pc : StopPc, worker : Workers, row : WorkerRow]
    BY DEF TypeOK, NoStop, StopPc
  <1>2. \A pc \in StopPc : [stop[i] EXCEPT !.pc = pc] \in [pc : StopPc, worker : Workers, row : WorkerRow]
    BY <1>1
  <1> QED
    BY <1>1, <1>2 DEF TypeOK, Stops

LEMMA StopStepStep ==
    ASSUME IInv, NEW i \in StopCalls,
           \/ \E w \in Workers : StopWorker(i, w)
           \/ \E p \in Processes : StopUnrecordedByName(i, p)
           \/ StopProgress(i) \/ StopFault(i)
    PROVE  IInv'
  <1>0. /\ TypeOK /\ container \in Containers /\ worker \in Tables /\ link \in Links
        /\ stop \in Stops
        /\ {crashes, cancels, faults, stops, losses} \subseteq Nat
    BY DEF IInv, TypeOK, Containers, Tables, Links, Stops
  <1>1. ASSUME NEW w \in Workers, StopWorker(i, w) PROVE IInv'
    <2>1. /\ Observe
          /\ UNCHANGED <<up, claiming, launch, slots, worker, link, disk, container, mount>>
      BY <1>1 DEF StopWorker, tables, host
    <2>2. CountersTyped'
      BY <1>0, <1>1 DEF StopWorker, CountersTyped
    <2>3. stop' \in Stops
      <3>1. worker[w] \in WorkerRow
        BY <1>0, <1>1 DEF StopWorker, Tables
      <3>2. [pc |-> "kill", worker |-> w, row |-> worker[w]]
               \in [pc : StopPc, worker : Workers, row : WorkerRow]
        BY <3>1 DEF StopPc
      <3> QED
        BY <1>0, <1>1, <3>2 DEF StopWorker, Stops
    <2> QED
      BY <1>0, <2>1, <2>2, <2>3, LaunchesStay DEF Stops, Active
  <1>2. ASSUME NEW p \in Processes, StopUnrecordedByName(i, p) PROVE IInv'
    <2>1. /\ Observe
          /\ UNCHANGED <<up, claiming, launch, slots, worker, link, disk, mount>>
      BY <1>2 DEF StopUnrecordedByName, tables
    <2>2. CountersTyped'
      BY <1>0, <1>2 DEF StopUnrecordedByName, CountersTyped
    <2>3. container' \in Containers /\ \A q \in Processes : container'[q] \in {None, container[q]}
      BY <1>0, <1>2 DEF StopUnrecordedByName, RemoveContainer, Containers
    <2>4. stop' \in Stops
      <3> PICK w \in Workers : w = container[p]
        BY <1>0, <1>2 DEF StopUnrecordedByName, Containers
      <3>1. CASE worker[w] # NoRow /\ ~worker[w].named
        <4>1. stop' = [stop EXCEPT ![i] = [pc |-> "kill", worker |-> w, row |-> worker[w]]]
          BY <1>2, <3>1 DEF StopUnrecordedByName
        <4>2. worker[w] \in WorkerRow
          BY <1>0, <3>1 DEF Tables
        <4>3. [pc |-> "kill", worker |-> w, row |-> worker[w]]
                 \in [pc : StopPc, worker : Workers, row : WorkerRow]
          BY <4>2 DEF StopPc
        <4> QED
          BY <1>0, <4>1, <4>3 DEF Stops
      <3>2. CASE ~(worker[w] # NoRow /\ ~worker[w].named)
        BY <1>0, <1>2, <3>2 DEF StopUnrecordedByName
      <3> QED
        BY <3>1, <3>2
    <2> QED
      BY <1>0, <2>1, <2>2, <2>3, <2>4, LaunchesStay DEF Stops, Active
  <1>3. CASE StopContainer(i)
    <2>1. /\ Observe /\ stop[i].pc \in StopPc
          /\ UNCHANGED <<up, claiming, launch, slots, worker, link, disk, mount, counters>>
      BY <1>3 DEF StopContainer, StopStep, tables, StopPc
    <2>2. container' \in Containers /\ \A q \in Processes : container'[q] \in {None, container[q]}
      BY <1>0, <1>3 DEF StopContainer, Containers
    <2>3. stop' \in Stops
      BY <1>0, <1>3, <2>1, StopTyped DEF StopContainer, StopStep, StopPc
    <2> QED
      BY <1>0, <2>1, <2>2, <2>3, CountersKept, LaunchesStay DEF Stops, Active
  <1>4. CASE CleanSlot(i)
    <2>1. /\ Observe /\ stop[i].pc \in StopPc
          /\ UNCHANGED <<up, claiming, launch, slots, worker, link, disk, container, mount, counters>>
      BY <1>4 DEF CleanSlot, StopStep, tables, host, StopPc
    <2>2. stop' \in Stops
      BY <1>0, <1>4, <2>1, StopTyped DEF CleanSlot, StopStep, StopPc
    <2> QED
      BY <1>0, <2>1, <2>2, CountersKept, LaunchesStay DEF Stops, Active
  <1>5. CASE UnlinkWorkerSlot(i)
    <2>1. /\ Observe /\ stop[i].pc \in StopPc
          /\ link' = [link EXCEPT ![stop[i].worker] = NoSlot]
          /\ UNCHANGED <<up, claiming, launch, slots, worker, disk, container, mount, counters>>
      BY <1>5 DEF UnlinkWorkerSlot, StopStep, host, StopPc
    <2>2. stop' \in Stops
      BY <1>0, <1>5, <2>1, StopTyped DEF UnlinkWorkerSlot, StopStep, StopPc
    <2>3. link' \in Links /\ \A w \in Workers : link'[w] \in {NoSlot, link[w]}
      BY <1>0, <2>1 DEF Links
    <2> QED
      BY <1>0, <2>1, <2>2, <2>3, CountersKept, LaunchesStay DEF Stops, Active
  <1>6. CASE MarkStopped(i)
    <2>1. /\ Observe /\ stop[i].pc \in StopPc /\ stop' = [stop EXCEPT ![i] = NoStop]
          /\ UNCHANGED <<up, claiming, launch, slots, link, disk, container, mount, counters>>
      BY <1>6 DEF MarkStopped, host, StopPc
    <2>2. stop' \in Stops
      BY <1>0, <2>1, StopTyped
    <2> PICK w \in Workers : w = stop[i].worker
      BY <1>0, <2>1, StopTyped
    <2>3. /\ worker' \in Tables
          /\ \A u \in Workers : (Active(u)' => Active(u)) /\ (worker'[u].named <=> worker[u].named)
      <3>1. CASE worker[w] = NoRow
        BY <1>0, <1>6, <3>1 DEF MarkStopped, Active
      <3>2. CASE worker[w] # NoRow
        <4>1. worker[w] \in WorkerRow
          BY <1>0, <3>2 DEF Tables
        <4>2. /\ worker'[w] = [worker[w] EXCEPT !.status = "stopped"]
              /\ \A u \in Workers \ {w} : worker'[u] = worker[u]
              /\ worker' = [u \in Workers |-> IF u = w THEN worker'[w] ELSE worker[u]]
          BY <1>0, <1>6, <3>2 DEF MarkStopped, Tables
        <4>3. /\ worker'[w] \in WorkerRow /\ worker'[w].status = "stopped"
              /\ worker'[w].named = worker[w].named
          BY <4>1, <4>2 DEF WorkerRow
        <4> QED
          BY <1>0, <4>2, <4>3 DEF Tables, Active
      <3> QED
        BY <3>1, <3>2
    <2> QED
      BY <1>0, <2>1, <2>2, <2>3, CountersKept, LaunchesStay DEF Stops
  <1>7. CASE StopFault(i)
    <2>1. /\ Observe /\ stop[i].pc \in StopPc /\ stop' = [stop EXCEPT ![i] = NoStop]
          /\ UNCHANGED <<up, claiming, launch, slots, worker, link, disk, container, mount>>
      BY <1>7 DEF StopFault, tables, host, StopPc
    <2>2. CountersTyped'
      BY <1>0, <1>7 DEF StopFault, CountersTyped
    <2>3. stop' \in Stops
      BY <1>0, <2>1, StopTyped
    <2> QED
      BY <1>0, <2>1, <2>2, <2>3, LaunchesStay DEF Stops, Active
  <1> QED
    BY <1>1, <1>2, <1>3, <1>4, <1>5, <1>6, <1>7 DEF StopProgress

LEMMA LossStep ==
    ASSUME IInv, (\E s \in disk : LoseDirectory(s)) \/ (\E p \in Processes : LoseContainer(p))
    PROVE  IInv'
  <1>0. /\ TypeOK /\ container \in Containers /\ worker \in Tables /\ link \in Links
        /\ stop \in Stops
        /\ {crashes, cancels, faults, stops, losses} \subseteq Nat
    BY DEF IInv, TypeOK, Containers, Tables, Links, Stops
  <1>1. ASSUME NEW s \in disk, LoseDirectory(s) PROVE IInv'
    <2>1. /\ Observe /\ disk' \subseteq disk
          /\ UNCHANGED <<up, claiming, launch, stop, slots, worker, link, container, mount>>
      BY <1>1 DEF LoseDirectory, tables
    <2>2. CountersTyped'
      BY <1>0, <1>1 DEF LoseDirectory, CountersTyped
    <2> QED
      BY <1>0, <2>1, <2>2, LaunchesStay DEF Stops, Active
  <1>2. ASSUME NEW p \in Processes, LoseContainer(p) PROVE IInv'
    <2>1. /\ Observe
          /\ UNCHANGED <<up, claiming, launch, stop, slots, worker, link, disk, mount>>
      BY <1>2 DEF LoseContainer, tables
    <2>2. CountersTyped'
      BY <1>0, <1>2 DEF LoseContainer, CountersTyped
    <2>3. container' \in Containers /\ \A q \in Processes : container'[q] \in {None, container[q]}
      BY <1>0, <1>2 DEF LoseContainer, RemoveContainer, Containers
    <2> QED
      BY <1>0, <2>1, <2>2, <2>3, LaunchesStay DEF Stops, Active
  <1> QED
    BY <1>1, <1>2

LEMMA CrashStep == ASSUME IInv, Crash PROVE IInv'
  <1> USE DEF IInv
  <1>1. /\ Observe /\ up' = FALSE /\ claiming' = {}
        /\ launch' = [w \in Workers |-> IF InLaunch(w) THEN Launched ELSE launch[w]]
        /\ stop' = [i \in StopCalls |-> NoStop]
        /\ UNCHANGED <<slots, worker, link>>
    BY DEF Crash, tables
  <1>2. /\ disk' \subseteq SlotIndices /\ \A s \in disk' : s < PoolLimit
        /\ container' \in Containers /\ mount' \in Links /\ MountInv'
        /\ \A u \in Workers : mount'[u] = mount[u] \/ launch[u].pc = "run"
    BY EffectsTyped DEF Crash
  <1>3. \A w \in Workers : /\ launch'[w] \in {launch[w], Launched}
                           /\ launch'[w].pc \in {"none", "over"}
                           /\ launch'[w].pc = "none" => launch'[w] = launch[w]
    <2> TAKE w \in Workers
    <2>1. launch[w].pc \notin LaunchPc => launch[w] \in {NoLaunch, Launched}
      <3>1. \A l \in Launch : l.pc \in LaunchPc
        BY DEF Launch
      <3> QED
        BY <3>1 DEF TypeOK
    <2> QED
      BY <1>1, <2>1, LaunchedFields DEF InLaunch
  <1>4. \A w \in Workers : launch'[w].claimed = FALSE
    <2>1. \A w \in Workers : launch'[w] \in {NoLaunch, Launched}
      <3>1. \A l \in Launch : l.pc \in LaunchPc
        BY DEF Launch
      <3>2. "none" \notin LaunchPc /\ "over" \notin LaunchPc
        BY DEF LaunchPc
      <3> QED
        BY <1>3, <3>1, <3>2 DEF TypeOK
    <2> QED
      BY <2>1, LaunchedFields
  <1>5. CountersTyped'
    BY DEF Crash, CountersTyped, TypeOK
  <1>6. exposed' \subseteq SlotIndices
    BY <1>1, <1>2, SeenTyped DEF TypeOK
  <1>7. TypeOK'
    BY <1>1, <1>2, <1>5, <1>6 DEF TypeOK, CountersTyped, Containers, Links
  <1>8. LimitInv'
    <2>1. WithinLimit'
      BY <1>1, <1>2 DEF LimitInv, WithinLimit
    <2> QED
      BY <1>3, <2>1, LaunchedFields, PoolLimitAssumption DEF LimitInv, NoSlot
  <1>9. LaunchInv'
    <2>1. \A u \in Workers : mount'[u] = mount[u] \/ link[u] = NoSlot
      BY <1>2 DEF LaunchInv
    <2>2. {"none", "over"} \cap (ClaimPc \cup SlotPc) = {}
      BY DEF ClaimPc, SlotPc
    <2> QED
      BY <1>1, <1>3, <1>4, <2>1, <2>2 DEF LaunchInv
  <1>10. DownInv'
    BY <1>3 DEF DownInv, LaunchPc
  <1>11. ClaimsExact'
    BY <1>1, <1>4 DEF ClaimsExact
  <1>12. ClaimLink' /\ LinkExclusive'
    <2>1. \A u \in Workers : \A s : Owned(u, s)' => Owned(u, s)
      BY <1>4 DEF Owned
    <2>2. \A u \in Workers : \A s : Held(u, s)' => Held(u, s)
      BY <1>1 DEF Held, Active
    <2> QED
      BY <1>1, <2>1, <2>2, OverlapsKept
  <1> QED
    BY <1>1, <1>2, <1>7, <1>8, <1>9, <1>10, <1>11, <1>12, Seen

\* What a restart makes of a row: none is active after it that was not active
\* before, or whose container does not run.
LEMMA RowsReconciled ==
    ASSUME IInv, Restart
    PROVE  /\ worker' \in Tables /\ link' \in Links
           /\ \A w \in Workers :
                 /\ link'[w] \in {NoSlot, link[w]}
                 /\ worker'[w].named => worker[w].named
                 /\ Active(w)' => Active(w) \/ Alive(w) \/ worker[w].named
                 /\ faults' = faults /\ Active(w)' => Alive(w) \/ worker[w].named
  <1> USE DEF IInv
  <1>1. PICK unknown \in SUBSET Workers, old \in SUBSET Workers :
          /\ faults' = IF unknown = {} THEN faults ELSE faults + 1
          /\ worker' = [w \in Workers |->
                           IF (link[w] # NoSlot /\ link[w] \notin disk) \/ w \in old THEN NoRow
                           ELSE IF w \in unknown THEN worker[w] ELSE Reconciled(w)]
          /\ link' = [w \in Workers |->
                         IF \/ link[w] # NoSlot /\ link[w] \notin disk
                            \/ w \in old
                            \/ w \notin unknown /\ Active(w) /\ ~FoundAlive(w)
                         THEN NoSlot ELSE link[w]]
    BY DEF Restart
  <1>2. faults' = faults => unknown = {}
    BY <1>1 DEF TypeOK
  <1>3. \A w \in Workers : /\ Reconciled(w) \in WorkerRow \cup {NoRow}
                           /\ Reconciled(w).named => worker[w].named
                           /\ Reconciled(w).status \in {"provisioning", "running"} => FoundAlive(w)
    <2> TAKE w \in Workers
    <2>1. CASE worker[w] = NoRow
      BY <2>1 DEF Reconciled, NoRow, None
    <2>2. CASE worker[w] # NoRow
      <3>1. worker[w] \in WorkerRow
        BY <2>2 DEF TypeOK
      <3>2. \A s \in {"running", "stopped"} :
               /\ [worker[w] EXCEPT !.status = s] \in WorkerRow
               /\ [worker[w] EXCEPT !.status = s].named = worker[w].named
               /\ [worker[w] EXCEPT !.status = s].status = s
        BY <3>1 DEF WorkerRow
      <3> QED
        BY <2>2, <3>2 DEF Reconciled
    <2> QED
      BY <2>1, <2>2
  <1>4. worker' \in Tables /\ link' \in Links
    BY <1>1, <1>3 DEF Tables, Links, TypeOK
  <1>5. NoRow.named = FALSE /\ NoRow.status \notin {"provisioning", "running"}
    BY DEF NoRow, None
  <1>6. \A w \in Workers : FoundAlive(w) => Alive(w) \/ worker[w].named
    BY DEF FoundAlive
  <1>7. \A w \in Workers : /\ link'[w] \in {NoSlot, link[w]}
                           /\ worker'[w].named => worker[w].named
    BY <1>1, <1>3, <1>5
  <1>8. \A w \in Workers :
           Active(w)' => \/ w \in unknown /\ worker'[w] = worker[w]
                         \/ w \notin unknown /\ FoundAlive(w)
    BY <1>1, <1>3, <1>5 DEF Active
  <1> QED
    BY <1>2, <1>4, <1>6, <1>7, <1>8 DEF Active

LEMMA DiskFinite == ASSUME IInv PROVE Cardinality(disk) \in Nat
  <1>1. disk \in SUBSET Nat /\ \A s \in disk : s <= PoolLimit
    <2>1. disk \in SUBSET Nat
      BY DEF IInv, TypeOK, SlotIndices
    <2>2. \A s \in disk : s < PoolLimit
      BY DEF IInv, LimitInv, WithinLimit
    <2> QED
      BY <2>1, <2>2, PoolLimitAssumption
  <1> QED
    BY <1>1, PoolLimitAssumption, FS_BoundedSetOfNaturals, FS_CardinalityType

LEMMA RowsListed ==
    ASSUME NEW n \in Nat, NEW S, NEW rows \in [1..n -> S]
    PROVE  rows \in Seq(S) /\ Len(rows) = n /\ \A i \in 1..n : rows[i] \in S
  OBVIOUS

LEMMA RestartStep == ASSUME IInv, Restart PROVE IInv'
  <1> USE DEF IInv
  <1>1. /\ Observe /\ ~up /\ up' = TRUE
        /\ UNCHANGED <<claiming, launch, stop, disk, container, mount>>
    BY DEF Restart, host
  <1>2. PICK rows \in [1..Cardinality(disk) -> disk] : slots' = rows
    BY DEF Restart
  <1>3. Cardinality(disk) \in Nat /\ disk \subseteq SlotIndices
    BY DiskFinite DEF TypeOK
  <1>4. slots' \in Seq(SlotIndices) /\ \A i \in 1..Len(slots') : slots'[i] \in disk
    <2>1. rows \in [1..Cardinality(disk) -> SlotIndices]
      BY <1>3
    <2> QED
      BY <1>2, <1>3, <2>1, RowsListed
  <1>5. MountInv'
    BY <1>1, MountKept
  <1>6. exposed' \subseteq SlotIndices
    BY <1>1, <1>5, SeenTyped DEF TypeOK
  <1>7. CountersTyped'
    BY DEF Restart, CountersTyped, TypeOK
  <1>8. TypeOK'
    BY <1>1, <1>4, <1>6, <1>7, RowsReconciled DEF TypeOK, CountersTyped, Tables, Links
  <1>9. LimitInv'
    BY <1>1, <1>4 DEF LimitInv, WithinLimit
  <1>10. \A w \in Workers : /\ launch[w].pc \notin LaunchPc /\ launch'[w] = launch[w]
                            /\ launch[w].claimed = FALSE
    BY <1>1, LaunchedFields DEF DownInv, LaunchInv, ClaimPc, LaunchPc, TypeOK, Launch
  <1>11. LaunchInv'
    BY <1>1, <1>10, RowsReconciled DEF LaunchInv, LaunchPc
  <1>12. DownInv'
    BY <1>1 DEF DownInv
  <1>13. ClaimsExact'
    BY <1>1, ClaimsKept
  <1>14. ClaimLink'
    BY <1>1, <1>10 DEF ClaimLink
  <1>15. ASSUME NEW w \in Workers, Active(w)', link'[w] # NoSlot
         PROVE  (Active(w) /\ link[w] = link'[w]) \/ link'[w] \in exposed
    <2>1. link'[w] = link[w] /\ ~worker[w].named /\ link[w] = mount[w]
      BY <1>15, RowsReconciled DEF LaunchInv
    <2>2. CASE ~Active(w)
      <3>1. Alive(w)
        BY <1>15, <2>1, <2>2, RowsReconciled
      <3>2. ~Protected(w)
        BY <1>10, <2>2 DEF Protected
      <3> QED
        BY <2>1, <3>1, <3>2 DEF Covered, Unprotected
    <2> QED
      BY <2>1, <2>2
  <1>16. LinkExclusive'
    <2>1. exposed \subseteq exposed'
      BY <1>1, Seen
    <2> QED
      BY <1>15, <2>1 DEF LinkExclusive
  <1> QED
    BY <1>1, <1>5, <1>8, <1>9, <1>11, <1>12, <1>13, <1>14, <1>16, Seen

-----------------------------------------------------------------------------
(* The theorems. *)

LEMMA IInvInit == Init => IInv
  <1> SUFFICES ASSUME Init PROVE IInv
    OBVIOUS
  <1> USE PoolLimitAssumption DEF Init
  <1>1. TypeOK
    BY LaunchedFields DEF TypeOK, SlotIndices
  <1>2. LimitInv
    BY LaunchedFields DEF LimitInv, WithinLimit, NoSlot
  <1>3. LaunchInv
    BY LaunchedFields DEF LaunchInv, ClaimPc, SlotPc, NoRow
  <1>4. DownInv /\ ClaimsExact /\ ClaimLink
    BY LaunchedFields DEF DownInv, ClaimsExact, ClaimLink
  <1>5. MountInv /\ Covered
    BY NamesAssumption DEF MountInv, Covered, Unprotected, Alive
  <1>6. LinkExclusive
    BY DEF LinkExclusive
  <1> QED
    BY <1>1, <1>2, <1>3, <1>4, <1>5, <1>6 DEF IInv

LEMMA IInvStep == IInv /\ [Next]_vars => IInv'
  <1> SUFFICES ASSUME IInv, [Next]_vars PROVE IInv'
    OBVIOUS
  <1>1. CASE UNCHANGED vars
    <2>1. UNCHANGED <<up, disk, slots, claiming, worker, link, container, mount, launch, stop,
                      exposed, crashes, cancels, faults, stops, losses>>
      BY <1>1 DEF vars, code, tables, host, counters
    <2> QED
      BY <2>1 DEF IInv, TypeOK, LimitInv, WithinLimit, LaunchInv, DownInv, MountInv, ClaimsExact,
                  Covered, ClaimLink, LinkExclusive, Unprotected, Protected, Alive, Active
  <1>2. CASE Next
    BY <1>2, LaunchWorkerStep, AcquireStepStep, RunStepStep, LaunchEndsStep, StopStepStep,
       CrashStep, RestartStep, LossStep DEF Next
  <1> QED
    BY <1>1, <1>2

\* The invariant holds in every behaviour of the pool.
THEOREM InvCorrect == Spec => []IInv
  BY IInvInit, IInvStep, PTL DEF Spec

\* The claim set is exactly what the launches under way own, no slot of two of
\* them, whatever path a launch takes out of acquire_slot and launch.
THEOREM ClaimsExactCorrect == Spec => []ClaimsExact
  <1>1. IInv => ClaimsExact
    BY DEF IInv
  <1> QED
    BY <1>1, InvCorrect, PTL

\* No directory and no row has an index outside the pool, however many launches
\* scan the pool at the same time.
THEOREM WithinLimitCorrect == Spec => []WithinLimit
  <1>1. IInv => WithinLimit
    BY DEF IInv, LimitInv
  <1> QED
    BY <1>1, InvCorrect, PTL

\* Two live containers share a slot only where a stale candidate list or a
\* container that lost its protection let them: claim, link and status cover
\* each other at every hand-over.
THEOREM OneWorkerPerSlotCorrect == Spec => []OneWorkerPerSlot
  <1>1. IInv => OneWorkerPerSlot
    <2> SUFFICES ASSUME IInv, NEW u \in Workers, NEW w \in Workers, u # w, Alive(u), Alive(w),
                        mount[u] = mount[w], mount[u] \notin exposed
                 PROVE  FALSE
      BY DEF OneWorkerPerSlot
    <2>1. Protected(u) /\ Protected(w) /\ mount[u] # NoSlot
      BY DEF IInv, Covered, Unprotected, MountInv, SlotIndices, NoSlot
    <2>2. CASE launch[u].claimed /\ launch[u].slot = mount[u]
      BY <2>1, <2>2 DEF Protected, IInv, ClaimsExact, ClaimLink
    <2>3. CASE Active(u) /\ link[u] = mount[u]
      BY <2>1, <2>3 DEF Protected, IInv, ClaimLink, LinkExclusive
    <2> QED
      BY <2>1, <2>2, <2>3 DEF Protected
  <1> QED
    BY <1>1, InvCorrect, PTL

\* A restart whose probes all answer leaves every directory with a row, and
\* linked to no active worker but one whose container runs.
THEOREM RestartRepairsCorrect == Spec => RestartRepairs
  <1> DEFINE A == ~up /\ up' /\ faults' = faults =>
                    \A s \in disk : /\ HasRow(s)'
                                    /\ \/ Available(s)'
                                       \/ \E w \in Workers : link'[w] = s /\ Alive(w)
  <1>1. IInv /\ [Next]_vars => [A]_vars
    <2> SUFFICES ASSUME IInv, Next, ~up, up', faults' = faults, NEW s \in disk
                 PROVE  /\ HasRow(s)'
                        /\ \/ Available(s)'
                           \/ \E w \in Workers : link'[w] = s /\ Alive(w)
      OBVIOUS
    <2>1. Restart
      BY DEF Next, LaunchWorker, AcquireStep, ClaimSlot, RecycleSlot, ScanSlots, PrepareNewSlot,
             InsertSlot, ClaimNewSlot, RunStep, CheckoutBranch, Prepare, PreLaunchCleanup,
             RecordProvisioningWorker, RunContainer, FinalizeWorkerLaunch, LinkWorkerSlot,
             PostLaunchSetup, LaunchEnds, LaunchFault, RunFault, FinalizeFault, LaunchCancelled,
             StopWorker, StopUnrecordedByName, StopProgress, StopContainer, CleanSlot,
             UnlinkWorkerSlot, MarkStopped, StopFault, LaunchStep, StopStep, Crash, LoseDirectory,
             LoseContainer
    <2>2. HasRow(s)'
      <3>1. Cardinality(disk) \in Nat
        BY DiskFinite
      <3>2. PICK rows \in [1..Cardinality(disk) -> disk] :
              slots' = rows /\ \E i \in 1..Cardinality(disk) : rows[i] = s
        BY <2>1 DEF Restart, ReconciledRows
      <3>3. Len(slots') = Cardinality(disk)
        BY <3>1, <3>2, RowsListed
      <3> QED
        BY <3>2, <3>3 DEF HasRow
    <2>3. ASSUME NEW w \in Workers, Active(w)', link'[w] = s PROVE Alive(w)
      <3>1. s # NoSlot
        BY DEF IInv, TypeOK, SlotIndices, NoSlot
      <3>2. link[w] = s /\ ~worker[w].named
        BY <2>1, <2>3, <3>1, RowsReconciled DEF IInv, LaunchInv
      <3> QED
        BY <2>1, <2>3, <3>2, RowsReconciled
    <2> QED
      BY <2>2, <2>3 DEF Available
  <1> QED
    BY <1>1, InvCorrect, PTL DEF Spec, RestartRepairs
=============================================================================
