--------------------------- MODULE BuilderdProofs ---------------------------
(***************************************************************************)
(* Proofs about builderd: the overlay manager, for any number of git       *)
(* commands, any overlay files, and any number of edits, failing           *)
(* operations, callers that go away and restarts; and the registry of      *)
(* long-lived processes, for any number of callers, any size of the        *)
(* channels and any length of the output.  The two share no state.         *)
(***************************************************************************)
EXTENDS Overlay, ProcessRegistry, FiniteSetTheorems, TLAPS

\* The commands that the counter counts, and the places where the lock is held.
Counted == {"running", "leave", "failed", "dropped"}
InFlight == {c \in Cmds : pc[c] \in Counted}
Holding == Concealing \cup {"copy", "pin"}

\* The counter's lock is with the one command that conceals or reveals, and
\* nobody is counted while it is taken.
LockInv ==
    /\ \A c \in Cmds : pc[c] \in Holding <=> holder = c
    /\ holder # None => InFlight = {}
    /\ active = Cardinality(InFlight)

\* Every edit is newer than what was captured before it.
VersionInv ==
    /\ pinned = Tracked
    /\ \A f \in Files : wt[f] <= edits /\ files[f] <= edits

\* Where the overlays are, by the command that is at work on them.
Shown == \A f \in Files : wt[f] \in Version
Hidden(S) == \A f \in S : wt[f] # files[f]

DiskInv ==
    /\ \A f \in Files : files[f] \in Version
    /\ holder = None /\ active = 0 => Shown /\ bits = Tracked
    /\ active # 0 => Hidden(Files) /\ bits = {}
    /\ \A c \in Cmds :
        /\ pc[c] \in {"capture", "unpin"} => Shown /\ bits = Tracked
        /\ pc[c] = "remove" => Shown /\ bits = {}
        /\ pc[c] = "checkout" => Hidden(Untracked) /\ bits = {}
        /\ pc[c] = "concealed" => Hidden(Files) /\ bits = {}
        /\ pc[c] \in {"undo_pin", "pin"} => Shown

\* The inductive invariant.
IInv == TypeOK /\ LockInv /\ VersionInv /\ (~broken => DiskInv)
-----------------------------------------------------------------------------
(* The counter. *)

LEMMA CountTyped ==
    /\ IsFiniteSet(InFlight) /\ Cardinality(InFlight) \in Nat
    /\ Cardinality(InFlight) <= Cardinality(Cmds) /\ Cardinality(Cmds) \in Nat
    /\ Cardinality(InFlight) = 0 <=> InFlight = {}
  <1>1. InFlight \in SUBSET Cmds
    BY DEF InFlight
  <1> QED
    BY <1>1, CmdsAssumption, FS_Subset, FS_CardinalityType, FS_EmptySet

\* A command moves without being counted, joins those counted, or leaves them.
LEMMA CountMoves ==
    ASSUME TypeOK, NEW c \in Cmds, NEW to \in Pc, Goto(c, to)
    PROVE  /\ (pc[c] \in Counted <=> to \in Counted) => InFlight' = InFlight
           /\ pc[c] \notin Counted /\ to \in Counted =>
                Cardinality(InFlight') = Cardinality(InFlight) + 1
           /\ pc[c] \in Counted /\ to \notin Counted =>
                Cardinality(InFlight') = Cardinality(InFlight) - 1
  <1>1. pc \in [Cmds -> Pc] /\ pc' = [pc EXCEPT ![c] = to]
    BY DEF TypeOK, Goto
  <1>2. (pc[c] \in Counted <=> to \in Counted) => InFlight' = InFlight
    BY <1>1 DEF InFlight
  <1>3. ASSUME pc[c] \notin Counted, to \in Counted
        PROVE  Cardinality(InFlight') = Cardinality(InFlight) + 1
    <2>1. InFlight' = InFlight \cup {c} /\ c \notin InFlight
      BY <1>1, <1>3 DEF InFlight
    <2> QED
      BY <2>1, CountTyped, FS_AddElement
  <1>4. ASSUME pc[c] \in Counted, to \notin Counted
        PROVE  Cardinality(InFlight') = Cardinality(InFlight) - 1
    <2>1. InFlight' = InFlight \ {c} /\ c \in InFlight
      BY <1>1, <1>4 DEF InFlight
    <2> QED
      BY <2>1, CountTyped, FS_RemoveElement
  <1> QED
    BY <1>2, <1>3, <1>4

-----------------------------------------------------------------------------

LEMMA InvInit == Init => IInv
  <1> SUFFICES ASSUME Init PROVE IInv
    OBVIOUS
  <1>1. InFlight = {}
    BY DEF Init, InFlight, Counted
  <1>2. active = Cardinality(InFlight)
    BY <1>1, FS_EmptySet DEF Init
  <1>3. TypeOK
    <2>1. 0 \in Version /\ 0 \in 0..MaxEdits /\ 0 \in 0..MaxCancels /\ 0 \in 0..MaxFaults /\ 0 \in 0..MaxCrashes
      BY BoundsAssumption DEF Version
    <2>2. 0 \in 0..Cardinality(Cmds)
      BY CountTyped
    <2> QED
      BY <2>1, <2>2 DEF Init, TypeOK, Content, Pc, None
  <1>4. LockInv
    BY <1>1, <1>2, CmdsAssumption DEF Init, LockInv, Holding, Concealing, None
  <1>5. VersionInv /\ DiskInv
    BY BoundsAssumption DEF Init, VersionInv, DiskInv, Shown, Hidden, Version, Files
  <1> QED
    BY <1>3, <1>4, <1>5 DEF IInv

LEMMA EnterInv ==
    ASSUME IInv, NEW c \in Cmds, Exec(c) \/ Enter(c)
    PROVE  IInv'
  <1> USE DEF IInv
  <1>1. CASE Exec(c)
    <2>1. InFlight' = InFlight
      BY <1>1, CountMoves DEF Exec, Pc, Counted
    <2>2. TypeOK'
      BY <1>1 DEF Exec, Goto, TypeOK, disk, counters, Pc, Content, Version
    <2>3. LockInv'
      BY <1>1, <2>1 DEF Exec, Goto, LockInv, TypeOK, Holding, Concealing
    <2>4. VersionInv' /\ (~broken' => DiskInv')
      BY <1>1 DEF Exec, Goto, disk, counters, TypeOK, VersionInv, DiskInv, Shown, Hidden, Version
    <2> QED
      BY <2>2, <2>3, <2>4
  <1>2. CASE Enter(c) /\ First
    <2>1. InFlight' = InFlight
      BY <1>2, CountMoves DEF Enter, Pc, Counted
    <2>2. TypeOK'
      BY <1>2 DEF Enter, Goto, TypeOK, disk, counters, Pc, Content, Version
    <2>3. LockInv'
      <3>1. active' = Cardinality(InFlight') /\ InFlight' = {}
        BY <1>2, <2>1, CountTyped DEF Enter, First, LockInv
      <3>2. \A d \in Cmds : pc'[d] \in Holding <=> holder' = d
        BY <1>2, CmdsAssumption DEF Enter, First, Goto, LockInv, TypeOK, Holding, Concealing, None
      <3> QED
        BY <3>1, <3>2 DEF LockInv
    <2>4. VersionInv' /\ (~broken' => DiskInv')
      BY <1>2, CmdsAssumption
      DEF Enter, First, Goto, disk, counters, TypeOK, LockInv, Holding, Concealing, VersionInv, DiskInv,
          Shown, Hidden, Version, None
    <2> QED
      BY <2>2, <2>3, <2>4
  <1>3. CASE Enter(c) /\ ~First
    <2>1. Cardinality(InFlight') = Cardinality(InFlight) + 1
      BY <1>3, CountMoves DEF Enter, Pc, Counted
    <2>2. Cardinality(InFlight') <= Cardinality(Cmds) /\ Cardinality(InFlight') \in Nat
      <3>1. InFlight' \in SUBSET Cmds
        BY DEF InFlight
      <3> QED
        BY <3>1, CmdsAssumption, FS_Subset, FS_CardinalityType
    <2>3. TypeOK' /\ LockInv'
      BY <1>3, <2>1, <2>2, CountTyped
      DEF Enter, First, Goto, TypeOK, LockInv, disk, counters, Pc, Content, Version, Holding, Concealing
    <2>4. VersionInv' /\ (~broken' => DiskInv')
      BY <1>3, CountTyped DEF Enter, First, Goto, disk, counters, TypeOK, LockInv, VersionInv, DiskInv, Shown, Hidden, Version
    <2> QED
      BY <2>3, <2>4
  <1> QED
    BY <1>1, <1>2, <1>3

\* The holder is alone: nobody is counted and nobody else is at work.
LEMMA Alone ==
    ASSUME IInv, NEW c \in Cmds, pc[c] \in Holding
    PROVE  /\ holder = c /\ holder # None /\ active = 0 /\ InFlight = {}
           /\ \A d \in Cmds : d # c => pc[d] \notin Holding
  <1>1. holder = c /\ holder # None
    BY CmdsAssumption DEF IInv, LockInv, None
  <1> QED
    BY <1>1, CountTyped DEF IInv, LockInv

\* The holder goes on to another step of its work.
LEMMA LockGoesOn ==
    ASSUME IInv, NEW c \in Cmds, pc[c] \in Holding, NEW to \in Holding,
           Goto(c, to), UNCHANGED <<active, holder>>
    PROVE  LockInv' /\ (\A d \in Cmds : d # c => pc'[d] \notin Holding) /\ pc' \in [Cmds -> Pc]
  <1>1. to \in Pc /\ to \notin Counted /\ pc[c] \notin Counted
    BY DEF Holding, Concealing, Pc, Counted
  <1>2. InFlight' = InFlight
    BY <1>1, CountMoves DEF IInv
  <1>3. pc \in [Cmds -> Pc] /\ pc' = [pc EXCEPT ![c] = to]
    BY DEF IInv, TypeOK, Goto
  <1> QED
    BY <1>1, <1>2, <1>3, Alone DEF IInv, LockInv

\* The holder gives the lock back: it is counted, or it ends.
LEMMA LockGivenBack ==
    ASSUME IInv, NEW c \in Cmds, pc[c] \in Holding, holder' = None,
           \/ Goto(c, "done") /\ active' = active
           \/ Goto(c, "running") /\ active' = active + 1
    PROVE  /\ LockInv' /\ (\A d \in Cmds : pc'[d] \notin Holding) /\ pc' \in [Cmds -> Pc]
           /\ active' \in 0..Cardinality(Cmds)
  <1>1. pc[c] \notin Counted
    BY DEF Holding, Concealing, Counted
  <1>2. active' = Cardinality(InFlight')
    BY <1>1, CountMoves DEF IInv, LockInv, Pc, Counted
  <1>3. Cardinality(InFlight') \in 0..Cardinality(Cmds)
    <2>1. InFlight' \in SUBSET Cmds
      BY DEF InFlight
    <2> QED
      BY <2>1, CmdsAssumption, FS_Subset, FS_CardinalityType
  <1>4. pc \in [Cmds -> Pc] /\ "done" \notin Holding /\ "running" \notin Holding
    BY DEF IInv, TypeOK, Holding, Concealing
  <1>5. \A d \in Cmds : pc'[d] \notin Holding
    BY <1>4, Alone DEF Goto
  <1>6. pc' \in [Cmds -> Pc]
    BY <1>4 DEF Goto, Pc
  <1> QED
    BY <1>2, <1>3, <1>5, <1>6, CmdsAssumption DEF LockInv, None

LEMMA CaptureInv ==
    ASSUME IInv, NEW c \in Cmds, Capture(c)
    PROVE  IInv'
  <1> USE DEF IInv
  <1>1. pc[c] \in Holding /\ {"unpin", "undo_copy"} \subseteq Holding
    BY DEF Capture, Holding, Concealing
  <1>2. LockInv' /\ (\A d \in Cmds : d # c => pc'[d] \notin Holding) /\ pc' \in [Cmds -> Pc]
    BY <1>1, LockGoesOn DEF Capture
  <1>3. TypeOK'
    BY <1>2, BoundsAssumption DEF Capture, Captured, Fault, TypeOK, Content, Version, Repo, Absent
  <1>4. VersionInv'
    BY DEF Capture, Captured, TypeOK, VersionInv
  <1>5. ~broken' => DiskInv'
    BY <1>1, <1>2, Alone
    DEF Capture, Captured, Goto, TypeOK, DiskInv, Shown, Hidden, Holding, Concealing, Version, Absent, None
  <1> QED
    BY <1>2, <1>3, <1>4, <1>5

LEMMA UnpinInv ==
    ASSUME IInv, NEW c \in Cmds, Unpin(c)
    PROVE  IInv'
  <1> USE DEF IInv
  <1>1. pc[c] \in Holding /\ {"remove", "undo_copy"} \subseteq Holding
    BY DEF Unpin, Holding, Concealing
  <1>2. LockInv' /\ (\A d \in Cmds : d # c => pc'[d] \notin Holding) /\ pc' \in [Cmds -> Pc]
    BY <1>1, LockGoesOn DEF Unpin
  <1>3. TypeOK'
    BY <1>2, BoundsAssumption DEF Unpin, Fault, TypeOK
  <1>4. VersionInv'
    BY DEF Unpin, TypeOK, VersionInv
  <1>5. ~broken' => DiskInv'
    BY <1>1, <1>2, Alone DEF Unpin, Goto, TypeOK, VersionInv, DiskInv, Shown, Hidden, Holding, Concealing
  <1> QED
    BY <1>2, <1>3, <1>4, <1>5

LEMMA RemoveInv ==
    ASSUME IInv, NEW c \in Cmds, Remove(c)
    PROVE  IInv'
  <1> USE DEF IInv
  <1>1. pc[c] \in Holding /\ {"checkout", "undo_copy"} \subseteq Holding
    BY DEF Remove, Holding, Concealing
  <1>2. LockInv' /\ (\A d \in Cmds : d # c => pc'[d] \notin Holding) /\ pc' \in [Cmds -> Pc]
    BY <1>1, LockGoesOn DEF Remove
  <1>3. TypeOK'
    BY <1>2, BoundsAssumption DEF Remove, Fault, TypeOK, Content
  <1>4. VersionInv'
    BY DEF Remove, TypeOK, VersionInv, Absent
  <1>5. ~broken' => DiskInv'
    BY <1>1, <1>2, Alone
    DEF Remove, Goto, TypeOK, DiskInv, Shown, Hidden, Holding, Concealing, Version, Absent, Files
  <1> QED
    BY <1>2, <1>3, <1>4, <1>5

LEMMA CheckoutInv ==
    ASSUME IInv, NEW c \in Cmds, Checkout(c)
    PROVE  IInv'
  <1> USE DEF IInv
  <1>1. CASE pc[c] = "checkout"
    <2>1. pc[c] \in Holding /\ {"concealed", "undo_copy"} \subseteq Holding
      BY <1>1 DEF Holding, Concealing
    <2>2. LockInv' /\ (\A d \in Cmds : d # c => pc'[d] \notin Holding) /\ pc' \in [Cmds -> Pc]
      BY <1>1, <2>1, LockGoesOn DEF Checkout
    <2>3. TypeOK'
      BY <1>1, <2>2, BoundsAssumption DEF Checkout, Fault, TypeOK, Content
    <2>4. VersionInv'
      BY <1>1 DEF Checkout, TypeOK, VersionInv, Repo
    <2>5. ~broken' => DiskInv'
      BY <1>1, <2>1, <2>2, Alone
      DEF Checkout, Goto, TypeOK, DiskInv, Shown, Hidden, Holding, Concealing, Version, Repo, Files
    <2> QED
      BY <2>2, <2>3, <2>4, <2>5
  <1>2. CASE pc[c] = "concealed"
    <2>1. pc[c] \in Holding
      BY <1>2 DEF Holding, Concealing
    <2>2. /\ LockInv' /\ (\A d \in Cmds : pc'[d] \notin Holding) /\ pc' \in [Cmds -> Pc]
          /\ active' \in 0..Cardinality(Cmds)
      BY <1>2, <2>1, LockGivenBack DEF Checkout
    <2>3. TypeOK'
      BY <1>2, <2>2 DEF Checkout, TypeOK
    <2>4. VersionInv'
      BY <1>2 DEF Checkout, TypeOK, VersionInv
    <2>5. ~broken' => DiskInv'
      BY <1>2, <2>1, <2>2, Alone
      DEF Checkout, TypeOK, DiskInv, Shown, Hidden, Holding, Concealing
    <2> QED
      BY <2>2, <2>3, <2>4, <2>5
  <1> QED
    BY <1>1, <1>2 DEF Checkout

LEMMA UndoInv ==
    ASSUME IInv, NEW c \in Cmds, Undo(c)
    PROVE  IInv'
  <1> USE DEF IInv
  <1>1. pc[c] \in {"undo_copy", "undo_pin"} /\ pc[c] \in Holding /\ "undo_pin" \in Holding
    BY DEF Undo, Holding, Concealing
  <1>2. CASE Goto(c, "undo_pin")
    <2>1. pc[c] = "undo_copy" /\ wt' = files /\ UNCHANGED <<active, holder, broken, faults, bits, pinned>>
      BY <1>1, <1>2 DEF Undo, Goto, TypeOK
    <2>2. LockInv' /\ (\A d \in Cmds : d # c => pc'[d] \notin Holding) /\ pc' \in [Cmds -> Pc]
      BY <1>1, <1>2, <2>1, LockGoesOn
    <2>3. TypeOK' /\ VersionInv'
      BY <2>1, <2>2 DEF Undo, TypeOK, VersionInv, Content
    <2>4. ~broken' => DiskInv'
      BY <1>1, <1>2, <2>1, <2>2, Alone
      DEF Undo, Goto, TypeOK, DiskInv, Shown, Hidden, Holding, Concealing, Version
    <2> QED
      BY <2>2, <2>3, <2>4
  <1>3. CASE Goto(c, "done") /\ holder' = None
    <2>1. /\ LockInv' /\ (\A d \in Cmds : pc'[d] \notin Holding) /\ pc' \in [Cmds -> Pc]
          /\ active' \in 0..Cardinality(Cmds)
      BY <1>1, <1>3, LockGivenBack DEF Undo
    <2>2. wt' = wt /\ bits' \subseteq Tracked /\ pinned' = pinned /\ broken' \in BOOLEAN
      BY <1>3 DEF Undo, PinTracked, Goto, TypeOK, VersionInv
    <2>3. faults' \in 0..MaxFaults
      BY <1>3, BoundsAssumption DEF Undo, PinTracked, Fault, TypeOK
    <2>4. TypeOK' /\ VersionInv'
      BY <1>3, <2>1, <2>2, <2>3 DEF Undo, TypeOK, VersionInv
    <2>5. ~broken' => DiskInv'
      BY <1>1, <1>3, <2>1, <2>2, Alone
      DEF Undo, PinTracked, TypeOK, DiskInv, Shown, Hidden, Holding, Concealing
    <2> QED
      BY <2>1, <2>4, <2>5
  <1> QED
    BY <1>2, <1>3 DEF Undo

LEMMA RevealInv ==
    ASSUME IInv, NEW c \in Cmds, Reveal(c)
    PROVE  IInv'
  <1> USE DEF IInv
  <1>1. pc[c] \in {"copy", "pin"} /\ pc[c] \in Holding /\ "pin" \in Holding
    BY DEF Reveal, Holding, Concealing
  <1>2. CASE Goto(c, "pin")
    <2>1. pc[c] = "copy" /\ wt' = files /\ UNCHANGED <<active, holder, broken, faults, bits, pinned>>
      BY <1>1, <1>2 DEF Reveal, Goto, TypeOK
    <2>2. LockInv' /\ (\A d \in Cmds : d # c => pc'[d] \notin Holding) /\ pc' \in [Cmds -> Pc]
      BY <1>1, <1>2, <2>1, LockGoesOn
    <2>3. TypeOK' /\ VersionInv'
      BY <2>1, <2>2 DEF Reveal, TypeOK, VersionInv, Content
    <2>4. ~broken' => DiskInv'
      BY <1>1, <1>2, <2>1, <2>2, Alone
      DEF Reveal, Goto, TypeOK, DiskInv, Shown, Hidden, Holding, Concealing, Version
    <2> QED
      BY <2>2, <2>3, <2>4
  <1>3. CASE Goto(c, "done") /\ holder' = None
    <2>1. /\ LockInv' /\ (\A d \in Cmds : pc'[d] \notin Holding) /\ pc' \in [Cmds -> Pc]
          /\ active' \in 0..Cardinality(Cmds)
      BY <1>1, <1>3, LockGivenBack DEF Reveal
    <2>2. wt' = wt /\ bits' \subseteq Tracked /\ pinned' = pinned /\ broken' \in BOOLEAN
      BY <1>3 DEF Reveal, PinTracked, Goto, TypeOK, VersionInv
    <2>3. faults' \in 0..MaxFaults
      BY <1>3, BoundsAssumption DEF Reveal, PinTracked, Fault, TypeOK
    <2>4. TypeOK' /\ VersionInv'
      BY <1>3, <2>1, <2>2, <2>3 DEF Reveal, TypeOK, VersionInv
    <2>5. ~broken' => DiskInv'
      BY <1>1, <1>3, <2>1, <2>2, Alone
      DEF Reveal, PinTracked, TypeOK, DiskInv, Shown, Hidden, Holding, Concealing
    <2> QED
      BY <2>1, <2>4, <2>5
  <1> QED
    BY <1>2, <1>3 DEF Reveal

LEMMA ExitInv ==
    ASSUME IInv, NEW c \in Cmds, Exit(c)
    PROVE  IInv'
  <1> USE DEF IInv
  <1>1. InFlight' = InFlight
    BY CountMoves DEF Exit, Pc, Counted
  <1>2. TypeOK' /\ LockInv'
    BY <1>1 DEF Exit, Goto, TypeOK, disk, counters, Pc, LockInv, Holding, Concealing
  <1>3. VersionInv' /\ (~broken' => DiskInv')
    BY DEF Exit, Goto, disk, counters, TypeOK, VersionInv, DiskInv, Shown, Hidden
  <1> QED
    BY <1>2, <1>3

LEMMA LeaveInv ==
    ASSUME IInv, NEW c \in Cmds, Leave(c)
    PROVE  IInv'
  <1> USE DEF IInv
  <1>1. /\ pc[c] \in {"leave", "failed"} /\ holder = None /\ c # None /\ pc \in [Cmds -> Pc]
        /\ \A d \in Cmds : pc[d] \notin Holding
    BY CmdsAssumption DEF Leave, LockInv, TypeOK, None
  <1>2. active' = Cardinality(InFlight') /\ active # 0
    BY <1>1, CountMoves, CountTyped DEF Leave, LockInv, Pc, InFlight, Counted
  <1>3. active' \in 0..Cardinality(Cmds)
    BY <1>2, CountTyped DEF Leave, TypeOK
  <1>4. CASE active = 1
    <2>1. PICK to \in {"copy", "undo_copy"} : pc' = [pc EXCEPT ![c] = to] /\ holder' = c /\ active' = 0
      BY <1>4 DEF Leave, Last, Goto
    <2>2. InFlight' = {}
      <3>1. InFlight' \in SUBSET Cmds
        BY DEF InFlight
      <3> QED
        BY <1>2, <2>1, <3>1, CmdsAssumption, FS_Subset, FS_EmptySet
    <2>3. \A d \in Cmds : pc'[d] \in Holding <=> holder' = d
      BY <1>1, <2>1 DEF Holding, Concealing
    <2>4. TypeOK' /\ LockInv'
      BY <1>1, <1>2, <1>3, <2>1, <2>2, <2>3 DEF Leave, TypeOK, LockInv, disk, counters, Pc
    <2>5. VersionInv' /\ (~broken' => DiskInv')
      BY <1>1, <2>1 DEF Leave, disk, counters, VersionInv, DiskInv, Shown, Hidden, Holding, Concealing
    <2> QED
      BY <2>4, <2>5
  <1>5. CASE active # 1
    <2>1. pc' = [pc EXCEPT ![c] = "done"] /\ holder' = None /\ active' = active - 1 /\ active' # 0
      BY <1>1, <1>2, <1>5 DEF Leave, Last, Goto, TypeOK
    <2>2. \A d \in Cmds : pc'[d] \notin Holding
      BY <1>1, <2>1 DEF Holding, Concealing
    <2>3. TypeOK' /\ LockInv'
      BY <1>1, <1>2, <1>3, <2>1, <2>2, CmdsAssumption DEF Leave, TypeOK, LockInv, disk, counters, Pc, None
    <2>4. VersionInv' /\ (~broken' => DiskInv')
      BY <1>1, <1>2, <2>1, <2>2 DEF Leave, disk, counters, VersionInv, DiskInv, Shown, Hidden, Holding, Concealing
    <2> QED
      BY <2>3, <2>4
  <1> QED
    BY <1>4, <1>5

\* An edit is newer than every captured version.
LEMMA EditInv ==
    ASSUME IInv, NEW f \in Files, Edit(f)
    PROVE  IInv'
  <1> USE DEF IInv
  <1>1. edits + 1 \in Version /\ edits' = edits + 1 /\ edits \in Nat /\ edits' \in 0..MaxEdits
    BY BoundsAssumption DEF Edit, TypeOK, Version
  <1>2. wt' = [wt EXCEPT ![f] = edits + 1] /\ wt \in [Files -> Content] /\ files \in [Files -> Version \cup {Repo}]
    BY DEF Edit, TypeOK
  <1>3. TypeOK'
    BY <1>1, <1>2 DEF Edit, TypeOK, Content
  <1>4. InFlight' = InFlight
    BY DEF Edit, InFlight
  <1>5. LockInv'
    BY <1>4 DEF Edit, LockInv
  <1>6. VersionInv'
    BY <1>1, <1>2 DEF Edit, VersionInv, Content, Version, Repo, Absent
  <1>7. ~broken' => DiskInv'
    BY <1>1, <1>2 DEF Edit, VersionInv, DiskInv, Shown, Hidden, Version, Files
  <1> QED
    BY <1>3, <1>5, <1>6, <1>7

\* A caller that goes away inside conceal, or before the reveal of a command
\* that could not be started, is what breaks the overlays; one that waits for
\* the lock of its conceal changes nothing.
LEMMA CancelInv ==
    ASSUME IInv, NEW c \in Cmds, Cancel(c)
    PROVE  IInv'
  <1> USE DEF IInv
  <1> DEFINE to == IF pc[c] = "failed" THEN "dropped" ELSE "done"
  <1>1. pc \in [Cmds -> Pc] /\ pc' = [pc EXCEPT ![c] = to] /\ active' = active
    BY DEF Cancel, Goto, TypeOK
  <1>2. InFlight' = InFlight
    BY CountMoves DEF Cancel, Concealing, Pc, Counted
  <1>3. holder' \in {holder, None} /\ (holder' # None <=> holder # None /\ holder # c)
    BY CmdsAssumption DEF Cancel, None
  <1>4. \A d \in Cmds : pc'[d] \in Holding <=> holder' = d
    BY <1>1, CmdsAssumption DEF Cancel, LockInv, Holding, Concealing, None
  <1>5. TypeOK'
    BY <1>1, <1>3, BoundsAssumption DEF Cancel, TypeOK, disk, Pc
  <1>6. LockInv'
    BY <1>1, <1>2, <1>3, <1>4 DEF LockInv
  <1>7. VersionInv'
    BY DEF Cancel, disk, VersionInv
  <1>8. ASSUME ~broken' PROVE DiskInv'
    <2>1. pc[c] = "enter" /\ holder' = holder /\ ~broken
      BY <1>8, <1>3 DEF Cancel, LockInv, Holding, Concealing, TypeOK
    <2> QED
      BY <1>1, <2>1 DEF Cancel, disk, DiskInv, Shown, Hidden
  <1> QED
    BY <1>5, <1>6, <1>7, <1>8

LEMMA CrashInv ==
    ASSUME IInv, Crash
    PROVE  IInv'
  <1> USE DEF IInv
  <1>1. pc \in [Cmds -> Pc] /\ pc' = [c \in Cmds |-> IF pc[c] = "idle" THEN "idle" ELSE "done"]
    BY DEF Crash, TypeOK
  <1>2. InFlight' = {}
    BY <1>1 DEF InFlight, Counted
  <1>3. active' = 0 /\ holder' = None /\ Cardinality(InFlight') = 0
    BY <1>2, FS_EmptySet DEF Crash
  <1>4. \A c \in Cmds : pc'[c] \notin Holding /\ pc'[c] \in Pc
    BY <1>1 DEF Holding, Concealing, Pc
  <1>5. TypeOK' /\ LockInv' /\ VersionInv'
    BY <1>1, <1>2, <1>3, <1>4, CmdsAssumption, CountTyped, BoundsAssumption
    DEF Crash, TypeOK, LockInv, VersionInv, disk, None
  <1>6. ASSUME ~broken' PROVE DiskInv'
    <2>1. active = 0 /\ holder = None /\ ~broken
      <3>1. ~(active > 0) /\ holder = None /\ ~broken
        BY <1>6, Zenon DEF Crash
      <3> QED
        BY <3>1, CountTyped DEF TypeOK
    <2> QED
      BY <1>3, <1>4, <2>1 DEF Crash, disk, DiskInv, Shown, Hidden, Holding, Concealing
  <1> QED
    BY <1>5, <1>6

LEMMA InvStep == IInv /\ [Next]_vars => IInv'
  <1> SUFFICES ASSUME IInv, [Next]_vars PROVE IInv'
    OBVIOUS
  <1>1. ASSUME NEW c \in Cmds, Exec(c) \/ Step(c) \/ Cancel(c) PROVE IInv'
    BY <1>1, EnterInv, CaptureInv, UnpinInv, RemoveInv, CheckoutInv, UndoInv, ExitInv, LeaveInv,
       RevealInv, CancelInv DEF Step
  <1>2. ASSUME NEW f \in Files, Edit(f) PROVE IInv'
    BY <1>2, EditInv
  <1>3. CASE Crash
    BY <1>3, CrashInv
  <1>4. CASE UNCHANGED vars
    BY <1>4 DEF vars, disk, counters, IInv, TypeOK, LockInv, InFlight, VersionInv, DiskInv, Shown, Hidden
  <1> QED
    BY <1>1, <1>2, <1>3, <1>4 DEF Next

\* The inductive invariant holds in every state, whatever commands, edits, faults
\* and restarts of builderd do.
THEOREM InvCorrect == Spec => []IInv
  BY InvInit, InvStep, PTL DEF Spec

-----------------------------------------------------------------------------
(* What the invariant gives. *)

\* The counter, the lock and the slot's files keep their types: in particular
\* the counter never goes below zero, nor above the number of commands.
THEOREM TypeCorrect == Spec => []TypeOK
  <1>1. IInv => TypeOK
    BY DEF IInv
  <1> QED
    BY <1>1, InvCorrect, PTL

\* No git command sees an overlay while it runs, whichever of the commands
\* concealed them, in whatever order they leave and whatever the worker edits.
THEOREM GitSeesNoOverlayCorrect == Spec => []GitSeesNoOverlay
  <1>1. ASSUME IInv PROVE GitSeesNoOverlay
    <2> SUFFICES ASSUME NEW c \in Cmds, pc[c] = "running", ~broken
                 PROVE  (\A f \in Files : wt[f] # files[f]) /\ bits \cap pinned = {}
      BY DEF GitSeesNoOverlay
    <2>1. InFlight # {}
      BY DEF InFlight, Counted
    <2>2. active # 0
      BY <1>1, <2>1, CountTyped DEF IInv, LockInv
    <2> QED
      BY <1>1, <2>2 DEF IInv, DiskInv, Hidden
  <1> QED
    BY <1>1, InvCorrect, PTL

\* Between commands the worker has its overlays, with the skip-worktree bit on
\* every tracked one: a conceal that failed has put them back.
THEOREM OverlaysBackCorrect == Spec => []OverlaysBack
  <1>1. IInv => OverlaysBack
    BY DEF IInv, DiskInv, Shown, OverlaysBack
  <1> QED
    BY <1>1, InvCorrect, PTL

-----------------------------------------------------------------------------
(* The registry of long-lived processes. *)

-----------------------------------------------------------------------------
(* The inductive invariant. *)

\* A forwarder that is sending has a sender and a frame in its hands.
SendInv ==
    \A p \in Callers : forwarder[p].pc = "send" => forwarder[p].tx \in Callers /\ forwarder[p].frame \in Frames

\* A process runs only after its caller has spawned it, and is marked dead
\* only after it has exited.
ProcessInv ==
    \A p \in Callers : /\ call[p] \in {"idle", "spawn"} => child[p] = "none"
                       /\ child[p] = "running" => alive[p]

\* As long as no two requests have raced: one request at a time is starting a
\* process, nothing runs while it does but its own process, and every running
\* process is registered or about to be.
StartInv ==
    ~raced =>
        /\ \A c, d \in Starting : c = d
        /\ \A c \in Starting : \A p \in Callers : child[p] = "running" => p = c
        /\ \A p \in Callers : child[p] = "running" => entry = p \/ call[p] = "register"

RegistryInv == PRTypeOK /\ SendInv /\ ProcessInv /\ StartInv

Pcs == {"idle", "stdin", "sink", "spawn", "register", "stream", "failed", "ended", "closed"}
Hands == [pc : {"none", "recv", "send", "clear", "done"}, tx : Callers \cup {Nobody}, frame : Frames \cup {NoFrame}]

-----------------------------------------------------------------------------
(* The channels, the bounds and the forwarder's hands. *)

LEMMA BoundsTyped ==
    /\ MaxCallers \in Nat /\ MaxLines \in Nat /\ MaxStarting \in Nat /\ MaxTroubles \in Nat
    /\ ChannelSize \in Nat /\ ChannelSize >= 1 /\ Nobody \notin Callers
  BY RegistryAssumption DEF Callers, Nobody

LEMMA HandsTyped ==
    /\ Idle \in Hands
    /\ \A f \in Hands : \A to \in {"none", "recv", "send", "clear", "done"} :
          /\ [f EXCEPT !.pc = to] \in Hands
          /\ [f EXCEPT !.pc = to].pc = to
    /\ \A c \in Callers : \A x \in Frames : [pc |-> "send", tx |-> c, frame |-> x] \in Hands
  BY DEF Hands, Idle, Nobody, NoFrame

\* Frames are put at the end of a channel with room, and taken from its head.
LEMMA ChannelTyped ==
    ASSUME NEW s \in Seq(Frames), Len(s) <= ChannelSize
    PROVE  /\ Len(s) \in Nat
           /\ Len(s) < ChannelSize => \A x \in Frames : /\ Append(s, x) \in Seq(Frames)
                                                        /\ Len(Append(s, x)) <= ChannelSize
           /\ s # <<>> => /\ Head(s) \in Frames /\ Tail(s) \in Seq(Frames)
                          /\ Len(Tail(s)) <= ChannelSize
  BY BoundsTyped

-----------------------------------------------------------------------------

LEMMA RegistryInit == PRInit => RegistryInv
  <1> SUFFICES ASSUME PRInit PROVE RegistryInv
    OBVIOUS
  <1>1. /\ [Idle EXCEPT !.pc = "none"] \in Hands /\ [Idle EXCEPT !.pc = "none"].pc = "none"
        /\ \A c \in Callers : forwarder[c] = [Idle EXCEPT !.pc = "none"]
    BY HandsTyped DEF PRInit
  <1>2. PRTypeOK
    <2>1. forwarder \in [Callers -> Hands]
      BY <1>1 DEF PRInit
    <2>2. /\ pipe \in [Callers -> Seq(Frames)] /\ chan \in [Callers -> Seq(Frames)]
          /\ \A c \in Callers : Len(pipe[c]) <= ChannelSize /\ Len(chan[c]) <= ChannelSize
      <3>1. <<>> \in Seq(Frames) /\ Len(<<>>) = 0
        OBVIOUS
      <3> QED
        BY <3>1, BoundsTyped DEF PRInit
    <2>3. lines \in [Callers -> 0..MaxLines] /\ troubles \in 0..MaxTroubles
      BY BoundsTyped DEF PRInit
    <2>4. /\ alive \in [Callers -> BOOLEAN] /\ sink \in [Callers -> Callers \cup {Nobody}]
          /\ child \in [Callers -> {"none", "running", "exited"}] /\ call \in [Callers -> Pcs]
          /\ stdinOf \in [Callers -> Callers \cup {Nobody}] /\ entry \in Callers \cup {Nobody}
      BY DEF PRInit, Pcs
    <2>5. raced \in BOOLEAN /\ heard \subseteq Callers /\ cut \subseteq Callers /\ late \subseteq Callers
      BY DEF PRInit
    <2> QED
      BY <2>1, <2>2, <2>3, <2>4, <2>5 DEF PRTypeOK, Hands, Pcs
  <1>3. SendInv
    BY <1>1 DEF SendInv
  <1>4. ProcessInv /\ StartInv
    BY DEF PRInit, ProcessInv, StartInv, Starting
  <1> QED
    BY <1>2, <1>3, <1>4 DEF RegistryInv

\* A step that leaves the forwarders and what they forward alone.
LEMMA CallInv ==
    ASSUME RegistryInv, NEW c \in Callers, Check(c) \/ GetStdinTx(c) \/ Register(c) \/ StreamEnds(c)
    PROVE  RegistryInv'
  <1> USE DEF RegistryInv
  <1>1. PICK to \in Pcs : call' = [call EXCEPT ![c] = to]
    BY DEF Check, GetStdinTx, Register, StreamEnds, MoveTo, Pcs
  <1>2. entry' \in Callers \cup {Nobody} /\ stdinOf' \in [Callers -> Callers \cup {Nobody}]
    BY DEF Check, GetStdinTx, Register, StreamEnds, CallerFrame, PRTypeOK, Registered
  <1>3. raced' \in BOOLEAN
    BY Zenon DEF Check, GetStdinTx, Register, StreamEnds, CallerFrame, PRTypeOK
  <1>4. UNCHANGED <<alive, sink, pipe, child, lines, forwarder, chan, heard, cut, late, troubles>>
    BY DEF Check, GetStdinTx, Register, StreamEnds, CheckFrame, CallerFrame
  <1>5. PRTypeOK'
    BY <1>1, <1>2, <1>3, <1>4 DEF PRTypeOK, Pcs
  <1>6. SendInv'
    BY <1>4 DEF SendInv
  <1>7. ProcessInv'
    BY <1>4 DEF ProcessInv, PRTypeOK, Check, GetStdinTx, Register, StreamEnds, MoveTo, Open
  <1>8. StartInv'
    <2>1. CASE Check(c)
      <3>1. CASE Registered
        BY <1>4, <2>1, <3>1 DEF Check, MoveTo, Registered, IsRunning, StartInv, Starting, PRTypeOK
      <3>2. CASE ~Registered
        <4>1. entry' = Nobody /\ call' = [call EXCEPT ![c] = "spawn"] /\ call[c] = "idle"
          BY <2>1, <3>2 DEF Check, MoveTo, IsRunning
        <4>2. ~raced' => ~raced /\ Starting = {}
          BY <2>1, <3>2 DEF Check, IsRunning
        <4>3. ~raced' => \A p \in Callers : child[p] # "running"
          BY <4>2, <3>2, BoundsTyped DEF StartInv, ProcessInv, Starting, Registered
        <4>4. ~raced' => Starting' = {c}
          BY <4>1, <4>2 DEF Starting, PRTypeOK
        <4> QED
          BY <1>4, <4>3, <4>4 DEF StartInv
      <3> QED
        BY <3>1, <3>2
    <2>2. CASE GetStdinTx(c)
      <3>1. Starting' = Starting
        BY <2>2 DEF GetStdinTx, MoveTo, Starting, PRTypeOK
      <3>2. \A p \in Callers : call[p] = "register" => call'[p] = "register"
        BY <2>2 DEF GetStdinTx, MoveTo, PRTypeOK
      <3>3. \A p \in Callers : child[p] = "running" /\ entry = p => entry' = p
        BY <2>2 DEF GetStdinTx, Registered, ProcessInv, PRTypeOK
      <3> QED
        BY <1>4, <2>2, <3>1, <3>2, <3>3 DEF GetStdinTx, StartInv
    <2>3. CASE Register(c)
      <3>1. Starting' = Starting \ {c} /\ c \in Starting /\ entry' = c /\ raced' = raced
        BY <2>3 DEF Register, MoveTo, Starting, PRTypeOK
      <3> QED
        BY <1>4, <3>1 DEF StartInv
    <2>4. CASE StreamEnds(c)
      <3>1. Starting' = Starting /\ entry' = entry /\ raced' = raced
        BY <2>4 DEF StreamEnds, MoveTo, Starting, PRTypeOK, Open, CallerFrame
      <3>2. \A p \in Callers : call[p] = "register" => call'[p] = "register"
        BY <2>4 DEF StreamEnds, MoveTo, PRTypeOK, Open
      <3> QED
        BY <1>4, <3>1, <3>2 DEF StartInv
    <2> QED
      BY <2>1, <2>2, <2>3, <2>4
  <1> QED
    BY <1>5, <1>6, <1>7, <1>8

\* A step of the forwarder, of the process or of its caller changes neither
\* who starts a process nor what is registered, and starts none.
LEMMA StartKept ==
    ASSUME RegistryInv, UNCHANGED <<entry, raced>>,
           \A p \in Callers : /\ call'[p] = call[p] \/ (call[p] = "stream" /\ call'[p] = "closed")
                              /\ child'[p] = "running" => child[p] = "running" /\ alive'[p]
                              /\ child[p] = "none" => child'[p] = "none"
    PROVE  ProcessInv' /\ StartInv'
  <1>1. Starting' = Starting
    BY DEF Starting
  <1>2. \A p \in Callers : call[p] = "register" => call'[p] = "register"
    OBVIOUS
  <1>3. ProcessInv'
    BY DEF RegistryInv, ProcessInv
  <1>4. StartInv'
    BY <1>1, <1>2 DEF RegistryInv, StartInv
  <1> QED
    BY <1>3, <1>4

LEMMA SinkInv ==
    ASSUME RegistryInv, NEW c \in Callers, ReplaceOutputSink(c)
    PROVE  RegistryInv'
  <1> USE DEF RegistryInv
  <1>1. /\ UNCHANGED <<entry, alive, pipe, child, lines, forwarder, stdinOf, heard, raced, cut, troubles>>
        /\ call[c] = "sink"
        /\ call' = [call EXCEPT ![c] = "stream"] \/ call' = [call EXCEPT ![c] = "failed"]
    BY DEF ReplaceOutputSink, MoveTo
  <1>2. sink' \in [Callers -> Callers \cup {Nobody}] /\ late' \subseteq Callers
    <2>1. sink' = [sink EXCEPT ![entry] = c] \/ sink' = sink
      BY DEF ReplaceOutputSink
    <2>2. late' = late \cup {c} \/ late' = late
      BY Zenon DEF ReplaceOutputSink
    <2> QED
      BY <2>1, <2>2 DEF PRTypeOK
  <1>3. chan' \in [Callers -> Seq(Frames)] /\ \A d \in Callers : Len(chan'[d]) <= ChannelSize
    <2>1. PICK s \in Seq(Frames) : Len(s) <= ChannelSize /\ s = <<"ack">>
      <3>1. <<"ack">> \in Seq(Frames) /\ Len(<<"ack">>) = 1
        BY DEF Frames
      <3> QED
        BY <3>1, BoundsTyped
    <2>2. chan' = [chan EXCEPT ![c] = s] \/ chan' = chan
      <3>1. chan' = [chan EXCEPT ![c] = <<"ack">>] \/ chan' = chan
        BY DEF ReplaceOutputSink
      <3> QED
        BY <2>1, <3>1
    <2>3. /\ Len(s) <= ChannelSize /\ chan \in [Callers -> Seq(Frames)]
          /\ \A d \in Callers : Len(chan[d]) <= ChannelSize
      BY <2>1, Zenon DEF PRTypeOK
    <2> QED
      BY <2>2, <2>3
  <1>4. PRTypeOK'
    BY <1>1, <1>2, <1>3 DEF PRTypeOK
  <1>5. SendInv'
    BY <1>1 DEF SendInv
  <1>6. ProcessInv' /\ Starting' = Starting
    BY <1>1 DEF ProcessInv, Starting, PRTypeOK
  <1>7. StartInv'
    BY <1>1, <1>6 DEF StartInv, PRTypeOK
  <1> QED
    BY <1>4, <1>5, <1>6, <1>7

LEMMA SpawnInv ==
    ASSUME RegistryInv, NEW c \in Callers, Spawn(c)
    PROVE  RegistryInv'
  <1> USE DEF RegistryInv
  <1>1. /\ UNCHANGED <<entry, pipe, lines, stdinOf, chan, heard, raced, cut, late>>
        /\ call[c] = "spawn"
    BY DEF Spawn
  <1>2. CASE call' = [call EXCEPT ![c] = "register"]
    <2>1. /\ child' = [child EXCEPT ![c] = "running"] /\ alive' = [alive EXCEPT ![c] = TRUE]
          /\ sink' = [sink EXCEPT ![c] = c] /\ forwarder' = [forwarder EXCEPT ![c] = Idle]
          /\ troubles' = troubles
      <3>1. call' # [call EXCEPT ![c] = "failed"]
        BY <1>2 DEF PRTypeOK
      <3> QED
        BY <3>1 DEF Spawn, MoveTo
    <2>2. forwarder \in [Callers -> Hands]
      BY DEF PRTypeOK, Hands
    <2>3. forwarder' \in [Callers -> Hands]
      BY <2>1, <2>2, HandsTyped
    <2>4. PRTypeOK'
      BY <1>1, <1>2, <2>1, <2>3 DEF PRTypeOK, Hands
    <2>5. SendInv'
      BY <2>1, <2>2 DEF SendInv, Idle
    <2>6. ProcessInv'
      BY <1>1, <1>2, <2>1 DEF ProcessInv, PRTypeOK
    <2>7. Starting' = Starting /\ c \in Starting
      BY <1>1, <1>2 DEF Starting, PRTypeOK
    <2>8. StartInv'
      BY <1>1, <1>2, <2>1, <2>7 DEF StartInv, PRTypeOK
    <2> QED
      BY <2>4, <2>5, <2>6, <2>8
  <1>3. CASE call' # [call EXCEPT ![c] = "register"]
    <2>1. /\ call' = [call EXCEPT ![c] = "failed"]
          /\ UNCHANGED <<child, alive, sink, forwarder>>
          /\ troubles < MaxTroubles /\ troubles' = troubles + 1
      BY <1>3 DEF Spawn, MoveTo
    <2>2. PRTypeOK'
      BY <1>1, <2>1, BoundsTyped DEF PRTypeOK
    <2>3. SendInv'
      BY <2>1 DEF SendInv
    <2>4. ProcessInv'
      BY <2>1 DEF ProcessInv, PRTypeOK
    <2>5. Starting' = Starting \ {c}
      BY <2>1 DEF Starting, PRTypeOK
    <2>6. StartInv'
      <3>1. \A p \in Callers : call[p] = "register" => call'[p] = "register"
        BY <1>1, <2>1 DEF PRTypeOK
      <3> QED
        BY <1>1, <2>1, <2>5, <3>1 DEF StartInv
    <2> QED
      BY <2>2, <2>3, <2>4, <2>6
  <1> QED
    BY <1>2, <1>3

LEMMA WriteInv ==
    ASSUME RegistryInv, NEW p \in Callers, Write(p)
    PROVE  RegistryInv'
  <1> USE DEF RegistryInv
  <1>1. /\ UNCHANGED <<entry, alive, sink, forwarder, call, stdinOf, chan, heard, raced, cut, late, troubles>>
        /\ child' \in [Callers -> {"none", "running", "exited"}]
        /\ \A q \in Callers : child'[q] = child[q] \/ (child[q] = "running" /\ child'[q] = "exited")
    BY DEF Write, PRTypeOK
  <1>2. lines' \in [Callers -> 0..MaxLines]
    <2>1. lines' = lines \/ (lines[p] < MaxLines /\ lines' = [lines EXCEPT ![p] = lines[p] + 1])
      BY DEF Write
    <2>2. lines[p] \in 0..MaxLines
      BY DEF PRTypeOK
    <2>3. lines[p] < MaxLines => lines[p] + 1 \in 0..MaxLines
      BY <2>2, BoundsTyped
    <2> QED
      BY <2>1, <2>3 DEF PRTypeOK
  <1>3. pipe' \in [Callers -> Seq(Frames)] /\ \A q \in Callers : Len(pipe'[q]) <= ChannelSize
    <2>1. PICK x \in Frames : pipe' = [pipe EXCEPT ![p] = Append(pipe[p], x)]
      BY DEF Write, Frames
    <2>2. Append(pipe[p], x) \in Seq(Frames) /\ Len(Append(pipe[p], x)) <= ChannelSize
      BY ChannelTyped DEF Write, PRTypeOK
    <2> QED
      BY <2>1, <2>2 DEF PRTypeOK
  <1>4. PRTypeOK'
    BY <1>1, <1>2, <1>3 DEF PRTypeOK
  <1>5. SendInv'
    BY <1>1 DEF SendInv
  <1>6. ProcessInv' /\ StartInv'
    BY <1>1, StartKept DEF ProcessInv
  <1> QED
    BY <1>4, <1>5, <1>6

\* The forwarder's steps: what each one does to the channels and to its hands.
LEMMA ForwardInv ==
    ASSUME RegistryInv, NEW p \in Callers, Forward(p)
    PROVE  RegistryInv'
  <1> USE DEF RegistryInv
  <1>1. UNCHANGED <<entry, child, lines, call, stdinOf, heard, raced, late, troubles>>
    BY DEF Forward, Receive, Send, ClearSink, MarkDead, ForwardFrame
  <1>2. alive' \in [Callers -> BOOLEAN] /\ \A q \in Callers : child[q] = "running" => alive'[q]
    <2>1. alive' = alive \/ (alive' = [alive EXCEPT ![p] = FALSE] /\ child[p] = "exited")
      BY DEF Forward, Receive, Send, ClearSink, MarkDead, Marked
    <2> QED
      BY <2>1 DEF PRTypeOK, ProcessInv
  <1>3. sink' \in [Callers -> Callers \cup {Nobody}] /\ cut' \subseteq Callers
    <2>1. /\ sink' = sink \/ sink' = [sink EXCEPT ![p] = Nobody]
          /\ cut' = cut \/ (sink[p] # Nobody /\ cut' = cut \cup {sink[p]})
      BY DEF Forward, Receive, Send, ClearSink, MarkDead
    <2> QED
      BY <2>1 DEF PRTypeOK
  <1>4. pipe' \in [Callers -> Seq(Frames)] /\ \A q \in Callers : Len(pipe'[q]) <= ChannelSize
    <2>1. CASE Receive(p)
      <3>1. Tail(pipe[p]) \in Seq(Frames) /\ Len(Tail(pipe[p])) <= ChannelSize
        BY <2>1, ChannelTyped DEF Receive, PRTypeOK
      <3> QED
        BY <2>1, <3>1 DEF Receive, PRTypeOK
    <2>2. CASE Send(p) \/ ClearSink(p) \/ MarkDead(p)
      BY <2>2 DEF Send, ClearSink, MarkDead, PRTypeOK
    <2> QED
      BY <2>1, <2>2 DEF Forward
  <1>5. chan' \in [Callers -> Seq(Frames)] /\ \A q \in Callers : Len(chan'[q]) <= ChannelSize
    <2>1. CASE Send(p) /\ chan' # chan
      <3> DEFINE c == forwarder[p].tx
      <3>1. /\ forwarder[p].pc = "send" /\ Len(chan[c]) < ChannelSize
            /\ chan' = [chan EXCEPT ![c] = Append(chan[c], forwarder[p].frame)]
        BY <2>1 DEF Send, Room
      <3>2. c \in Callers /\ forwarder[p].frame \in Frames
        BY <3>1 DEF SendInv
      <3>3. /\ Append(chan[c], forwarder[p].frame) \in Seq(Frames)
            /\ Len(Append(chan[c], forwarder[p].frame)) <= ChannelSize
        BY <3>1, <3>2, ChannelTyped DEF PRTypeOK
      <3> QED
        BY <3>1, <3>2, <3>3 DEF PRTypeOK
    <2>2. CASE chan' = chan
      BY <2>2 DEF PRTypeOK
    <2> QED
      BY <2>1, <2>2 DEF Forward, Receive, ClearSink, MarkDead
  <1>6. forwarder' \in [Callers -> Hands] /\ SendInv'
    <2>1. forwarder \in [Callers -> Hands] /\ forwarder[p] \in Hands
      BY DEF PRTypeOK, Hands
    <2>2. PICK h : forwarder' = [forwarder EXCEPT ![p] = h] /\ h \in Hands
                   /\ (h.pc = "send" => h.tx \in Callers /\ h.frame \in Frames)
      <3>1. CASE Receive(p)
        <4>1. Head(pipe[p]) \in Frames
          BY <3>1, ChannelTyped DEF Receive, PRTypeOK
        <4>2. CASE sink[p] = Nobody
          <5>1. forwarder' = [forwarder EXCEPT ![p] = Idle]
            BY <3>1, <4>2 DEF Receive
          <5>2. Idle \in Hands
            BY HandsTyped
          <5>3. Idle.pc # "send"
            BY DEF Idle
          <5> QED
            BY <5>1, <5>2, <5>3
        <4>3. CASE sink[p] # Nobody
          <5>1. sink[p] \in Callers
            BY <4>3 DEF PRTypeOK
          <5> QED
            <6> DEFINE h == [pc |-> "send", tx |-> sink[p], frame |-> Head(pipe[p])]
            <6>1. forwarder' = [forwarder EXCEPT ![p] = h]
              BY <3>1, <4>3 DEF Receive
            <6>2. h \in Hands
              BY <4>1, <5>1, HandsTyped
            <6>3. h.tx = sink[p] /\ h.frame = Head(pipe[p])
              OBVIOUS
            <6> HIDE DEF h
            <6> QED
              BY <4>1, <5>1, <6>1, <6>2, <6>3
        <4> QED
          BY <4>2, <4>3
      <3>2. CASE Send(p)
        <4>1. /\ forwarder' = [forwarder EXCEPT ![p].pc = "clear"]
              \/ forwarder' = [forwarder EXCEPT ![p] = Idle]
          BY <3>2 DEF Send
        <4>2. Idle.pc = "recv"
          BY DEF Idle
        <4> QED
          BY <2>1, <4>1, <4>2, HandsTyped
      <3>3. CASE ClearSink(p)
        BY <3>3, HandsTyped DEF ClearSink, Idle
      <3>4. CASE MarkDead(p)
        BY <2>1, <3>4, HandsTyped DEF MarkDead
      <3> QED
        BY <3>1, <3>2, <3>3, <3>4 DEF Forward
    <2> QED
      BY <2>1, <2>2 DEF SendInv
  <1>7. PRTypeOK'
    BY <1>1, <1>2, <1>3, <1>4, <1>5, <1>6 DEF PRTypeOK, Hands
  <1>8. ProcessInv' /\ StartInv'
    BY <1>1, <1>2, StartKept
  <1> QED
    BY <1>6, <1>7, <1>8

LEMMA CallerInv ==
    ASSUME RegistryInv, NEW c \in Callers, Read(c) \/ Close(c)
    PROVE  RegistryInv'
  <1> USE DEF RegistryInv
  <1>1. /\ UNCHANGED <<entry, alive, sink, pipe, child, lines, forwarder, stdinOf, raced, cut, late>>
        /\ call' = call \/ (call[c] = "stream" /\ call' = [call EXCEPT ![c] = "closed"])
    BY DEF Read, Close, CallerFrame, MoveTo, Open
  <1>2. heard' \subseteq Callers /\ troubles' \in 0..MaxTroubles
    BY BoundsTyped DEF Read, Close, PRTypeOK
  <1>3. chan' \in [Callers -> Seq(Frames)] /\ \A q \in Callers : Len(chan'[q]) <= ChannelSize
    <2>1. PICK s \in Seq(Frames) : chan' = [chan EXCEPT ![c] = s] /\ Len(s) <= ChannelSize
      <3>1. CASE Read(c)
        <4>1. Tail(chan[c]) \in Seq(Frames) /\ Len(Tail(chan[c])) <= ChannelSize
          BY <3>1, ChannelTyped DEF Read, PRTypeOK
        <4> QED
          BY <3>1, <4>1 DEF Read
      <3>2. CASE Close(c)
        <4>1. <<>> \in Seq(Frames) /\ Len(<<>>) = 0
          OBVIOUS
        <4> QED
          <5>1. chan' = [chan EXCEPT ![c] = <<>>] /\ 0 <= ChannelSize
            BY <3>2, BoundsTyped DEF Close
          <5> QED
            BY <4>1, <5>1
      <3> QED
        BY <3>1, <3>2
    <2> QED
      BY <2>1 DEF PRTypeOK
  <1>4. PRTypeOK'
    BY <1>1, <1>2, <1>3 DEF PRTypeOK
  <1>5. SendInv'
    BY <1>1 DEF SendInv
  <1>6. ProcessInv' /\ StartInv'
    <2>1. \A p \in Callers : call'[p] = call[p] \/ (call[p] = "stream" /\ call'[p] = "closed")
      BY <1>1 DEF PRTypeOK
    <2> QED
      BY <1>1, <2>1, StartKept DEF ProcessInv
  <1> QED
    BY <1>4, <1>5, <1>6

\* Reaping takes the entry of a process that has been marked dead, which does
\* not run.
LEMMA ReapInv ==
    ASSUME RegistryInv, Reap
    PROVE  RegistryInv'
  <1> USE DEF RegistryInv
  <1>1. /\ UNCHANGED <<call, stdinOf, raced, alive, sink, pipe, child, lines, forwarder, chan, heard, cut,
                       late, troubles>>
        /\ entry # Nobody /\ ~alive[entry] /\ entry' = Nobody
    BY DEF Reap, CheckFrame
  <1>2. PRTypeOK'
    BY <1>1 DEF PRTypeOK
  <1>3. SendInv' /\ ProcessInv' /\ Starting' = Starting
    BY <1>1 DEF SendInv, ProcessInv, Starting
  <1>4. StartInv'
    BY <1>1, <1>3 DEF StartInv, ProcessInv, PRTypeOK
  <1> QED
    BY <1>2, <1>3, <1>4

LEMMA RegistryStep == RegistryInv /\ [PRNext]_prVars => RegistryInv'
  <1> SUFFICES ASSUME RegistryInv, [PRNext]_prVars PROVE RegistryInv'
    OBVIOUS
  <1>1. CASE \E c \in Callers : \/ Check(c) \/ SpawnLongLived(c) \/ Write(c) \/ Forward(c)
                                \/ Read(c) \/ StreamEnds(c) \/ Close(c)
    BY <1>1, CallInv, SinkInv, SpawnInv, WriteInv, ForwardInv, CallerInv DEF SpawnLongLived
  <1>2. CASE Reap
    BY <1>2, ReapInv
  <1>3. CASE UNCHANGED prVars
    <2>1. Starting' = Starting
      BY <1>3 DEF prVars, Starting
    <2> QED
      BY <1>3, <2>1 DEF prVars, RegistryInv, PRTypeOK, SendInv, ProcessInv, StartInv
  <1> QED
    BY <1>1, <1>2, <1>3 DEF PRNext

-----------------------------------------------------------------------------

\* The inductive invariant holds in every state.
THEOREM RegistryCorrect == PRSpec => []RegistryInv
  <1> QED
    BY RegistryInit, RegistryStep, PTL DEF PRSpec

\* Every variable holds a value of its kind: in particular no channel of
\* registry.rs or of forward_output_via_sink ever holds more than its size.
THEOREM RegistryTypeCorrect == PRSpec => []PRTypeOK
  <1>1. RegistryInv => PRTypeOK
    BY DEF RegistryInv
  <1> QED
    BY <1>1, RegistryCorrect, PTL

\* Unless two requests have raced between is_running and register, a key has one
\* process at a time, and a running process is registered or about to be.
THEOREM OneProcessCorrect == PRSpec => []OneProcess
  <1>1. RegistryInv => OneProcess
    BY DEF RegistryInv, StartInv, Starting, OneProcess
  <1> QED
    BY <1>1, RegistryCorrect, PTL
=============================================================================
