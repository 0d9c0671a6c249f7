------------------------------ MODULE Overlay ------------------------------
(***************************************************************************)
(* LocalOverlayManager of crates/builderd/src/overlay.rs and the exec      *)
(* handler that brackets git commands with it: before a git command runs   *)
(* in a pool slot the local overlay files are taken out of the working     *)
(* tree, and after the last one has left they are put back.  The worker    *)
(* edits the files through the mounted slot at any time, a caller may go   *)
(* away while its command waits, and builderd may stop.                    *)
(*                                                                         *)
(* One slot, after apply has installed the overlays.  A file's content is  *)
(* the version of the overlay it holds, or what git has for it.            *)
(***************************************************************************)
EXTENDS Integers, FiniteSets

CONSTANTS
    Cmds,       \* git commands that run in the slot, one exec RPC each
    Tracked,    \* overlay files that git tracks
    Untracked,  \* overlay files that git does not track
    MaxEdits,   \* bound: edits of the worker
    MaxCancels, \* bound: RPCs dropped before their command runs
    MaxFaults,  \* bound: failing file and git operations
    MaxCrashes  \* bound: restarts of builderd

ASSUME CmdsAssumption == IsFiniteSet(Cmds) /\ "none" \notin Cmds
ASSUME FilesAssumption == Tracked \cap Untracked = {}
ASSUME BoundsAssumption == {MaxEdits, MaxCancels, MaxFaults, MaxCrashes} \subseteq Nat

None == "none"
Files == Tracked \cup Untracked

\* What git has at the path, and nothing at all; a version of the overlay is a
\* natural number, 0 the one apply installed.
Repo == -1
Absent == -2
Version == 0..MaxEdits

VARIABLES
    wt,      \* the working tree
    files,   \* <slot>/.git/ur-overlay/files
    bits,    \* paths with the skip-worktree bit
    pinned,  \* <slot>/.git/ur-overlay/pinned
    active,  \* bracketed commands in flight
    holder,  \* the command that holds the counter's lock
    pc,      \* where each command is
    edited,  \* observer: the last edit of each file
    broken   \* observer: something kept the overlays from being put back
VARIABLES edits, cancels, faults, crashes

disk == <<wt, files, bits, pinned, edited>>
counters == <<edits, cancels, faults, crashes>>
vars == <<disk, active, holder, pc, broken, counters>>

Pc == {"idle", "enter", "capture", "unpin", "remove", "checkout", "concealed", "undo_copy",
       "undo_pin", "running", "leave", "failed", "copy", "pin", "dropped", "done"}

Concealing == {"capture", "unpin", "remove", "checkout", "concealed", "undo_copy", "undo_pin"}

Goto(c, to) == pc' = [pc EXCEPT ![c] = to]

Fault == faults < MaxFaults /\ faults' = faults + 1

\* Mutant: reveal copies the files back and leaves the index alone.
PinSkipped == UNCHANGED <<bits, pinned, broken, faults>>

\* The second half of reveal: the bits, then the list of them.
PinTracked ==
    \/ bits' = bits \cup Tracked /\ pinned' = Tracked /\ UNCHANGED <<broken, faults>>
    \/ Fault /\ bits' \in {bits, bits \cup Tracked} /\ broken' = TRUE /\ UNCHANGED pinned

-----------------------------------------------------------------------------
(* conceal_for *)

Exec(c) ==
    /\ pc[c] = "idle"
    /\ Goto(c, "enter")
    /\ UNCHANGED <<disk, active, holder, broken, counters>>

\* Only the first command in the slot conceals.
First == active = 0

Enter(c) ==
    /\ pc[c] = "enter" /\ holder = None
    /\ IF First
       THEN Goto(c, "capture") /\ holder' = c /\ UNCHANGED active
       ELSE Goto(c, "running") /\ active' = active + 1 /\ UNCHANGED holder
    /\ UNCHANGED <<disk, broken, counters>>

\* Whatever regular file is at the path is taken for the worker's version.
Captured == [f \in Files |-> IF wt[f] = Absent THEN files[f] ELSE wt[f]]

Capture(c) ==
    /\ pc[c] = "capture"
    /\ \/ files' = Captured /\ Goto(c, "unpin") /\ UNCHANGED faults
       \/ Fault /\ Goto(c, "undo_copy") /\ UNCHANGED files
    /\ UNCHANGED <<wt, bits, pinned, edited, active, holder, broken, edits, cancels, crashes>>

Unpin(c) ==
    /\ pc[c] = "unpin"
    /\ \/ bits' = bits \ pinned /\ Goto(c, "remove") /\ UNCHANGED faults
       \/ Fault /\ Goto(c, "undo_copy") /\ UNCHANGED bits
    /\ UNCHANGED <<wt, files, pinned, edited, active, holder, broken, edits, cancels, crashes>>

Remove(c) ==
    /\ pc[c] = "remove"
    /\ \/ /\ wt' = [f \in Files |-> IF f \in Untracked THEN Absent ELSE wt[f]]
          /\ Goto(c, "checkout") /\ UNCHANGED faults
       \/ Fault /\ Goto(c, "undo_copy") /\ UNCHANGED wt
    /\ UNCHANGED <<files, bits, pinned, edited, active, holder, broken, edits, cancels, crashes>>

\* Mutant: the counter's lock is not given back after the conceal.
CheckoutKeepsLock(c) ==
    /\ \/ /\ pc[c] = "checkout"
          /\ wt' = [f \in Files |-> IF f \in Tracked THEN Repo ELSE wt[f]]
          /\ Goto(c, "concealed") /\ UNCHANGED active
       \/ /\ pc[c] = "concealed"
          /\ active' = active + 1
          /\ Goto(c, "running") /\ UNCHANGED wt
    /\ UNCHANGED <<files, bits, pinned, edited, holder, broken, counters>>

\* git checkout, a process of its own, and then the return of conceal: the
\* child runs as soon as the lock is given back.
Checkout(c) ==
    /\ \/ /\ pc[c] = "checkout"
          /\ \/ /\ wt' = [f \in Files |-> IF f \in Tracked THEN Repo ELSE wt[f]]
                /\ Goto(c, "concealed") /\ UNCHANGED faults
             \/ Fault /\ Goto(c, "undo_copy") /\ UNCHANGED wt
          /\ UNCHANGED <<active, holder>>
       \/ /\ pc[c] = "concealed"
          /\ active' = active + 1
          /\ holder' = None
          /\ Goto(c, "running")
          /\ UNCHANGED <<wt, faults>>
    /\ UNCHANGED <<files, bits, pinned, edited, broken, edits, cancels, crashes>>

\* A command that could not conceal, or be started, puts the overlays back and fails.
Undo(c) ==
    /\ \/ /\ pc[c] = "undo_copy"
          /\ \/ wt' = files /\ Goto(c, "undo_pin") /\ UNCHANGED <<holder, broken, faults>>
             \/ Fault /\ Goto(c, "done") /\ holder' = None /\ broken' = TRUE /\ UNCHANGED wt
          /\ UNCHANGED <<bits, pinned>>
       \/ /\ pc[c] = "undo_pin"
          /\ PinTracked
          /\ Goto(c, "done") /\ holder' = None
          /\ UNCHANGED wt
    /\ UNCHANGED <<files, edited, active, edits, cancels, crashes>>

-----------------------------------------------------------------------------
(* The command, and reveal_after. *)

\* The child has exited, and a task of its own reveals; or it could not be
\* started, and the reveal is left to the future of the caller.
Exit(c) ==
    /\ pc[c] = "running"
    /\ Goto(c, "leave") \/ Goto(c, "failed")
    /\ UNCHANGED <<disk, active, holder, broken, counters>>

\* Mutant: whoever leaves reveals.
LastAlways == TRUE

\* Only the last command reveals.
Last == active = 1

Leave(c) ==
    /\ pc[c] \in {"leave", "failed"} /\ holder = None
    /\ active' = active - 1
    /\ IF Last
       THEN Goto(c, IF pc[c] = "failed" THEN "undo_copy" ELSE "copy") /\ holder' = c
       ELSE Goto(c, "done") /\ UNCHANGED holder
    /\ UNCHANGED <<disk, broken, counters>>

\* The last command puts the overlays back.
Reveal(c) ==
    /\ \/ /\ pc[c] = "copy"
          /\ \/ wt' = files /\ Goto(c, "pin") /\ UNCHANGED <<holder, broken, faults>>
             \/ Fault /\ Goto(c, "done") /\ holder' = None /\ broken' = TRUE /\ UNCHANGED wt
          /\ UNCHANGED <<bits, pinned>>
       \/ /\ pc[c] = "pin"
          /\ PinTracked
          /\ Goto(c, "done") /\ holder' = None
          /\ UNCHANGED wt
    /\ UNCHANGED <<files, edited, active, edits, cancels, crashes>>

-----------------------------------------------------------------------------
(* The worker, callers that go away, and restarts. *)

\* The worker writes the next version of a file, wherever the commands are.
Edit(f) ==
    /\ edits < MaxEdits
    /\ edits' = edits + 1
    /\ wt' = [wt EXCEPT ![f] = edits + 1]
    /\ edited' = [edited EXCEPT ![f] = edits + 1]
    /\ UNCHANGED <<files, bits, pinned, active, holder, pc, broken, cancels, faults, crashes>>

\* The caller goes away: the future of spawn_command is dropped where it waits
\* and with it the lock; dropped before its reveal the command stays counted.
Cancel(c) ==
    /\ pc[c] \in {"enter", "failed"} \cup Concealing
    /\ cancels < MaxCancels
    /\ cancels' = cancels + 1
    /\ Goto(c, IF pc[c] = "failed" THEN "dropped" ELSE "done")
    /\ holder' = IF holder = c THEN None ELSE holder
    /\ broken' = (broken \/ pc[c] # "enter")
    /\ UNCHANGED <<disk, active, edits, faults, crashes>>

\* builderd stops and starts: the counters are gone, the slot stays as it is.
Crash ==
    /\ crashes < MaxCrashes
    /\ crashes' = crashes + 1
    /\ active' = 0 /\ holder' = None
    /\ broken' = (broken \/ active > 0 \/ holder # None)
    /\ pc' = [c \in Cmds |-> IF pc[c] = "idle" THEN "idle" ELSE "done"]
    /\ UNCHANGED <<disk, edits, cancels, faults>>

-----------------------------------------------------------------------------

\* apply has copied version 0 into files and revealed it.
Init ==
    /\ wt = [f \in Files |-> 0] /\ files = [f \in Files |-> 0]
    /\ bits = Tracked /\ pinned = Tracked
    /\ active = 0 /\ holder = None
    /\ pc = [c \in Cmds |-> "idle"]
    /\ edited = [f \in Files |-> 0] /\ broken = FALSE
    /\ edits = 0 /\ cancels = 0 /\ faults = 0 /\ crashes = 0

Step(c) ==
    \/ Enter(c) \/ Capture(c) \/ Unpin(c) \/ Remove(c) \/ Checkout(c) \/ Undo(c)
    \/ Exit(c) \/ Leave(c) \/ Reveal(c)

Next ==
    \/ \E c \in Cmds : Exec(c) \/ Step(c) \/ Cancel(c)
    \/ \E f \in Files : Edit(f)
    \/ Crash

Spec == Init /\ [][Next]_vars

\* The tasks of builderd run and git commands end.
FairSpec == Spec /\ \A c \in Cmds : WF_vars(Step(c))

-----------------------------------------------------------------------------
(* Properties *)

Content == Version \cup {Repo, Absent}

\* Every variable holds a value of its kind.
TypeOK ==
    /\ wt \in [Files -> Content] /\ files \in [Files -> Version \cup {Repo}]
    /\ edited \in [Files -> Version] /\ broken \in BOOLEAN
    /\ bits \subseteq Tracked /\ pinned \subseteq Tracked
    /\ active \in 0..Cardinality(Cmds)
    /\ holder \in Cmds \cup {None} /\ pc \in [Cmds -> Pc]
    /\ edits \in 0..MaxEdits /\ cancels \in 0..MaxCancels
    /\ faults \in 0..MaxFaults /\ crashes \in 0..MaxCrashes

\* No git command sees an overlay while it runs, whichever of several commands
\* concealed them and whoever leaves first: the tree does not hold what was
\* captured and no overlay keeps its skip-worktree bit.
GitSeesNoOverlay ==
    (\E c \in Cmds : pc[c] = "running") /\ ~broken =>
        (\A f \in Files : wt[f] # files[f]) /\ bits \cap pinned = {}

\* Between commands the worker has its overlays, and a conceal that failed has
\* put them back ("a failed conceal never leaves the worker without its
\* overlays", overlay.rs).
OverlaysBack ==
    active = 0 /\ holder = None /\ ~broken =>
        (\A f \in Files : wt[f] \in Version) /\ bits = Tracked

\* Every command gets its turn and ends, or its caller has left: no lock of the
\* counter is kept.
CommandsEnd == \A c \in Cmds : pc[c] = "enter" ~> pc[c] \in {"done", "dropped"}

\* The overlay is never replaced by the repository's version of the file: it is
\* the worker's copy that is captured and put back ("a failed conceal never
\* leaves the worker without its overlays").
OverlayKept == \A f \in Files : files[f] # Repo

\* "Copy each overlay's current working-tree content back into files/, so
\* worker edits to an overlay persist": between commands the tree holds the
\* last edit.
EditsPersist ==
    active = 0 /\ holder = None => \A f \in Files : wt[f] = edited[f]
=============================================================================
