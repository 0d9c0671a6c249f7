--------------------------- MODULE ClientProofs ---------------------------
(***************************************************************************)
(* Proofs about the two programs that the user runs: the commands of the   *)
(* host, for any number of commands, process ids, worker containers and    *)
(* dumps, any number of troubles, and any number of dumps to retain; and   *)
(* the terminal interface, for any number of workflows, any size of a page *)
(* and any number of keys, drafts, changes, faults and requests.           *)
(***************************************************************************)
EXTENDS HostStack, Urui, SequenceTheorems, FiniteSetTheorems, TLAPS

-----------------------------------------------------------------------------
(* The inductive invariant: the commands and builderd. *)

\* A command that stops the server has the rest of its phases to go.
StopsFirst(todo) == \A i \in 1..Len(todo) : todo[i] = "stop" => i < Len(todo)
InOrder(r) == StopsFirst(r.todo) /\ (r.pc \in {"list", "stopWorkers", "running"} => r.todo # <<>>)
TodoInv == \A c \in Commands : InOrder(cmd[c])

\* Whoever starts builderd holds the lock; the pid at hand is one of a process.
LockInv ==
    \A c \in Commands : /\ Starting(cmd[c]) => lock = c
                        /\ cmd[c].pc \in {"write", "kill"} => cmd[c].pid \in Pids

Lives(p) == proc[p] \in {"starting", "serving"}

\* Unless a start and a stop of builderd have overlapped: none do, the PID file
\* is gone when a start has come to spawn, and names no builderd that lives
\* when a command is about to remove it.
FileInv ==
    ~raced =>
        /\ \A c, d \in Commands : ~Overlap(cmd[c], cmd[d])
        /\ \A c \in Commands :
            /\ cmd[c].pc \in {"spawn", "write"} => pidFile = None
            /\ cmd[c].pc \in {"stale", "remove"} => pidFile = None \/ ~Lives(pidFile)
            /\ cmd[c].pc = "kill" => pidFile \in {None, cmd[c].pid}

(* The dumps. *)

ManualKept == \E t \in DOMAIN dumps : dumps[t].manual /\ dumps[t].state = "complete"

\* No clean-up removes a manual dump.  The dump that the server waits for is an
\* automatic one; when it is gone, a clean-up after a manual dump has removed it.
DumpInv ==
    /\ \A t \in DOMAIN dumps : dumps[t].manual => dumps[t].state # "removed"
    /\ auto # 0 => ~dumps[auto].manual /\ (dumps[auto].state = "removed" => ManualKept)
    /\ \A c \in Commands : At(c, "dumping") => cmd[c].dump \in DOMAIN dumps /\ dumps[cmd[c].dump].manual

BuilderdInv == TodoInv /\ LockInv /\ FileInv /\ Findable
BackupInv == DumpInv /\ GoodDumpKept

IInv == TypeOK /\ BuilderdInv /\ BackupInv

-----------------------------------------------------------------------------
(* Commands and their phases. *)

\* The places where a command is at work on neither builderd nor a dump.
Rest == {"idle", "lock", "exists", "down", "up", "list", "stopWorkers", "running", "composeDown", "recreate", "dump"}

LEMMA PhasesTyped ==
    ASSUME NEW op \in Ops
    PROVE  Phases(op) \in Seq(Phase) /\ StopsFirst(Phases(op))
  <1>1. /\ <<"start", "up">> \in Seq(Phase) /\ StopsFirst(<<"start", "up">>)
        /\ <<"stop", "stopBuilderd">> \in Seq(Phase) /\ StopsFirst(<<"stop", "stopBuilderd">>)
        /\ <<"stopBuilderd", "start">> \in Seq(Phase) /\ StopsFirst(<<"stopBuilderd", "start">>)
        /\ <<"recreate">> \in Seq(Phase) /\ StopsFirst(<<"recreate">>)
        /\ <<"dump">> \in Seq(Phase) /\ StopsFirst(<<"dump">>)
    BY DEF Phase, StopsFirst
  <1>2. /\ <<"stop", "stopBuilderd", "start", "up">> \in Seq(Phase)
        /\ StopsFirst(<<"stop", "stopBuilderd", "start", "up">>)
    BY DEF Phase, StopsFirst
  <1>3. /\ <<"stopBuilderd", "start", "recreate">> \in Seq(Phase)
        /\ StopsFirst(<<"stopBuilderd", "start", "recreate">>)
    BY DEF Phase, StopsFirst
  <1>4. /\ op = "start" => Phases(op) = <<"start", "up">>
        /\ op = "stop" => Phases(op) = <<"stop", "stopBuilderd">>
        /\ op = "restart" => Phases(op) = <<"stop", "stopBuilderd", "start", "up">>
        /\ op = "builderd" => Phases(op) = <<"stopBuilderd", "start">>
        /\ op = "server" => Phases(op) = <<"recreate">>
        /\ op = "all" => Phases(op) = <<"stopBuilderd", "start", "recreate">>
        /\ op = "backup" => Phases(op) = <<"dump">>
    BY DEF Phases
  <1>5. \/ op = "start" \/ op = "stop" \/ op = "restart" \/ op = "builderd" \/ op = "server"
        \/ op = "all" \/ op = "backup"
    BY DEF Ops
  <1> QED
    BY <1>1, <1>2, <1>3, <1>4, <1>5, Zenon

LEMMA TailTyped ==
    ASSUME NEW todo \in Seq(Phase), StopsFirst(todo), todo # <<>>
    PROVE  /\ Head(todo) \in Phase /\ Tail(todo) \in Seq(Phase) /\ StopsFirst(Tail(todo))
           /\ Head(todo) = "stop" => Tail(todo) # <<>>
  <1>1. Head(todo) \in Phase /\ Tail(todo) \in Seq(Phase) /\ Len(Tail(todo)) = Len(todo) - 1 /\ Len(todo) \in Nat
    OBVIOUS
  <1>2. \A i \in 1..Len(Tail(todo)) : Tail(todo)[i] = todo[i + 1]
    OBVIOUS
  <1>3. StopsFirst(Tail(todo))
    BY <1>1, <1>2 DEF StopsFirst
  <1>4. ASSUME Head(todo) = "stop" PROVE Tail(todo) # <<>>
    <2>1. todo[1] = "stop"
      BY <1>4
    <2>2. 1 \in 1..Len(todo)
      BY <1>1
    <2>3. Len(todo) > 1
      BY <1>1, <2>1, <2>2 DEF StopsFirst
    <2>4. Len(Tail(todo)) # 0
      BY <1>1, <2>3
    <2>5. Len(<<>>) = 0
      OBVIOUS
    <2> QED
      BY <2>4, <2>5, Zenon
  <1> QED
    BY <1>1, <1>3, <1>4

LEMMA NoCommandTyped ==
    NoCommand \in Command /\ InOrder(NoCommand) /\ NoCommand.pc = "idle" /\ NoCommand.pc \in Rest
  <1>1. <<>> \in Seq(Phase) /\ StopsFirst(<<>>)
    BY DEF StopsFirst
  <1>2. NoCommand.pc = "idle" /\ NoCommand.todo = <<>>
    BY DEF NoCommand
  <1>3. NoCommand \in Command
    BY <1>1 DEF NoCommand, Command, Place
  <1> QED
    BY <1>1, <1>2, <1>3 DEF InOrder, Rest

LEMMA FieldsTyped ==
    ASSUME NEW r \in Command
    PROVE  /\ r.todo \in Seq(Phase) /\ r.pc \in Place /\ r.pid \in Pids \cup {None}
           /\ r.seen \subseteq Workers /\ r.dump \in Nat
           /\ \A pc \in Place : /\ [r EXCEPT !.pc = pc] \in Command
                                /\ [r EXCEPT !.pc = pc].pc = pc /\ [r EXCEPT !.pc = pc].todo = r.todo
                                /\ [r EXCEPT !.pc = pc].pid = r.pid
  BY DEF Command

LEMMA SeenTyped ==
    ASSUME NEW r \in Command, NEW s \in SUBSET Workers
    PROVE  /\ [r EXCEPT !.pc = "stopWorkers", !.seen = s] \in Command
           /\ [r EXCEPT !.pc = "stopWorkers", !.seen = s].pc = "stopWorkers"
           /\ [r EXCEPT !.pc = "stopWorkers", !.seen = s].todo = r.todo
  BY DEF Command, Place

LEMMA PidTyped ==
    ASSUME NEW r \in Command, NEW p \in Pids
    PROVE  /\ [r EXCEPT !.pc = "write", !.pid = p] \in Command
           /\ [r EXCEPT !.pc = "write", !.pid = p].pc = "write"
           /\ [r EXCEPT !.pc = "write", !.pid = p].pid = p
           /\ [r EXCEPT !.pc = "write", !.pid = p].todo = r.todo
           /\ [r EXCEPT !.pc = "kill", !.pid = p] \in Command
           /\ [r EXCEPT !.pc = "kill", !.pid = p].pc = "kill"
           /\ [r EXCEPT !.pc = "kill", !.pid = p].pid = p
           /\ [r EXCEPT !.pc = "kill", !.pid = p].todo = r.todo
  BY DEF Command, Place

LEMMA DumpingTyped ==
    ASSUME NEW r \in Command, NEW n \in Nat
    PROVE  /\ [r EXCEPT !.pc = "dumping", !.dump = n] \in Command
           /\ [r EXCEPT !.pc = "dumping", !.dump = n].pc = "dumping"
           /\ [r EXCEPT !.pc = "dumping", !.dump = n].dump = n
           /\ [r EXCEPT !.pc = "dumping", !.dump = n].todo = r.todo
  BY DEF Command, Place

Project == [file : BOOLEAN, up : BOOLEAN]

LEMMA ProjectTyped ==
    /\ \A a, b \in BOOLEAN : [file |-> a, up |-> b] \in Project
    /\ \A p \in Project : [p EXCEPT !.up = TRUE] \in Project /\ [p EXCEPT !.file = TRUE] \in Project
  BY DEF Project

LEMMA AfterTyped ==
    ASSUME NEW r \in Command, NEW todo \in Seq(Phase), StopsFirst(todo)
    PROVE  After(r, todo) \in Command /\ InOrder(After(r, todo)) /\ After(r, todo).pc \in Rest
  <1>1. CASE todo = <<>>
    BY <1>1, NoCommandTyped DEF After
  <1>2. CASE todo # <<>>
    <2> DEFINE n == [todo |-> Tail(todo), pc |-> FirstStep(Head(todo)), pid |-> None, seen |-> {}, dump |-> r.dump]
    <2>1. /\ Head(todo) \in Phase /\ Tail(todo) \in Seq(Phase) /\ StopsFirst(Tail(todo))
          /\ Head(todo) = "stop" => Tail(todo) # <<>>
      BY <1>2, TailTyped
    <2>2. /\ FirstStep(Head(todo)) \in {"lock", "down", "list", "exists", "recreate", "dump"}
          /\ FirstStep(Head(todo)) = "list" => Head(todo) = "stop"
      BY <2>1 DEF FirstStep, Phase
    <2>3. After(r, todo) = n
      BY <1>2 DEF After, Command
    <2>4. n.pc = FirstStep(Head(todo)) /\ n.todo = Tail(todo)
      OBVIOUS
    <2>5. n \in Command
      BY <2>1, <2>2, FieldsTyped DEF Command, Place
    <2>6. InOrder(n)
      BY <2>1, <2>2, <2>4 DEF InOrder
    <2>7. n.pc \in Rest
      BY <2>2, <2>4 DEF Rest
    <2> HIDE DEF n
    <2> QED
      BY <2>3, <2>5, <2>6, <2>7
  <1> QED
    BY <1>1, <1>2

\* What every step of a command does to the commands.
Moves(c, r) ==
    /\ r \in Command /\ InOrder(r)
    /\ cmd' = [cmd EXCEPT ![c] = r]
    /\ raced' \in BOOLEAN
    /\ ~raced' => ~raced /\ \A d \in Commands \ {c} : ~Overlap(r, cmd[d]) /\ ~Overlap(cmd[d], r)
Rests(c) == \E r \in Command : Moves(c, r) /\ r.pc \in Rest

LEMMA BecomesMoves ==
    ASSUME TypeOK, NEW c \in Commands, NEW r \in Command, InOrder(r), Becomes(c, r)
    PROVE  Moves(c, r)
  <1>1. raced \in BOOLEAN
    BY DEF TypeOK
  <1>2. raced' \in BOOLEAN
    BY <1>1, Zenon DEF Becomes
  <1>3. ~raced' => ~raced /\ \A d \in Commands \ {c} : ~Overlap(r, cmd[d]) /\ ~Overlap(cmd[d], r)
    BY <1>1, Zenon DEF Becomes
  <1> QED
    BY <1>2, <1>3 DEF Becomes, Moves

LEMMA GotoMoves ==
    ASSUME TypeOK, TodoInv, NEW c \in Commands, NEW pc \in Place, Goto(c, pc),
           pc \in {"list", "stopWorkers", "running"} => cmd[c].pc \in {"list", "stopWorkers", "running"}
    PROVE  /\ Moves(c, [cmd[c] EXCEPT !.pc = pc])
           /\ [cmd[c] EXCEPT !.pc = pc].pc = pc
           /\ [cmd[c] EXCEPT !.pc = pc].pid = cmd[c].pid
           /\ pc \in Rest => Rests(c)
  <1> DEFINE r == [cmd[c] EXCEPT !.pc = pc]
  <1>1. cmd[c] \in Command
    BY DEF TypeOK
  <1>2. r \in Command /\ r.pc = pc /\ r.pid = cmd[c].pid /\ r.todo = cmd[c].todo
    BY <1>1, FieldsTyped
  <1>3. Becomes(c, r)
    BY DEF Goto
  <1> HIDE DEF r
  <1>4. InOrder(r)
    BY <1>2 DEF TodoInv, InOrder
  <1>5. Moves(c, r)
    BY <1>2, <1>3, <1>4, BecomesMoves
  <1>6. pc \in Rest => Rests(c)
    BY <1>2, <1>5 DEF Rests
  <1> QED
    BY <1>2, <1>5, <1>6 DEF r

LEMMA EndMoves ==
    ASSUME TypeOK, TodoInv, NEW c \in Commands, Done(c) \/ Fails(c)
    PROVE  Rests(c)
  <1>1. cmd[c] \in Command /\ cmd[c].todo \in Seq(Phase) /\ StopsFirst(cmd[c].todo)
    BY FieldsTyped DEF TypeOK, TodoInv, InOrder
  <1>2. CASE Done(c)
    BY <1>1, <1>2, AfterTyped, BecomesMoves DEF Done, Rests
  <1>3. CASE Fails(c)
    BY <1>3, NoCommandTyped, BecomesMoves DEF Fails, Rests
  <1> QED
    BY <1>2, <1>3

-----------------------------------------------------------------------------
(* What leaves parts of the invariant alone. *)

LEMMA MovesTyped ==
    ASSUME TypeOK, NEW c \in Commands, NEW r, Moves(c, r)
    PROVE  /\ cmd' \in [Commands -> Command] /\ raced' \in BOOLEAN
           /\ cmd'[c] = r /\ \A d \in Commands : d # c => cmd'[d] = cmd[d]
  BY DEF TypeOK, Moves

\* A command rests: it is no longer at work on builderd.
LEMMA QuietBuilderd ==
    ASSUME IInv, NEW c \in Commands, Rests(c), UNCHANGED <<proc, pidFile>>,
           lock' = lock \/ lock' = (IF lock = c THEN None ELSE lock),
           ~raced' => ~At(c, "write")
    PROVE  BuilderdInv' /\ cmd' \in [Commands -> Command] /\ raced' \in BOOLEAN
           /\ \A d \in Commands : cmd'[d] = cmd[d] \/ cmd'[d].pc # "dumping"
  <1>1. PICK r \in Command : Moves(c, r) /\ r.pc \in Rest
    BY DEF Rests
  <1>2. /\ cmd' \in [Commands -> Command] /\ raced' \in BOOLEAN
        /\ cmd'[c] = r /\ \A d \in Commands : d # c => cmd'[d] = cmd[d]
    BY <1>1, MovesTyped DEF IInv
  <1>3. ~Starting(r) /\ ~Stopping(r) /\ r.pc \notin {"write", "kill", "dumping"}
    BY <1>1 DEF Rest, Starting, Stopping
  <1>4. ~raced' => ~raced
    BY <1>1 DEF Moves
  <1>5. TodoInv'
    BY <1>1, <1>2 DEF IInv, BuilderdInv, TodoInv, Moves
  <1>6. LockInv'
    BY <1>2, <1>3 DEF IInv, BuilderdInv, LockInv
  <1>7. FileInv'
    <2>1. \A d \in Commands : Starting(cmd'[d]) => cmd'[d] = cmd[d]
      BY <1>2, <1>3
    <2>2. \A d \in Commands : Stopping(cmd'[d]) => cmd'[d] = cmd[d]
      BY <1>2, <1>3
    <2>3. ~raced' => \A d, e \in Commands : ~Overlap(cmd'[d], cmd'[e])
      BY <1>4, <2>1, <2>2 DEF IInv, BuilderdInv, FileInv, Overlap
    <2>4. ~raced' => \A d \in Commands :
            /\ cmd'[d].pc \in {"spawn", "write"} => pidFile' = None
            /\ cmd'[d].pc \in {"stale", "remove"} => pidFile' = None \/ ~Lives(pidFile)'
            /\ cmd'[d].pc = "kill" => pidFile' \in {None, cmd'[d].pid}
      BY <1>4, <2>1, <2>2 DEF IInv, BuilderdInv, FileInv, Starting, Stopping, Lives
    <2> QED
      BY <2>3, <2>4 DEF FileInv
  <1>8. Findable'
    <2>1. ~raced' => \A d \in Commands : cmd[d].pc = "write" => cmd'[d] = cmd[d]
      BY <1>2 DEF At
    <2> QED
      BY <1>4, <2>1 DEF IInv, BuilderdInv, Findable, At
  <1> QED
    BY <1>2, <1>3, <1>5, <1>6, <1>7, <1>8 DEF BuilderdInv

\* No builderd comes to life.
LEMMA ProcessBuilderd ==
    ASSUME IInv, UNCHANGED <<cmd, raced, pidFile, lock>>, \A q \in Pids : Lives(q)' => Lives(q)
    PROVE  BuilderdInv'
  <1>1. TodoInv' /\ LockInv'
    BY DEF IInv, BuilderdInv, TodoInv, LockInv
  <1>2. pidFile \in Pids \cup {None}
    BY DEF IInv, TypeOK
  <1>3. FileInv'
    BY <1>2 DEF IInv, BuilderdInv, FileInv
  <1>4. Findable'
    BY DEF IInv, BuilderdInv, Findable, Lives, At
  <1> QED
    BY <1>1, <1>3, <1>4 DEF BuilderdInv

LEMMA QuietBackup ==
    ASSUME IInv, UNCHANGED <<dumps, good>>, auto' \in {auto, 0},
           \A d \in Commands : cmd'[d] = cmd[d] \/ cmd'[d].pc # "dumping"
    PROVE  BackupInv' /\ dumps' \in Seq(Dump) /\ auto' \in 0..Len(dumps') /\ good' \in BOOLEAN
  <1>1. DumpInv'
    BY DEF IInv, BackupInv, DumpInv, ManualKept, At
  <1>2. GoodDumpKept'
    BY DEF IInv, BackupInv, GoodDumpKept
  <1>3. dumps' \in Seq(Dump) /\ auto' \in 0..Len(dumps') /\ good' \in BOOLEAN
    <2>1. dumps \in Seq(Dump) /\ auto \in 0..Len(dumps) /\ good \in BOOLEAN
      BY DEF IInv, TypeOK
    <2>2. Len(dumps) \in Nat
      BY <2>1
    <2> QED
      BY <2>1, <2>2
  <1> QED
    BY <1>1, <1>2, <1>3 DEF BackupInv

LEMMA CountTyped ==
    ASSUME TypeOK, NoTrouble \/ (Trouble /\ UNCHANGED runs)
    PROVE  runs' \in Nat /\ troubles' \in Nat
  BY DEF TypeOK, NoTrouble, Trouble

-----------------------------------------------------------------------------

LEMMA InvInit == Init => IInv
  <1> SUFFICES ASSUME Init PROVE IInv
    OBVIOUS
  <1>1. FirstPid \in Pids
    BY NamesAssumption DEF FirstPid
  <1>2. \A c \in Commands : cmd[c] = NoCommand
    BY DEF Init
  <1>3. proc \in [Pids -> Process] /\ port \in Pids \cup {None} /\ pidFile \in Pids \cup {None}
    <2>1. /\ \E s \in Process : proc = [p \in Pids |-> IF p = FirstPid THEN s ELSE None]
          /\ port \in {None, FirstPid} /\ pidFile \in {None, FirstPid}
      BY DEF Init, Only, Process
    <2> QED
      BY <1>1, <2>1 DEF Process
  <1>4. cmd \in [Commands -> Command]
    BY NoCommandTyped DEF Init
  <1>5. dumps \in Seq(Dump) /\ auto \in 0..Len(dumps)
    <2>1. <<>> \in Seq(Dump) /\ Len(<<>>) = 0
      OBVIOUS
    <2> QED
      BY <2>1 DEF Init
  <1>6. TypeOK
    <2>1. compose \in Project
      BY ProjectTyped, Zenon DEF Init
    <2>2. /\ lock \in Commands \cup {None} /\ workers \subseteq Workers /\ runs \in Nat /\ troubles \in Nat
          /\ {raced, outgoing, good} \subseteq BOOLEAN
      BY DEF Init
    <2> QED
      BY <1>3, <1>4, <1>5, <2>1, <2>2 DEF TypeOK, Project
  <1>7. TodoInv /\ LockInv /\ FileInv
    BY <1>2, NoCommandTyped DEF TodoInv, LockInv, FileInv, Starting, Overlap
  <1>8. Findable
    BY <1>1 DEF Init, Findable, Only, None
  <1>9. BackupInv
    <2>1. DOMAIN dumps = {} /\ auto = 0 /\ good = FALSE
      BY DEF Init
    <2> QED
      BY <1>2, <2>1, NoCommandTyped DEF BackupInv, DumpInv, GoodDumpKept, At
  <1> QED
    BY <1>6, <1>7, <1>8, <1>9 DEF IInv, BuilderdInv

-----------------------------------------------------------------------------
(* The compose project: builderd, its PID file and its lock are left alone. *)

LEMMA StackInv ==
    ASSUME IInv, NEW c \in Commands,
           ComposeUp(c) \/ ListWorkers(c) \/ StopWorkers(c) \/ IsRunning(c) \/ Recreate(c)
    PROVE  IInv'
  <1>1. UNCHANGED <<daemon, dumps, good>> /\ auto' \in {auto, 0} /\ ~At(c, "write")
    BY DEF ComposeUp, ListWorkers, StopWorkers, IsRunning, Recreate, At, stack, backups, daemon
  <1>2. compose' \in Project
    <2>1. compose \in Project
      BY DEF IInv, TypeOK, Project
    <2>2. \/ compose' = compose \/ compose' = [compose EXCEPT !.up = TRUE]
          \/ compose' = [compose EXCEPT !.file = TRUE] \/ compose' = [file |-> TRUE, up |-> TRUE]
      BY Zenon DEF ComposeUp, ListWorkers, StopWorkers, IsRunning, Recreate, stack
    <2> QED
      BY <2>1, <2>2, ProjectTyped, Zenon
  <1>3. workers' \subseteq Workers
    BY DEF ComposeUp, ListWorkers, StopWorkers, IsRunning, Recreate, stack, IInv, TypeOK
  <1>4. Rests(c)
    <2>1. TypeOK /\ TodoInv /\ cmd[c] \in Command /\ InOrder(cmd[c])
      BY DEF IInv, BuilderdInv, TypeOK, TodoInv
    <2>2. CASE ComposeUp(c) \/ Recreate(c)
      BY <2>1, <2>2, EndMoves DEF ComposeUp, Recreate
    <2>3. CASE ListWorkers(c)
      <3>1. CASE Goto(c, "running")
        BY <2>1, <2>3, <3>1, GotoMoves DEF ListWorkers, At, Place, Rest
      <3>2. CASE Becomes(c, [cmd[c] EXCEPT !.pc = "stopWorkers", !.seen = workers])
        <4> DEFINE r == [cmd[c] EXCEPT !.pc = "stopWorkers", !.seen = workers]
        <4>1. workers \in SUBSET Workers
          BY DEF IInv, TypeOK
        <4>2. r \in Command /\ r.pc = "stopWorkers" /\ r.todo = cmd[c].todo
          BY <2>1, <4>1, SeenTyped, Zenon
        <4>3. Becomes(c, r)
          BY <3>2
        <4>4. cmd[c].pc = "list"
          BY <2>3 DEF ListWorkers, At
        <4> HIDE DEF r
        <4>5. InOrder(r) /\ r.pc \in Rest
          BY <2>1, <4>2, <4>4 DEF InOrder, Rest
        <4> QED
          BY <2>1, <4>2, <4>3, <4>5, BecomesMoves DEF Rests
      <3> QED
        BY <2>3, <3>1, <3>2, Zenon DEF ListWorkers
    <2>4. CASE StopWorkers(c)
      BY <2>1, <2>4, GotoMoves DEF StopWorkers, At, Place, Rest
    <2>5. CASE IsRunning(c)
      <3>1. CASE Goto(c, "composeDown")
        BY <2>1, <2>5, <3>1, GotoMoves DEF Place, Rest
      <3>2. CASE Becomes(c, After(cmd[c], Tail(cmd[c].todo)))
        <4>1. cmd[c].todo \in Seq(Phase) /\ StopsFirst(cmd[c].todo) /\ cmd[c].todo # <<>>
          BY <2>1, <2>5, FieldsTyped DEF IsRunning, At, InOrder
        <4>2. Tail(cmd[c].todo) \in Seq(Phase) /\ StopsFirst(Tail(cmd[c].todo))
          BY <4>1, TailTyped
        <4> QED
          BY <2>1, <3>2, <4>2, AfterTyped, BecomesMoves DEF Rests
      <3>3. CASE Fails(c)
        BY <2>1, <3>3, EndMoves
      <3> QED
        BY <2>5, <3>1, <3>2, <3>3, Zenon DEF IsRunning
    <2> QED
      BY <2>2, <2>3, <2>4, <2>5
  <1>5. BuilderdInv' /\ cmd' \in [Commands -> Command] /\ raced' \in BOOLEAN
        /\ \A d \in Commands : cmd'[d] = cmd[d] \/ cmd'[d].pc # "dumping"
    BY <1>1, <1>4, QuietBuilderd DEF daemon
  <1>6. BackupInv' /\ dumps' \in Seq(Dump) /\ auto' \in 0..Len(dumps') /\ good' \in BOOLEAN
    BY <1>1, <1>5, QuietBackup
  <1>7. runs' \in Nat /\ troubles' \in Nat
    BY CountTyped DEF ComposeUp, ListWorkers, StopWorkers, IsRunning, Recreate, IInv
  <1>8. TypeOK'
    BY <1>1, <1>2, <1>3, <1>5, <1>6, <1>7 DEF IInv, TypeOK, Project, daemon
  <1> QED
    BY <1>5, <1>6, <1>8 DEF IInv

\* Commands begin and are cut short.
LEMMA CommandInv ==
    ASSUME IInv, NEW c \in Commands, Interrupted(c) \/ \E op \in Ops : Invoke(c, op)
    PROVE  IInv'
  <1>1. UNCHANGED <<proc, port, pidFile, outgoing, stack, backups>> /\ (~raced' => ~At(c, "write"))
    <2>1. UNCHANGED <<proc, port, pidFile, outgoing, stack, backups>>
      BY DEF Interrupted, Invoke, daemon
    <2>2. ASSUME Interrupted(c), ~raced' PROVE ~At(c, "write")
      BY <2>2, Zenon DEF Interrupted, CutShort
    <2>3. ASSUME NEW op \in Ops, Invoke(c, op) PROVE ~At(c, "write")
      BY <2>3, NoCommandTyped DEF Invoke, At
    <2> QED
      BY <2>1, <2>2, <2>3
  <1>2. lock' = lock \/ lock' = (IF lock = c THEN None ELSE lock)
    BY DEF Interrupted, Invoke, daemon, Released
  <1>3. Rests(c)
    <2>1. CASE Interrupted(c)
      <3>1. raced \in BOOLEAN
        BY DEF IInv, TypeOK
      <3>2. raced' \in BOOLEAN /\ (~raced' => ~raced)
        BY <2>1, <3>1, Zenon DEF Interrupted, CutShort
      <3>3. ~Starting(NoCommand) /\ ~Stopping(NoCommand)
        BY NoCommandTyped DEF Starting, Stopping
      <3> QED
        BY <2>1, <3>2, <3>3, NoCommandTyped DEF Interrupted, CutShort, Rests, Moves, Overlap
    <2>2. CASE \E op \in Ops : Invoke(c, op)
      BY <2>2, PhasesTyped, NoCommandTyped, AfterTyped, BecomesMoves DEF Invoke, Rests, IInv
    <2> QED
      BY <2>1, <2>2
  <1>4. BuilderdInv' /\ cmd' \in [Commands -> Command] /\ raced' \in BOOLEAN
        /\ \A d \in Commands : cmd'[d] = cmd[d] \/ cmd'[d].pc # "dumping"
    BY <1>1, <1>2, <1>3, QuietBuilderd
  <1>5. BackupInv' /\ dumps' \in Seq(Dump) /\ auto' \in 0..Len(dumps') /\ good' \in BOOLEAN
    BY <1>1, <1>4, QuietBackup DEF backups
  <1>6. runs' \in Nat /\ troubles' \in Nat
    BY DEF Interrupted, Invoke, Trouble, IInv, TypeOK
  <1>7. TypeOK'
    BY <1>1, <1>2, <1>4, <1>5, <1>6 DEF IInv, TypeOK, stack
  <1> QED
    BY <1>4, <1>5, <1>7 DEF IInv

\* builderd and the other processes of the host, and the workers.
LEMMA ProcessInv ==
    ASSUME IInv, (\E p \in Pids : Bind(p) \/ Dies(p) \/ Crashes(p) \/ Reused(p)) \/ \E w \in Workers : Launch(w)
    PROVE  IInv'
  <1>1. UNCHANGED <<pidFile, lock, compose, backups, cmd, raced>>
    BY DEF Bind, Dies, Crashes, Gone, Reused, Launch, stack, daemon
  <1>2. proc' \in [Pids -> Process] /\ \A q \in Pids : Lives(q)' => Lives(q)
    <2>1. proc \in [Pids -> Process]
      BY DEF IInv, TypeOK
    <2>2. \/ proc' = proc
          \/ \E p \in Pids : \E s \in Process :
                /\ proc' = [proc EXCEPT ![p] = s]
                /\ s \in {"starting", "serving"} => proc[p] = "starting"
      BY DEF Bind, Dies, Crashes, Gone, Reused, Launch, daemon, Process, None
    <2> QED
      BY <2>1, <2>2 DEF Lives
  <1>3. port' \in Pids \cup {None} /\ workers' \subseteq Workers
    BY DEF Bind, Dies, Crashes, Gone, Reused, Launch, stack, daemon, IInv, TypeOK
  <1>4. outgoing' \in BOOLEAN
    <2>1. outgoing \in BOOLEAN
      BY DEF IInv, TypeOK
    <2> QED
      BY <2>1, Zenon DEF Bind, Dies, Crashes, Gone, Reused, Launch, daemon
  <1>5. runs' \in Nat /\ troubles' \in Nat
    BY CountTyped DEF Bind, Dies, Crashes, Gone, Reused, Launch, IInv
  <1>6. BuilderdInv'
    BY <1>1, <1>2, ProcessBuilderd
  <1>7. BackupInv' /\ dumps' \in Seq(Dump) /\ auto' \in 0..Len(dumps') /\ good' \in BOOLEAN
    BY <1>1, QuietBackup DEF backups
  <1>8. TypeOK'
    BY <1>1, <1>2, <1>3, <1>4, <1>5, <1>7 DEF IInv, TypeOK
  <1> QED
    BY <1>6, <1>7, <1>8 DEF IInv

-----------------------------------------------------------------------------
(* start_builderd and stop_builderd. *)

\* What the steps of a start and of a stop leave alone.
LEMMA BuilderdFrame ==
    ASSUME IInv, NEW c \in Commands, NEW r, Moves(c, r), r.pc # "dumping", BuilderdInv',
           UNCHANGED <<port, stack, backups>>, proc' \in [Pids -> Process], pidFile' \in Pids \cup {None},
           lock' \in Commands \cup {None}, outgoing' \in BOOLEAN, runs' \in Nat, troubles' \in Nat
    PROVE  IInv'
  <1>1. /\ cmd' \in [Commands -> Command] /\ raced' \in BOOLEAN
        /\ \A d \in Commands : cmd'[d] = cmd[d] \/ cmd'[d].pc # "dumping"
    BY MovesTyped DEF IInv
  <1>2. BackupInv' /\ dumps' \in Seq(Dump) /\ auto' \in 0..Len(dumps') /\ good' \in BOOLEAN
    BY <1>1, QuietBackup DEF backups
  <1>3. TypeOK'
    BY <1>1, <1>2 DEF IInv, TypeOK, stack
  <1> QED
    BY <1>2, <1>3 DEF IInv

LEMMA RestFrame ==
    ASSUME IInv, NEW c \in Commands, Rests(c), BuilderdInv',
           UNCHANGED <<port, stack, backups>>, proc' \in [Pids -> Process], pidFile' \in Pids \cup {None},
           lock' \in Commands \cup {None}, outgoing' \in BOOLEAN, runs' \in Nat, troubles' \in Nat
    PROVE  IInv'
  <1>1. PICK r \in Command : Moves(c, r) /\ r.pc \in Rest
    BY DEF Rests
  <1>2. r.pc # "dumping"
    BY <1>1 DEF Rest
  <1> QED
    BY <1>1, <1>2, BuilderdFrame

\* A command that starts, or stops, builderd goes on with it.
LEMMA WorkMoves ==
    ASSUME IInv, NEW c \in Commands, NEW r, Moves(c, r)
    PROVE  /\ TodoInv'
           /\ ~raced' => \A d, e \in Commands : ~Overlap(cmd'[d], cmd'[e])
           /\ \A d \in Commands \ {c} : ~raced' /\ Starting(r) => ~Stopping(cmd[d])
           /\ \A d \in Commands \ {c} : ~raced' /\ Stopping(r) => ~Starting(cmd[d])
  <1>1. /\ cmd' \in [Commands -> Command]
        /\ cmd'[c] = r /\ \A d \in Commands : d # c => cmd'[d] = cmd[d]
    BY MovesTyped DEF IInv
  <1>2. TodoInv'
    BY <1>1 DEF Moves, IInv, BuilderdInv, TodoInv
  <1>3. ~Overlap(r, r)
    BY DEF Overlap, Starting, Stopping
  <1>4. ~raced' => /\ \A d, e \in Commands : ~Overlap(cmd[d], cmd[e])
                   /\ \A d \in Commands \ {c} : ~Overlap(r, cmd[d]) /\ ~Overlap(cmd[d], r)
    BY DEF Moves, IInv, BuilderdInv, FileInv
  <1>5. ~raced' => \A d, e \in Commands : ~Overlap(cmd'[d], cmd'[e])
    BY <1>1, <1>3, <1>4
  <1> QED
    BY <1>2, <1>4, <1>5 DEF Overlap

LEMMA TakeLockInv ==
    ASSUME IInv, NEW c \in Commands, TakeLock(c)
    PROVE  IInv'
  <1> DEFINE r == [cmd[c] EXCEPT !.pc = "check"]
  <1>1. /\ UNCHANGED <<proc, port, pidFile, outgoing, stack, backups>> /\ lock = None /\ lock' = c
        /\ At(c, "lock") /\ Goto(c, "check") /\ NoTrouble
    BY DEF TakeLock
  <1>2. Moves(c, r) /\ r.pc = "check"
    BY <1>1, GotoMoves DEF IInv, BuilderdInv, Place
  <1> HIDE DEF r
  <1>3. /\ cmd' \in [Commands -> Command] /\ raced' \in BOOLEAN
        /\ cmd'[c] = r /\ \A d \in Commands : d # c => cmd'[d] = cmd[d]
    BY <1>2, MovesTyped DEF IInv
  <1>4. TodoInv' /\ (~raced' => \A d, e \in Commands : ~Overlap(cmd'[d], cmd'[e])) /\ (~raced' => ~raced)
    BY <1>2, WorkMoves DEF Moves
  <1>5. LockInv'
    BY <1>1, <1>2, <1>3, NamesAssumption DEF IInv, BuilderdInv, LockInv, Starting, None
  <1>6. FileInv' /\ Findable'
    BY <1>1, <1>2, <1>3, <1>4 DEF IInv, BuilderdInv, FileInv, Findable, Lives, At
  <1>7. runs' \in Nat /\ troubles' \in Nat
    BY <1>1, CountTyped DEF IInv
  <1> QED
    BY <1>1, <1>2, <1>4, <1>5, <1>6, <1>7, BuilderdFrame DEF IInv, TypeOK, BuilderdInv

LEMMA CheckPidFileInv ==
    ASSUME IInv, NEW c \in Commands, CheckPidFile(c)
    PROVE  IInv'
  <1>1. UNCHANGED <<proc, port, pidFile, stack, backups>> /\ At(c, "check") /\ NoTrouble
    BY DEF CheckPidFile
  <1>2. runs' \in Nat /\ troubles' \in Nat
    BY <1>1, CountTyped DEF IInv
  <1>3. proc \in [Pids -> Process] /\ pidFile \in Pids \cup {None} /\ lock \in Commands \cup {None} /\ outgoing \in BOOLEAN
    BY DEF IInv, TypeOK
  <1>4. CASE Done(c) /\ Released(c) /\ outgoing' = (outgoing \/ proc[pidFile] = "dying")
    <2>1. Rests(c)
      BY <1>4, EndMoves DEF IInv, BuilderdInv
    <2>2. BuilderdInv'
      BY <1>1, <1>4, <2>1, QuietBuilderd DEF Released, At
    <2>3. outgoing' \in BOOLEAN
      BY <1>3, <1>4, Zenon
    <2>4. lock' \in Commands \cup {None}
      BY <1>3, <1>4 DEF Released
    <2> QED
      BY <1>1, <1>2, <1>3, <2>1, <2>2, <2>3, <2>4, RestFrame
  <1>5. ASSUME NEW pc \in {"spawn", "stale"}, Goto(c, pc), UNCHANGED <<lock, outgoing>>,
               pc = "spawn" => pidFile = None,
               pc = "stale" => ~Lives(pidFile)
        PROVE  IInv'
    <2> DEFINE r == [cmd[c] EXCEPT !.pc = pc]
    <2>1. Moves(c, r) /\ r.pc = pc
      <3>1. pc \in Place /\ pc \notin {"list", "stopWorkers", "running"} /\ TypeOK /\ TodoInv
        BY DEF IInv, BuilderdInv, Place
      <3> QED
        BY <1>5, <3>1, GotoMoves, Zenon
    <2> HIDE DEF r
    <2>2. /\ cmd' \in [Commands -> Command] /\ raced' \in BOOLEAN
          /\ cmd'[c] = r /\ \A d \in Commands : d # c => cmd'[d] = cmd[d]
      BY <2>1, MovesTyped DEF IInv
    <2>3. TodoInv' /\ (~raced' => \A d, e \in Commands : ~Overlap(cmd'[d], cmd'[e])) /\ (~raced' => ~raced)
      BY <2>1, WorkMoves DEF Moves
    <2>4. LockInv'
      BY <1>1, <1>5, <2>1, <2>2 DEF IInv, BuilderdInv, LockInv, Starting, At
    <2>5. FileInv' /\ Findable'
      BY <1>1, <1>5, <2>1, <2>2, <2>3 DEF IInv, BuilderdInv, FileInv, Findable, Lives, At
    <2> QED
      BY <1>1, <1>2, <1>3, <1>5, <2>1, <2>3, <2>4, <2>5, BuilderdFrame DEF BuilderdInv
  <1>6. ~IsBuilderdRunning(pidFile) => ~Lives(pidFile)
    BY DEF IsBuilderdRunning, Lives
  <1> QED
    BY <1>4, <1>5, <1>6 DEF CheckPidFile

LEMMA RemoveStaleInv ==
    ASSUME IInv, NEW c \in Commands, RemoveStale(c)
    PROVE  IInv'
  <1>1. UNCHANGED <<proc, port, outgoing, stack, backups>> /\ At(c, "stale") /\ NoTrouble
    BY DEF RemoveStale
  <1>2. runs' \in Nat /\ troubles' \in Nat
    BY <1>1, CountTyped DEF IInv
  <1>3. proc \in [Pids -> Process] /\ pidFile \in Pids \cup {None} /\ lock \in Commands \cup {None} /\ outgoing \in BOOLEAN
    BY DEF IInv, TypeOK
  <1>4. CASE Fails(c) /\ Released(c) /\ UNCHANGED pidFile
    <2>1. Rests(c)
      BY <1>4, EndMoves DEF IInv, BuilderdInv
    <2>2. BuilderdInv'
      BY <1>1, <1>4, <2>1, QuietBuilderd DEF Released, At
    <2>3. lock' \in Commands \cup {None}
      BY <1>3, <1>4 DEF Released
    <2> QED
      BY <1>1, <1>2, <1>3, <1>4, <2>1, <2>2, <2>3, RestFrame
  <1>5. CASE pidFile # None /\ pidFile' = None /\ Goto(c, "spawn") /\ UNCHANGED lock
    <2> DEFINE r == [cmd[c] EXCEPT !.pc = "spawn"]
    <2>1. Moves(c, r) /\ r.pc = "spawn"
      BY <1>5, GotoMoves DEF IInv, BuilderdInv, Place
    <2> HIDE DEF r
    <2>2. /\ cmd' \in [Commands -> Command] /\ raced' \in BOOLEAN
          /\ cmd'[c] = r /\ \A d \in Commands : d # c => cmd'[d] = cmd[d]
      BY <2>1, MovesTyped DEF IInv
    <2>3. TodoInv' /\ (~raced' => \A d, e \in Commands : ~Overlap(cmd'[d], cmd'[e])) /\ (~raced' => ~raced)
      BY <2>1, WorkMoves DEF Moves
    <2>4. LockInv'
      BY <1>1, <1>5, <2>1, <2>2 DEF IInv, BuilderdInv, LockInv, Starting, At
    <2>5. FileInv'
      BY <1>1, <1>5, <2>1, <2>2, <2>3 DEF FileInv
    <2>6. ~raced => ~Lives(pidFile)
      BY <1>1, <1>5 DEF IInv, BuilderdInv, FileInv, At
    <2>7. Findable'
      BY <1>1, <1>5, <2>1, <2>2, <2>3, <2>6 DEF IInv, BuilderdInv, Findable, Lives, At
    <2> QED
      BY <1>1, <1>2, <1>3, <1>5, <2>1, <2>3, <2>4, <2>5, <2>7, BuilderdFrame DEF BuilderdInv
  <1> QED
    BY <1>4, <1>5 DEF RemoveStale

\* The command that spawns holds the lock, the PID file is gone, and so no
\* builderd lived before.
LEMMA SpawnInv ==
    ASSUME IInv, NEW c \in Commands, Spawn(c)
    PROVE  IInv'
  <1>1. UNCHANGED <<port, pidFile, outgoing, stack, backups>> /\ At(c, "spawn")
    BY DEF Spawn
  <1>2. runs' \in Nat /\ troubles' \in Nat
    BY CountTyped DEF Spawn, IInv
  <1>3. proc \in [Pids -> Process] /\ pidFile \in Pids \cup {None} /\ lock \in Commands \cup {None} /\ outgoing \in BOOLEAN
    BY DEF IInv, TypeOK
  <1>4. CASE Fails(c) /\ Released(c) /\ UNCHANGED proc
    <2>1. Rests(c)
      BY <1>4, EndMoves DEF IInv, BuilderdInv
    <2>2. BuilderdInv'
      BY <1>1, <1>4, <2>1, QuietBuilderd DEF Released, At
    <2>3. lock' \in Commands \cup {None}
      BY <1>3, <1>4 DEF Released
    <2> QED
      BY <1>1, <1>2, <1>3, <1>4, <2>1, <2>2, <2>3, RestFrame
  <1>5. ASSUME NEW p \in Pids, proc' = [proc EXCEPT ![p] = "starting"], UNCHANGED lock,
               Becomes(c, [cmd[c] EXCEPT !.pc = "write", !.pid = p])
        PROVE  IInv'
    <2> DEFINE r == [cmd[c] EXCEPT !.pc = "write", !.pid = p]
    <2>1. cmd[c] \in Command /\ InOrder(cmd[c]) /\ TypeOK
      BY DEF IInv, TypeOK, BuilderdInv, TodoInv
    <2>2. r \in Command /\ r.pc = "write" /\ r.pid = p /\ r.todo = cmd[c].todo
      BY <2>1, PidTyped, Zenon
    <2>3. Becomes(c, r)
      BY <1>5
    <2> HIDE DEF r
    <2>4. InOrder(r)
      BY <2>1, <2>2 DEF InOrder
    <2>5. Moves(c, r)
      BY <2>1, <2>2, <2>3, <2>4, BecomesMoves
    <2>6. /\ cmd' \in [Commands -> Command] /\ raced' \in BOOLEAN
          /\ cmd'[c] = r /\ \A d \in Commands : d # c => cmd'[d] = cmd[d]
      BY <2>5, MovesTyped DEF IInv
    <2>7. TodoInv' /\ (~raced' => \A d, e \in Commands : ~Overlap(cmd'[d], cmd'[e])) /\ (~raced' => ~raced)
      BY <2>5, WorkMoves DEF Moves
    <2>8. LockInv'
      BY <1>1, <1>5, <2>2, <2>6 DEF IInv, BuilderdInv, LockInv, Starting, At
    <2>9. ~raced' => pidFile' = None
      BY <1>1, <2>7 DEF IInv, BuilderdInv, FileInv, At
    <2>10. FileInv'
      BY <2>7, <2>9 DEF FileInv
    <2>11. ~raced' => \A q \in Pids : ~Lives(q)
      BY <1>1, <2>7, <2>9, NamesAssumption
      DEF IInv, BuilderdInv, Findable, LockInv, Starting, Lives, At, None
    <2>12. Findable'
      BY <1>3, <1>5, <2>2, <2>6, <2>11 DEF Findable, Lives, At
    <2>13. proc' \in [Pids -> Process] /\ r.pc # "dumping"
      BY <1>3, <1>5, <2>2 DEF Process
    <2> QED
      BY <1>1, <1>2, <1>3, <1>5, <2>5, <2>7, <2>8, <2>10, <2>12, <2>13, BuilderdFrame DEF BuilderdInv
  <1> QED
    BY <1>4, <1>5 DEF Spawn

\* The PID file comes to name the one builderd that lives.
LEMMA PidWrittenInv ==
    ASSUME IInv, NEW c \in Commands, At(c, "write"), pidFile' = cmd[c].pid, Done(c), Released(c), NoTrouble,
           UNCHANGED <<proc, port, outgoing, stack, backups>>
    PROVE  IInv'
  <1>1. /\ UNCHANGED <<proc, port, outgoing, stack, backups>> /\ At(c, "write") /\ NoTrouble
        /\ pidFile' = cmd[c].pid /\ Done(c) /\ Released(c)
    OBVIOUS
  <1>2. runs' \in Nat /\ troubles' \in Nat
    BY <1>1, CountTyped DEF IInv
  <1>3. proc \in [Pids -> Process] /\ lock \in Commands \cup {None} /\ outgoing \in BOOLEAN
    BY DEF IInv, TypeOK
  <1>4. cmd[c].pid \in Pids /\ lock = c /\ Starting(cmd[c])
    BY <1>1 DEF IInv, BuilderdInv, LockInv, At, Starting
  <1>5. Rests(c)
    BY <1>1, EndMoves DEF IInv, BuilderdInv
  <1>6. PICK r \in Command : Moves(c, r) /\ r.pc \in Rest
    BY <1>5 DEF Rests
  <1>7. /\ cmd' \in [Commands -> Command] /\ raced' \in BOOLEAN
        /\ cmd'[c] = r /\ \A d \in Commands : d # c => cmd'[d] = cmd[d]
    BY <1>6, MovesTyped DEF IInv
  <1>8. TodoInv' /\ (~raced' => \A d, e \in Commands : ~Overlap(cmd'[d], cmd'[e])) /\ (~raced' => ~raced)
    BY <1>6, WorkMoves DEF Moves
  <1>9. ~Starting(r) /\ ~Stopping(r) /\ r.pc \notin {"write", "kill"}
    BY <1>6 DEF Rest, Starting, Stopping
  <1>10. \A d \in Commands : ~Starting(cmd'[d])
    BY <1>4, <1>7, <1>9 DEF IInv, BuilderdInv, LockInv
  <1>11. ~raced' => \A d \in Commands : ~Stopping(cmd'[d])
    BY <1>4, <1>7, <1>8, <1>9 DEF IInv, BuilderdInv, FileInv, Overlap
  <1>12. LockInv'
    BY <1>7, <1>9, <1>10 DEF IInv, BuilderdInv, LockInv
  <1>13. FileInv'
    BY <1>8, <1>10, <1>11 DEF FileInv, Starting, Stopping
  <1>14. Findable'
    <2>1. ~raced => pidFile = None
      BY <1>1 DEF IInv, BuilderdInv, FileInv, At
    <2>2. ~raced => \A q \in Pids : Lives(q) => q = cmd[c].pid
      BY <2>1, <1>4, NamesAssumption DEF IInv, BuilderdInv, LockInv, Findable, Lives, At, Starting, None
    <2> QED
      BY <1>1, <1>8, <2>2 DEF Findable, Lives
  <1>15. lock' \in Commands \cup {None}
    BY <1>1, <1>3 DEF Released
  <1> QED
    BY <1>1, <1>2, <1>3, <1>4, <1>5, <1>8, <1>12, <1>13, <1>14, <1>15, RestFrame DEF BuilderdInv

\* A write that fails is an interruption at that place.
LEMMA WritePidFileInv ==
    ASSUME IInv, NEW c \in Commands, WritePidFile(c)
    PROVE  IInv'
  <1>1. CASE pidFile' = cmd[c].pid /\ Done(c) /\ NoTrouble
    BY <1>1, PidWrittenInv DEF WritePidFile
  <1>2. CASE UNCHANGED pidFile /\ CutShort(c) /\ Trouble /\ UNCHANGED runs
    <2>1. cmd[c] # NoCommand
      BY NoCommandTyped DEF WritePidFile, At
    <2>2. Interrupted(c)
      BY <1>2, <2>1 DEF WritePidFile, Interrupted
    <2> QED
      BY <2>2, CommandInv
  <1> QED
    BY <1>1, <1>2, Zenon DEF WritePidFile

\* A stop has yet to signal builderd.
LEMMA ReadInv ==
    ASSUME IInv, NEW c \in Commands, PidFileExists(c) \/ ReadPid(c)
    PROVE  IInv'
  <1>1. UNCHANGED <<daemon, stack, backups>> /\ NoTrouble /\ (At(c, "exists") \/ At(c, "read"))
    BY DEF PidFileExists, ReadPid
  <1>2. runs' \in Nat /\ troubles' \in Nat
    BY <1>1, CountTyped DEF IInv
  <1>3. /\ proc \in [Pids -> Process] /\ pidFile \in Pids \cup {None} /\ lock \in Commands \cup {None}
        /\ outgoing \in BOOLEAN /\ cmd[c] \in Command /\ InOrder(cmd[c]) /\ TypeOK /\ TodoInv
    BY DEF IInv, TypeOK, BuilderdInv, TodoInv
  <1>4. CASE Done(c) \/ Fails(c)
    <2>1. Rests(c)
      BY <1>3, <1>4, EndMoves
    <2>2. BuilderdInv'
      BY <1>1, <2>1, QuietBuilderd DEF daemon, At
    <2> QED
      BY <1>1, <1>2, <1>3, <2>1, <2>2, RestFrame DEF daemon
  <1>5. ASSUME NEW r \in Command, Becomes(c, r), r.todo = cmd[c].todo, r.pc \in {"read", "kill"},
               r.pc = "kill" => r.pid = pidFile /\ pidFile # None
        PROVE  IInv'
    <2>1. InOrder(r)
      BY <1>3, <1>5 DEF InOrder
    <2>2. Moves(c, r)
      BY <1>3, <1>5, <2>1, BecomesMoves
    <2>3. /\ cmd' \in [Commands -> Command] /\ raced' \in BOOLEAN
          /\ cmd'[c] = r /\ \A d \in Commands : d # c => cmd'[d] = cmd[d]
      BY <2>2, MovesTyped DEF IInv
    <2>4. TodoInv' /\ (~raced' => \A d, e \in Commands : ~Overlap(cmd'[d], cmd'[e])) /\ (~raced' => ~raced)
      BY <2>2, WorkMoves DEF Moves
    <2>5. LockInv'
      BY <1>1, <1>3, <1>5, <2>3 DEF IInv, BuilderdInv, LockInv, Starting, daemon
    <2>6. FileInv'
      BY <1>1, <1>5, <2>3, <2>4 DEF IInv, BuilderdInv, FileInv, Lives, daemon
    <2>7. Findable'
      BY <1>1, <1>5, <2>3, <2>4 DEF IInv, BuilderdInv, Findable, At, daemon
    <2> QED
      BY <1>1, <1>2, <1>3, <1>5, <2>2, <2>4, <2>5, <2>6, <2>7, BuilderdFrame DEF BuilderdInv, daemon
  <1>6. CASE Goto(c, "read")
    <2> DEFINE r == [cmd[c] EXCEPT !.pc = "read"]
    <2>1. r \in Command /\ r.pc = "read" /\ r.todo = cmd[c].todo
      <3>1. cmd[c] \in Command /\ "read" \in Place
        BY <1>3 DEF Place
      <3> QED
        BY <3>1, FieldsTyped
    <2>2. Becomes(c, r)
      BY <1>6 DEF Goto
    <2> HIDE DEF r
    <2> QED
      BY <1>5, <2>1, <2>2
  <1>7. CASE pidFile # None /\ Becomes(c, [cmd[c] EXCEPT !.pc = "kill", !.pid = pidFile])
    <2> DEFINE r == [cmd[c] EXCEPT !.pc = "kill", !.pid = pidFile]
    <2>1. pidFile \in Pids
      BY <1>3, <1>7
    <2>2. r \in Command /\ r.pc = "kill" /\ r.pid = pidFile /\ r.todo = cmd[c].todo
      BY <1>3, <2>1, PidTyped, Zenon
    <2>3. Becomes(c, r)
      BY <1>7
    <2> HIDE DEF r
    <2> QED
      BY <1>5, <1>7, <2>2, <2>3
  <1> QED
    BY <1>4, <1>6, <1>7 DEF PidFileExists, ReadPid

\* Whatever has the pid is signalled: the builderd that the PID file names, if
\* it still names one, lives no longer.
LEMMA KillInv ==
    ASSUME IInv, NEW c \in Commands, Kill(c)
    PROVE  IInv'
  <1> DEFINE r == [cmd[c] EXCEPT !.pc = "remove"]
  <1>1. /\ UNCHANGED <<port, pidFile, lock, outgoing, stack, backups>> /\ NoTrouble
        /\ At(c, "kill") /\ Goto(c, "remove")
    BY DEF Kill
  <1>2. runs' \in Nat /\ troubles' \in Nat
    BY <1>1, CountTyped DEF IInv
  <1>3. proc \in [Pids -> Process] /\ pidFile \in Pids \cup {None} /\ lock \in Commands \cup {None} /\ outgoing \in BOOLEAN
    BY DEF IInv, TypeOK
  <1>4. cmd[c].pid \in Pids
    BY <1>1 DEF IInv, BuilderdInv, LockInv, At
  <1>5. PICK s \in Process : proc' = [proc EXCEPT ![cmd[c].pid] = s] /\ s \notin {"starting", "serving"}
    <2> DEFINE b == proc[cmd[c].pid]
    <2> DEFINE s == CASE b \in {"starting", "serving"} -> "dying" [] b = "other" -> None [] OTHER -> b
    <2>1. proc' = [proc EXCEPT ![cmd[c].pid] = s]
      BY DEF Kill
    <2>2. b \in Process
      BY <1>3, <1>4
    <2>3. s \in Process /\ s \notin {"starting", "serving"}
      BY <2>2 DEF Process, None
    <2> QED
      BY <2>1, <2>3
  <1>6. Moves(c, r) /\ r.pc = "remove"
    BY <1>1, GotoMoves DEF IInv, BuilderdInv, Place
  <1> HIDE DEF r
  <1>7. /\ cmd' \in [Commands -> Command] /\ raced' \in BOOLEAN
        /\ cmd'[c] = r /\ \A d \in Commands : d # c => cmd'[d] = cmd[d]
    BY <1>6, MovesTyped DEF IInv
  <1>8. TodoInv' /\ (~raced' => \A d, e \in Commands : ~Overlap(cmd'[d], cmd'[e])) /\ (~raced' => ~raced)
    BY <1>6, WorkMoves DEF Moves
  <1>9. /\ proc' \in [Pids -> Process] /\ \A q \in Pids : Lives(q)' => Lives(q) /\ q # cmd[c].pid
    BY <1>3, <1>4, <1>5 DEF Lives
  <1>10. LockInv'
    BY <1>1, <1>6, <1>7 DEF IInv, BuilderdInv, LockInv, Starting
  <1>11. ~raced' => pidFile = None \/ ~Lives(pidFile)'
    <2>1. ~raced' => pidFile \in {None, cmd[c].pid}
      BY <1>1, <1>8 DEF IInv, BuilderdInv, FileInv, At
    <2> QED
      BY <1>1, <1>3, <1>9, <2>1
  <1>12. FileInv'
    <2>1. ~raced' => \A d \in Commands :
            /\ cmd'[d].pc \in {"spawn", "write"} => pidFile' = None
            /\ cmd'[d].pc = "kill" => pidFile' \in {None, cmd'[d].pid}
      BY <1>1, <1>6, <1>7, <1>8 DEF IInv, BuilderdInv, FileInv
    <2> QED
      BY <1>1, <1>8, <1>11, <2>1 DEF FileInv
  <1>13. Findable'
    BY <1>1, <1>6, <1>7, <1>8, <1>9 DEF IInv, BuilderdInv, Findable, Lives, At
  <1>14. r.pc # "dumping"
    BY <1>6
  <1> QED
    BY <1>1, <1>2, <1>3, <1>6, <1>8, <1>9, <1>10, <1>12, <1>13, <1>14, BuilderdFrame DEF BuilderdInv

LEMMA RemovePidFileInv ==
    ASSUME IInv, NEW c \in Commands, RemovePidFile(c)
    PROVE  IInv'
  <1>1. /\ UNCHANGED <<proc, port, lock, outgoing, stack, backups>> /\ At(c, "remove") /\ NoTrouble
        /\ pidFile' = None /\ (Done(c) \/ Fails(c))
    BY DEF RemovePidFile
  <1>2. runs' \in Nat /\ troubles' \in Nat
    BY <1>1, CountTyped DEF IInv
  <1>3. proc \in [Pids -> Process] /\ lock \in Commands \cup {None} /\ outgoing \in BOOLEAN
    BY DEF IInv, TypeOK
  <1>4. Rests(c)
    BY <1>1, EndMoves DEF IInv, BuilderdInv
  <1>5. PICK r \in Command : Moves(c, r) /\ r.pc \in Rest
    BY <1>4 DEF Rests
  <1>6. /\ cmd' \in [Commands -> Command] /\ raced' \in BOOLEAN
        /\ cmd'[c] = r /\ \A d \in Commands : d # c => cmd'[d] = cmd[d]
    BY <1>5, MovesTyped DEF IInv
  <1>7. TodoInv' /\ (~raced' => \A d, e \in Commands : ~Overlap(cmd'[d], cmd'[e])) /\ (~raced' => ~raced)
    BY <1>5, WorkMoves DEF Moves
  <1>8. ~Starting(r) /\ r.pc \notin {"write", "kill"}
    BY <1>5 DEF Rest, Starting
  <1>9. LockInv'
    BY <1>1, <1>6, <1>8 DEF IInv, BuilderdInv, LockInv
  <1>10. FileInv'
    BY <1>1, <1>7 DEF FileInv
  <1>11. ~raced => pidFile = None \/ ~Lives(pidFile)
    BY <1>1 DEF IInv, BuilderdInv, FileInv, At
  <1>12. Findable'
    BY <1>1, <1>6, <1>7, <1>11, NamesAssumption DEF IInv, BuilderdInv, Findable, Lives, At, None
  <1> QED
    BY <1>1, <1>2, <1>3, <1>4, <1>7, <1>9, <1>10, <1>12, RestFrame DEF BuilderdInv

-----------------------------------------------------------------------------
(* The dumps. *)

\* The dumps after a step: as many or one more, none made manual or automatic,
\* complete ones only removed when automatic.
LEMMA DumpsTyped ==
    ASSUME NEW ds \in Seq(Dump)
    PROVE  /\ Len(ds) \in Nat /\ DOMAIN ds = 1..Len(ds)
           /\ \A t \in DOMAIN ds : ds[t] \in Dump
           /\ \A f \in [DOMAIN ds -> Dump] : f \in Seq(Dump) /\ Len(f) = Len(ds)
  <1>1. Len(ds) \in Nat /\ DOMAIN ds = 1..Len(ds) /\ \A t \in DOMAIN ds : ds[t] \in Dump
    OBVIOUS
  <1>2. ASSUME NEW f \in [1..Len(ds) -> Dump] PROVE f \in Seq(Dump) /\ Len(f) = Len(ds)
    BY <1>1, <1>2
  <1> QED
    BY <1>1, <1>2

LEMMA StatesTyped ==
    ASSUME NEW d \in Dump, NEW s \in {"writing", "complete", "partial", "removed"}
    PROVE  /\ [d EXCEPT !.state = s] \in Dump
           /\ [d EXCEPT !.state = s].state = s /\ [d EXCEPT !.state = s].manual = d.manual
           /\ d.manual \in BOOLEAN
  BY DEF Dump

\* A step that adds no dump.
LEMMA DumpsChange ==
    ASSUME IInv, dumps' \in [DOMAIN dumps -> Dump],
           \A t \in DOMAIN dumps : /\ dumps'[t].manual = dumps[t].manual
                                   /\ dumps[t].manual => dumps'[t].state # "removed"
                                   /\ dumps[t].manual /\ dumps[t].state = "complete" => dumps'[t].state = "complete",
           good' \in BOOLEAN, good' => \E t \in DOMAIN dumps : dumps'[t].state = "complete",
           auto' = 0 \/ (auto' = auto /\ (dumps'[auto].state = "removed" => dumps[auto].state = "removed" \/ ManualKept')),
           \A d \in Commands : cmd'[d] = cmd[d] \/ cmd'[d].pc # "dumping"
    PROVE  BackupInv' /\ dumps' \in Seq(Dump) /\ auto' \in 0..Len(dumps')
  <1>1. dumps \in Seq(Dump) /\ auto \in 0..Len(dumps)
    BY DEF IInv, TypeOK
  <1>2. dumps' \in Seq(Dump) /\ Len(dumps') = Len(dumps) /\ Len(dumps) \in Nat /\ DOMAIN dumps = 1..Len(dumps)
    BY <1>1, DumpsTyped
  <1>3. DOMAIN dumps' = DOMAIN dumps
    OBVIOUS
  <1>4. auto' \in 0..Len(dumps')
    BY <1>1, <1>2
  <1>5. ManualKept => ManualKept'
    BY <1>3 DEF ManualKept
  <1>6. auto' # 0 => ~dumps'[auto'].manual /\ (dumps'[auto'].state = "removed" => ManualKept')
    <2>1. SUFFICES ASSUME auto' # 0
                   PROVE  ~dumps'[auto'].manual /\ (dumps'[auto'].state = "removed" => ManualKept')
      OBVIOUS
    <2>2. auto' = auto /\ auto # 0 /\ auto \in DOMAIN dumps
      BY <1>1, <1>2, <2>1
    <2>3. ~dumps[auto].manual /\ (dumps[auto].state = "removed" => ManualKept)
      BY <2>2 DEF IInv, BackupInv, DumpInv
    <2> QED
      BY <1>5, <2>2, <2>3
  <1>7. DumpInv'
    BY <1>3, <1>6 DEF IInv, BackupInv, DumpInv, At
  <1>8. GoodDumpKept'
    BY <1>3 DEF GoodDumpKept
  <1> QED
    BY <1>2, <1>4, <1>7, <1>8 DEF BackupInv

\* clean_old_backups removes automatic dumps only, and never the current one.
LEMMA Cleaned ==
    ASSUME TypeOK, NEW t \in DOMAIN dumps
    PROVE  /\ CleanOldBackups(t) \in [DOMAIN dumps -> Dump] /\ CleanOldBackups(t)[t] = dumps[t]
           /\ \A i \in DOMAIN dumps : /\ CleanOldBackups(t)[i].manual = dumps[i].manual
                                      /\ dumps[i].manual => CleanOldBackups(t)[i] = dumps[i]
  <1>1. \A i \in DOMAIN dumps : dumps[i] \in Dump
    BY DumpsTyped DEF TypeOK
  <1>2. /\ CleanOldBackups(t) = [i \in DOMAIN dumps |-> CleanOldBackups(t)[i]]
        /\ \A i \in DOMAIN dumps : \/ CleanOldBackups(t)[i] = dumps[i]
                                   \/ /\ ~dumps[i].manual /\ i # t
                                      /\ CleanOldBackups(t)[i] = [dumps[i] EXCEPT !.state = "removed"]
    <2> DEFINE autos == {i \in DOMAIN dumps : ~dumps[i].manual /\ Present(i)}
               kept == {i \in autos : Cardinality({j \in autos : j > i}) < Retain}
               gone == autos \ (kept \cup {t})
    <2>1. CleanOldBackups(t) =
            [i \in DOMAIN dumps |-> IF i \in gone THEN [dumps[i] EXCEPT !.state = "removed"] ELSE dumps[i]]
      BY DEF CleanOldBackups
    <2>2. \A i \in gone : ~dumps[i].manual /\ i # t
      OBVIOUS
    <2> HIDE DEF gone
    <2> QED
      BY <2>1, <2>2
  <1>3. \A i \in DOMAIN dumps :
            /\ [dumps[i] EXCEPT !.state = "removed"] \in Dump
            /\ [dumps[i] EXCEPT !.state = "removed"].manual = dumps[i].manual
    BY <1>1, StatesTyped
  <1> HIDE DEF CleanOldBackups
  <1>4. \A i \in DOMAIN dumps : CleanOldBackups(t)[i] \in Dump /\ CleanOldBackups(t)[i].manual = dumps[i].manual
    BY <1>1, <1>2, <1>3
  <1> QED
    BY <1>2, <1>4

LEMMA Returned ==
    ASSUME IInv, NEW t \in DOMAIN dumps, DumpReturns(t), dumps[t].state = "removed" => ManualKept
    PROVE  /\ dumps' \in [DOMAIN dumps -> Dump] /\ dumps'[t] = dumps[t]
           /\ \A i \in DOMAIN dumps : /\ dumps'[i].manual = dumps[i].manual
                                      /\ dumps[i].manual => dumps'[i] = dumps[i]
           /\ good => \E i \in DOMAIN dumps : dumps'[i].state = "complete"
           /\ dumps' = dumps \/ dumps[t].state \in {"complete", "removed"}
           /\ runs' \in Nat /\ troubles' \in Nat
  <1>1. \/ dumps[t].state \in {"complete", "removed"} /\ dumps' = CleanOldBackups(t)
        \/ dumps' = dumps
    BY DEF DumpReturns
  <1>2. dumps \in [DOMAIN dumps -> Dump] /\ TypeOK
    BY DumpsTyped DEF IInv, TypeOK
  <1>3. /\ dumps' \in [DOMAIN dumps -> Dump] /\ dumps'[t] = dumps[t]
        /\ \A i \in DOMAIN dumps : /\ dumps'[i].manual = dumps[i].manual
                                   /\ dumps[i].manual => dumps'[i] = dumps[i]
    <2>1. CASE dumps' = CleanOldBackups(t)
      BY <1>2, <2>1, Cleaned
    <2>2. CASE dumps' = dumps
      BY <1>2, <2>2
    <2> QED
      BY <1>1, <2>1, <2>2
  <1>4. good => \E i \in DOMAIN dumps : dumps'[i].state = "complete"
    <2>1. CASE dumps' = dumps
      BY <2>1 DEF IInv, BackupInv, GoodDumpKept
    <2>2. CASE dumps[t].state = "complete"
      BY <1>3, <2>2
    <2>3. CASE dumps[t].state = "removed"
      BY <1>3, <2>3 DEF ManualKept
    <2> QED
      BY <1>1, <2>1, <2>2, <2>3
  <1>5. runs' \in Nat /\ troubles' \in Nat
    BY <1>2, CountTyped DEF DumpReturns
  <1> QED
    BY <1>1, <1>3, <1>4, <1>5

LEMMA ReturnsInv ==
    ASSUME IInv, AutoDumpReturns \/ \E c \in Commands : ManualDumpReturns(c)
    PROVE  IInv'
  <1>1. CASE AutoDumpReturns
    <2>1. /\ UNCHANGED <<daemon, stack, cmd, raced, good>> /\ auto' = 0 /\ auto # 0 /\ DumpReturns(auto)
      BY <1>1 DEF AutoDumpReturns
    <2>2. auto \in DOMAIN dumps /\ (dumps[auto].state = "removed" => ManualKept)
      <3>1. dumps \in Seq(Dump) /\ auto \in 0..Len(dumps)
        BY DEF IInv, TypeOK
      <3>2. auto \in DOMAIN dumps
        BY <2>1, <3>1, DumpsTyped
      <3> QED
        BY <2>1, <3>2 DEF IInv, BackupInv, DumpInv
    <2>3. /\ dumps' \in [DOMAIN dumps -> Dump]
          /\ \A i \in DOMAIN dumps : /\ dumps'[i].manual = dumps[i].manual
                                     /\ dumps[i].manual => dumps'[i] = dumps[i]
          /\ good => \E i \in DOMAIN dumps : dumps'[i].state = "complete"
          /\ runs' \in Nat /\ troubles' \in Nat
      BY <2>1, <2>2, Returned
    <2>4. \A i \in DOMAIN dumps : dumps[i].manual => dumps[i].state # "removed"
      BY DEF IInv, BackupInv, DumpInv
    <2>5. good \in BOOLEAN
      BY DEF IInv, TypeOK
    <2>6. BackupInv' /\ dumps' \in Seq(Dump) /\ auto' \in 0..Len(dumps')
      BY <2>1, <2>3, <2>4, <2>5, DumpsChange
    <2>7. BuilderdInv'
      BY <2>1, ProcessBuilderd DEF daemon, Lives
    <2>8. TypeOK'
      BY <2>1, <2>3, <2>5, <2>6 DEF IInv, TypeOK, daemon, stack
    <2> QED
      BY <2>6, <2>7, <2>8 DEF IInv
  <1>2. ASSUME NEW c \in Commands, ManualDumpReturns(c) PROVE IInv'
    <2> DEFINE t == cmd[c].dump
    <2>1. UNCHANGED <<daemon, stack, auto, good>> /\ At(c, "dumping") /\ DumpReturns(t) /\ Fails(c)
      BY <1>2 DEF ManualDumpReturns, Fails
    <2>2. t \in DOMAIN dumps /\ dumps[t].manual /\ dumps[t].state # "removed"
      BY <2>1 DEF IInv, BackupInv, DumpInv
    <2> HIDE DEF t
    <2>3. /\ dumps' \in [DOMAIN dumps -> Dump] /\ dumps'[t] = dumps[t]
          /\ \A i \in DOMAIN dumps : /\ dumps'[i].manual = dumps[i].manual
                                     /\ dumps[i].manual => dumps'[i] = dumps[i]
          /\ good => \E i \in DOMAIN dumps : dumps'[i].state = "complete"
          /\ dumps' = dumps \/ dumps[t].state \in {"complete", "removed"}
          /\ runs' \in Nat /\ troubles' \in Nat
      BY <2>1, <2>2, Returned
    <2>4. \A i \in DOMAIN dumps : dumps[i].manual => dumps[i].state # "removed"
      BY DEF IInv, BackupInv, DumpInv
    <2>5. good \in BOOLEAN
      BY DEF IInv, TypeOK
    <2>6. dumps' = dumps \/ ManualKept'
      BY <2>2, <2>3 DEF ManualKept
    <2>7. Rests(c)
      BY <2>1, EndMoves DEF IInv, BuilderdInv
    <2>8. BuilderdInv' /\ cmd' \in [Commands -> Command] /\ raced' \in BOOLEAN
          /\ \A d \in Commands : cmd'[d] = cmd[d] \/ cmd'[d].pc # "dumping"
      BY <2>1, <2>7, QuietBuilderd DEF daemon, At
    <2>9. BackupInv' /\ dumps' \in Seq(Dump) /\ auto' \in 0..Len(dumps')
      BY <2>1, <2>3, <2>4, <2>5, <2>6, <2>8, DumpsChange
    <2>10. TypeOK'
      BY <2>1, <2>3, <2>5, <2>8, <2>9 DEF IInv, TypeOK, daemon, stack
    <2> QED
      BY <2>8, <2>9, <2>10 DEF IInv
  <1> QED
    BY <1>1, <1>2

\* A dump is begun: it is the last one and under way.
LEMMA DumpAdded ==
    ASSUME IInv, NEW m \in BOOLEAN, NewDump(m), good' = good,
           auto' = auto \/ (~m /\ auto' = Len(dumps')),
           \A d \in Commands : \/ cmd'[d] = cmd[d] \/ cmd'[d].pc # "dumping"
                               \/ m /\ cmd'[d].dump = Len(dumps')
    PROVE  /\ BackupInv' /\ dumps' \in Seq(Dump) /\ auto' \in 0..Len(dumps') /\ good' \in BOOLEAN
           /\ Len(dumps') \in Nat
  <1> DEFINE new == [manual |-> m, state |-> "writing"]
  <1>1. dumps \in Seq(Dump) /\ auto \in 0..Len(dumps) /\ good \in BOOLEAN /\ dumps' = Append(dumps, new)
    BY DEF IInv, TypeOK, NewDump
  <1>2. new \in Dump /\ new.manual = m /\ new.state = "writing"
    BY DEF Dump
  <1> HIDE DEF new
  <1>3. /\ dumps' \in Seq(Dump) /\ Len(dumps') = Len(dumps) + 1 /\ dumps'[Len(dumps')] = new
        /\ \A t \in 1..Len(dumps) : dumps'[t] = dumps[t]
        /\ DOMAIN dumps = 1..Len(dumps) /\ DOMAIN dumps' = 1..Len(dumps') /\ Len(dumps) \in Nat
    BY <1>1, <1>2
  <1>4. auto' \in 0..Len(dumps') /\ Len(dumps') \in DOMAIN dumps'
    BY <1>1, <1>3
  <1>5. \A t \in DOMAIN dumps : t \in DOMAIN dumps' /\ dumps'[t] = dumps[t]
    BY <1>3
  <1>6. \A t \in DOMAIN dumps' : t \in DOMAIN dumps \/ dumps'[t] = new
    BY <1>3
  <1>7. ManualKept => ManualKept'
    BY <1>5 DEF ManualKept
  <1>8. auto' # 0 => ~dumps'[auto'].manual /\ (dumps'[auto'].state = "removed" => ManualKept')
    <2>1. CASE auto' = auto /\ auto # 0
      <3>1. auto \in DOMAIN dumps
        BY <1>1, <1>3, <2>1
      <3> QED
        BY <1>5, <1>7, <2>1, <3>1 DEF IInv, BackupInv, DumpInv
    <2>2. CASE ~m /\ auto' = Len(dumps')
      BY <1>2, <1>3, <2>2
    <2> QED
      BY <2>1, <2>2
  <1>9. DumpInv'
    <2>1. \A t \in DOMAIN dumps' : dumps'[t].manual => dumps'[t].state # "removed"
      BY <1>2, <1>5, <1>6 DEF IInv, BackupInv, DumpInv
    <2>2. \A d \in Commands : cmd'[d].pc = "dumping" =>
                                cmd'[d].dump \in DOMAIN dumps' /\ dumps'[cmd'[d].dump].manual
      <3>1. SUFFICES ASSUME NEW d \in Commands, cmd'[d].pc = "dumping"
                     PROVE  cmd'[d].dump \in DOMAIN dumps' /\ dumps'[cmd'[d].dump].manual
        OBVIOUS
      <3>2. CASE cmd'[d] = cmd[d]
        <4>1. cmd[d].dump \in DOMAIN dumps /\ dumps[cmd[d].dump].manual
          BY <3>1, <3>2 DEF IInv, BackupInv, DumpInv, At
        <4> QED
          BY <1>5, <3>2, <4>1
      <3>3. CASE m /\ cmd'[d].dump = Len(dumps')
        BY <1>2, <1>3, <1>4, <3>3
      <3> QED
        BY <3>1, <3>2, <3>3
    <2> QED
      BY <1>8, <2>1, <2>2 DEF DumpInv, At
  <1>10. GoodDumpKept'
    BY <1>5 DEF IInv, BackupInv, GoodDumpKept
  <1> QED
    BY <1>1, <1>3, <1>4, <1>9, <1>10 DEF BackupInv

LEMMA DumpBegins ==
    ASSUME IInv, AutoDump \/ \E c \in Commands : ManualDump(c)
    PROVE  IInv'
  <1>1. CASE AutoDump
    <2>1. /\ UNCHANGED <<daemon, stack, cmd, raced, good>> /\ auto' = Len(dumps') /\ NewDump(FALSE) /\ NoTrouble
      BY <1>1 DEF AutoDump
    <2>2. BackupInv' /\ dumps' \in Seq(Dump) /\ auto' \in 0..Len(dumps') /\ good' \in BOOLEAN
      BY <2>1, DumpAdded
    <2>3. BuilderdInv'
      BY <2>1, ProcessBuilderd DEF daemon, Lives
    <2>4. runs' \in Nat /\ troubles' \in Nat
      BY <2>1, CountTyped DEF IInv
    <2>5. TypeOK'
      BY <2>1, <2>2, <2>4 DEF IInv, TypeOK, daemon, stack
    <2> QED
      BY <2>2, <2>3, <2>5 DEF IInv
  <1>2. ASSUME NEW c \in Commands, ManualDump(c) PROVE IInv'
    <2>1. UNCHANGED <<daemon, stack, auto, good>> /\ At(c, "dump") /\ NoTrouble
      BY <1>2 DEF ManualDump
    <2>2. runs' \in Nat /\ troubles' \in Nat
      BY <2>1, CountTyped DEF IInv
    <2>3. TypeOK /\ TodoInv /\ cmd[c] \in Command /\ InOrder(cmd[c])
      BY DEF IInv, BuilderdInv, TypeOK, TodoInv
    <2>4. CASE Fails(c) /\ UNCHANGED dumps
      <3>1. Rests(c)
        BY <2>3, <2>4, EndMoves
      <3>2. BuilderdInv' /\ cmd' \in [Commands -> Command] /\ raced' \in BOOLEAN
            /\ \A d \in Commands : cmd'[d] = cmd[d] \/ cmd'[d].pc # "dumping"
        BY <2>1, <3>1, QuietBuilderd DEF daemon, At
      <3>3. BackupInv' /\ dumps' \in Seq(Dump) /\ auto' \in 0..Len(dumps') /\ good' \in BOOLEAN
        BY <2>1, <2>4, <3>2, QuietBackup
      <3>4. TypeOK'
        BY <2>1, <2>2, <3>2, <3>3 DEF IInv, TypeOK, daemon, stack
      <3> QED
        BY <3>2, <3>3, <3>4 DEF IInv
    <2>5. CASE NewDump(TRUE) /\ Becomes(c, [cmd[c] EXCEPT !.pc = "dumping", !.dump = Len(dumps')])
      <3>1. PICK n \in Nat : n = Len(dumps')
        <4>1. dumps \in Seq(Dump) /\ \E x : dumps' = Append(dumps, x)
          BY <2>5 DEF IInv, TypeOK, NewDump
        <4>2. PICK x : dumps' = Append(dumps, x)
          BY <4>1
        <4>3. Len(dumps') = Len(dumps) + 1 /\ Len(dumps) \in Nat
          BY <4>1, <4>2
        <4> QED
          BY <4>3
      <3> DEFINE r == [cmd[c] EXCEPT !.pc = "dumping", !.dump = n]
      <3>2. r \in Command /\ r.pc = "dumping" /\ r.dump = n /\ r.todo = cmd[c].todo
        BY <2>3, <3>1, DumpingTyped, Zenon
      <3>3. Becomes(c, r)
        BY <2>5, <3>1
      <3> HIDE DEF r
      <3>4. InOrder(r)
        BY <2>3, <3>2 DEF InOrder
      <3>5. Moves(c, r)
        BY <2>3, <3>2, <3>3, <3>4, BecomesMoves
      <3>6. /\ cmd' \in [Commands -> Command] /\ raced' \in BOOLEAN
            /\ cmd'[c] = r /\ \A d \in Commands : d # c => cmd'[d] = cmd[d]
        BY <2>3, <3>5, MovesTyped
      <3>7. BackupInv' /\ dumps' \in Seq(Dump) /\ auto' \in 0..Len(dumps') /\ good' \in BOOLEAN
        BY <2>1, <2>5, <3>1, <3>2, <3>6, DumpAdded
      <3>8. TodoInv' /\ (~raced' => \A d, e \in Commands : ~Overlap(cmd'[d], cmd'[e])) /\ (~raced' => ~raced)
        BY <3>5, WorkMoves DEF Moves
      <3>9. LockInv'
        BY <2>1, <3>2, <3>6 DEF IInv, BuilderdInv, LockInv, Starting, daemon
      <3>10. FileInv' /\ Findable'
        BY <2>1, <3>2, <3>6, <3>8 DEF IInv, BuilderdInv, FileInv, Findable, Lives, At, daemon
      <3>11. TypeOK'
        BY <2>1, <2>2, <3>6, <3>7 DEF IInv, TypeOK, daemon, stack
      <3> QED
        BY <3>7, <3>8, <3>9, <3>10, <3>11 DEF IInv, BuilderdInv
    <2> QED
      BY <1>2, <2>4, <2>5, Zenon DEF ManualDump
  <1> QED
    BY <1>1, <1>2

LEMMA PgDumpEndsInv ==
    ASSUME IInv, NEW t \in DOMAIN dumps, PgDumpEnds(t)
    PROVE  IInv'
  <1>1. UNCHANGED <<daemon, stack, auto, cmd, raced>> /\ dumps[t].state = "writing"
    BY DEF PgDumpEnds
  <1>2. dumps \in [DOMAIN dumps -> Dump] /\ dumps[t] \in Dump /\ good \in BOOLEAN
    BY DumpsTyped DEF IInv, TypeOK
  <1>3. PICK s \in {"complete", "partial"} :
            /\ dumps' = [dumps EXCEPT ![t] = [dumps[t] EXCEPT !.state = s]]
            /\ (s = "complete" /\ good' = TRUE) \/ good' = good
    <2>1. \/ dumps' = [dumps EXCEPT ![t] = [dumps[t] EXCEPT !.state = "complete"]] /\ good' = TRUE
          \/ dumps' = [dumps EXCEPT ![t] = [dumps[t] EXCEPT !.state = "partial"]] /\ good' = good
      BY Zenon DEF PgDumpEnds
    <2> QED
      BY <2>1, Zenon
  <1>4. /\ [dumps[t] EXCEPT !.state = s] \in Dump
        /\ [dumps[t] EXCEPT !.state = s].state = s /\ [dumps[t] EXCEPT !.state = s].manual = dumps[t].manual
    <2>1. s \in {"writing", "complete", "partial", "removed"}
      OBVIOUS
    <2> QED
      BY <1>2, <2>1, StatesTyped, Zenon
  <1>5. /\ dumps' \in [DOMAIN dumps -> Dump]
        /\ dumps'[t].state = s /\ dumps'[t].manual = dumps[t].manual
        /\ \A i \in DOMAIN dumps : i # t => dumps'[i] = dumps[i]
    BY <1>2, <1>3, <1>4
  <1>6. good' \in BOOLEAN
    BY <1>2, <1>3, Zenon
  <1>7. good' => \E i \in DOMAIN dumps : dumps'[i].state = "complete"
    <2>1. good => \E i \in DOMAIN dumps : i # t /\ dumps[i].state = "complete"
      BY <1>1 DEF IInv, BackupInv, GoodDumpKept
    <2> QED
      BY <1>3, <1>5, <2>1
  <1>8. \A i \in DOMAIN dumps : dumps[i].manual => dumps[i].state # "removed"
    BY DEF IInv, BackupInv, DumpInv
  <1>9. BackupInv' /\ dumps' \in Seq(Dump) /\ auto' \in 0..Len(dumps')
    <2>1. dumps'[auto].state = "removed" => dumps[auto].state = "removed"
      <3>1. auto # t => dumps'[auto] = dumps[auto]
        BY <1>3
      <3> QED
        BY <1>5, <3>1
    <2> QED
      BY <1>1, <1>5, <1>6, <1>7, <1>8, <2>1, DumpsChange
  <1>10. BuilderdInv'
    BY <1>1, ProcessBuilderd DEF daemon, Lives
  <1>11. runs' \in Nat /\ troubles' \in Nat
    BY CountTyped DEF PgDumpEnds, IInv
  <1>12. TypeOK'
    BY <1>1, <1>6, <1>9, <1>11 DEF IInv, TypeOK, daemon, stack
  <1> QED
    BY <1>9, <1>10, <1>12 DEF IInv

\* Server and database go down with the dump that was under way.
LEMMA DownDumps ==
    ASSUME IInv, Down, \A d \in Commands : cmd'[d] = cmd[d] \/ cmd'[d].pc # "dumping"
    PROVE  BackupInv' /\ dumps' \in Seq(Dump) /\ auto' \in 0..Len(dumps') /\ good' \in BOOLEAN
  <1>1. \A t \in DOMAIN dumps : dumps[t] \in Dump
    BY DumpsTyped DEF IInv, TypeOK
  <1>2. \A t \in DOMAIN dumps : /\ [dumps[t] EXCEPT !.state = "partial"] \in Dump
                                /\ [dumps[t] EXCEPT !.state = "partial"].state = "partial"
                                /\ [dumps[t] EXCEPT !.state = "partial"].manual = dumps[t].manual
    BY <1>1, StatesTyped
  <1>3. \A t \in DOMAIN dumps : dumps'[t] = IF dumps[t].state = "writing" THEN [dumps[t] EXCEPT !.state = "partial"]
                                                                         ELSE dumps[t]
    BY DEF Down
  <1>4. dumps' \in [DOMAIN dumps -> Dump]
    <2>1. dumps' = [t \in DOMAIN dumps |-> dumps'[t]]
      BY DEF Down
    <2>2. \A t \in DOMAIN dumps : dumps'[t] \in Dump
      BY <1>1, <1>2, <1>3
    <2> QED
      BY <2>1, <2>2
  <1>5. \A t \in DOMAIN dumps : /\ dumps'[t].manual = dumps[t].manual
                                /\ dumps[t].state = "complete" => dumps'[t].state = "complete"
                                /\ dumps[t].state # "removed" => dumps'[t].state # "removed"
    BY <1>2, <1>3
  <1>6. auto' = 0 /\ good' = good /\ good \in BOOLEAN
    BY DEF Down, IInv, TypeOK
  <1>7. good' => \E t \in DOMAIN dumps : dumps'[t].state = "complete"
    BY <1>5, <1>6 DEF IInv, BackupInv, GoodDumpKept
  <1>8. \A t \in DOMAIN dumps : dumps[t].manual => dumps[t].state # "removed"
    BY DEF IInv, BackupInv, DumpInv
  <1> QED
    BY <1>4, <1>5, <1>6, <1>7, <1>8, DumpsChange

LEMMA DownInv ==
    ASSUME IInv, NEW c \in Commands, PreUpDown(c) \/ ComposeDown(c)
    PROVE  IInv'
  <1>1. UNCHANGED <<daemon, workers>> /\ ~At(c, "write") /\ (Down \/ UNCHANGED backups)
    BY DEF PreUpDown, ComposeDown, At
  <1>2. compose' \in Project
    <2>1. compose \in Project
      BY DEF IInv, TypeOK, Project
    <2>2. \/ compose' = compose \/ compose' = [compose EXCEPT !.file = TRUE]
          \/ compose' = [file |-> TRUE, up |-> FALSE] \/ compose' = [file |-> FALSE, up |-> FALSE]
      BY Zenon DEF PreUpDown, ComposeDown
    <2> QED
      BY <2>1, <2>2, ProjectTyped, Zenon
  <1>3. runs' \in Nat /\ troubles' \in Nat
    BY CountTyped DEF PreUpDown, ComposeDown, IInv
  <1>4. Rests(c)
    <2>1. TypeOK /\ TodoInv
      BY DEF IInv, BuilderdInv
    <2>2. CASE PreUpDown(c)
      BY <2>1, <2>2, GotoMoves DEF PreUpDown, Place, Rest
    <2>3. CASE ComposeDown(c)
      BY <2>1, <2>3, EndMoves DEF ComposeDown
    <2> QED
      BY <2>2, <2>3
  <1>5. BuilderdInv' /\ cmd' \in [Commands -> Command] /\ raced' \in BOOLEAN
        /\ \A d \in Commands : cmd'[d] = cmd[d] \/ cmd'[d].pc # "dumping"
    BY <1>1, <1>4, QuietBuilderd DEF daemon
  <1>6. BackupInv' /\ dumps' \in Seq(Dump) /\ auto' \in 0..Len(dumps') /\ good' \in BOOLEAN
    BY <1>1, <1>5, DownDumps, QuietBackup DEF backups
  <1>7. TypeOK'
    BY <1>1, <1>2, <1>3, <1>5, <1>6 DEF IInv, TypeOK, Project, daemon
  <1> QED
    BY <1>5, <1>6, <1>7 DEF IInv

LEMMA InvStep == IInv /\ [Next]_vars => IInv'
  <1> SUFFICES ASSUME IInv, [Next]_vars PROVE IInv'
    OBVIOUS
  <1>1. ASSUME NEW c \in Commands, CommandStep(c) PROVE IInv'
    BY <1>1, TakeLockInv, CheckPidFileInv, RemoveStaleInv, SpawnInv, WritePidFileInv, ReadInv, KillInv,
       RemovePidFileInv, StackInv, DownInv, DumpBegins, ReturnsInv DEF CommandStep
  <1>2. ASSUME NEW c \in Commands, Interrupted(c) \/ \E op \in Ops : Invoke(c, op) PROVE IInv'
    BY <1>2, CommandInv
  <1>3. CASE (\E p \in Pids : Bind(p) \/ Dies(p) \/ Crashes(p) \/ Reused(p)) \/ \E w \in Workers : Launch(w)
    BY <1>3, ProcessInv
  <1>4. CASE \E t \in DOMAIN dumps : PgDumpEnds(t)
    BY <1>4, PgDumpEndsInv
  <1>5. CASE AutoDump \/ AutoDumpReturns
    BY <1>5, DumpBegins, ReturnsInv
  <1>6. CASE UNCHANGED vars
    <2>1. UNCHANGED <<proc, port, pidFile, lock, outgoing, compose, workers, dumps, auto, good, cmd, runs, troubles, raced>>
      BY <1>6 DEF vars, daemon, stack, backups
    <2>2. TypeOK' /\ TodoInv' /\ LockInv' /\ FileInv' /\ Findable'
      BY <2>1 DEF IInv, BuilderdInv, TypeOK, TodoInv, LockInv, FileInv, Findable, Lives, At
    <2>3. BackupInv'
      BY <2>1 DEF IInv, BackupInv, DumpInv, ManualKept, GoodDumpKept, At
    <2> QED
      BY <2>2, <2>3 DEF IInv, BuilderdInv
  <1> QED
    BY <1>1, <1>2, <1>3, <1>4, <1>5, <1>6 DEF Next

-----------------------------------------------------------------------------

\* The inductive invariant holds in every state.
THEOREM InvCorrect == Spec => []IInv
  <1> QED
    BY InvInit, InvStep, PTL DEF Spec

\* However many commands start and stop builderd (start_builderd, stop_builderd)
\* and are cut short, a builderd that lives is the one the PID file names or is
\* about to name, unless a stop has overlapped a start or a start was cut short
\* between spawn and write.
THEOREM FindableCorrect == Spec => []Findable
  <1>1. IInv => Findable
    BY DEF IInv, BuilderdInv
  <1> QED
    BY <1>1, InvCorrect, PTL

\* Whatever retain_count is, no clean-up (clean_old_backups, of the server or
\* of `ur db backup`) removes the last complete dump.
THEOREM GoodDumpKeptCorrect == Spec => []GoodDumpKept
  <1>1. IInv => GoodDumpKept
    BY DEF IInv, BackupInv
  <1> QED
    BY <1>1, InvCorrect, PTL

-----------------------------------------------------------------------------
(* The terminal interface: types of the model. *)

IdsN == Ids \cup {NoId}
Kind == {"TicketList", "TicketDetail", "TicketActivities", "TicketBody", "FlowList", "FlowDetail",
         "WorkerList", "HelpPage"}
Pages == [kind : Kind, id : IdsN]
Handlers == {"global", "activities", "scroll"}
UiCommands ==
    [what : {"tickets", "detail", "activities", "flows", "flow", "notify", "workers", "stop"}, id : IdsN, arg : Nat]
    \cup [what : {"create"}, id : Drafts, arg : {0, 1}]
Status == {"going", "stalled"}
FlowMaps == UNION {[S -> Status] : S \in SUBSET Ids}
Overlays == {NoOverlay} \cup [kind : {"goto"}, id : IdsN] \cup [kind : {"create"}, id : Drafts]
DetailData == [id : IdsN, rev : Nat, arg : Nat]
ActivityData == [rev : Nat, arg : Nat]

Fields == {"tab", "stacks", "handlers", "ticketList", "rows", "detail", "activities", "flowList", "flowPage",
           "flowDetail", "workerList", "dirty", "changed", "cooling", "known", "overlay", "cmds"}

IsModel(u) == u = [f \in Fields |-> u[f]]

\* u and v differ at most in the fields F.
Alters(u, v, F) == IsModel(v) /\ \A f \in Fields \ F : v[f] = u[f]

\* The fields that the navigation uses, and those that hold data.
NavTyped(u) ==
    /\ IsModel(u) /\ u.tab \in Tabs /\ u.stacks \in [Tabs -> Seq(Pages) \ {<<>>}] /\ u.handlers \in Seq(Handlers)
    /\ u.overlay \in Overlays
DataTyped(u) ==
    /\ u.ticketList \in Load(Nat) /\ u.workerList \in Load(SUBSET Ids) /\ u.flowList \in Load(FlowMaps)
    /\ u.detail \in [id : IdsN, data : Load(DetailData), closed : BOOLEAN, rows : BOOLEAN]
    /\ u.activities \in [id : IdsN, data : Load(ActivityData), authors : BOOLEAN, author : {0, 1}]
    /\ u.flowPage \in Nat /\ u.dirty \subseteq {"Tickets", "Flows", "Workers"} /\ u.changed \subseteq Ids
    /\ u.cooling \in BOOLEAN /\ u.known \in [Ids -> Status \cup {"unseen"}] /\ u.flowDetail.id \in IdsN
ModelOK(u) == NavTyped(u) /\ DataTyped(u) /\ u.cmds \in Seq(UiCommands)

LEMMA TabsTyped == Tabs = {"Tickets", "Flows", "Workers", "Help"}
  BY DEF Tabs, TabIds, Range

LEMMA PagesTyped ==
    /\ \A t \in Tabs : RootPage[t] \in Pages
    /\ \A page \in Pages : PageHandlers(page) \in Seq(Handlers) /\ Len(PageHandlers(page)) \in {0, 1}
    /\ \A k \in Kind, i \in IdsN : Page(k, i) \in Pages /\ Page(k, i).kind = k /\ Page(k, i).id = i
    /\ \A page \in Pages : page.kind \in Kind /\ page.id \in IdsN
  <1>1. \A k \in Kind, i \in IdsN : Page(k, i) \in Pages /\ Page(k, i).kind = k /\ Page(k, i).id = i
    BY DEF Page, Pages
  <1>2. \A page \in Pages : page.kind \in Kind /\ page.id \in IdsN
    BY DEF Pages
  <1>3. \A t \in Tabs : RootPage[t] \in Pages
    BY <1>1, TabsTyped DEF RootPage, Kind, IdsN
  <1>4. ASSUME NEW page \in Pages
        PROVE PageHandlers(page) \in Seq(Handlers) /\ Len(PageHandlers(page)) \in {0, 1}
    <2>1. CASE page.kind = "TicketActivities"
      BY <2>1 DEF PageHandlers, Handlers
    <2>2. CASE page.kind \in {"TicketBody", "HelpPage"}
      BY <2>2 DEF PageHandlers, Handlers
    <2>3. CASE page.kind \notin {"TicketActivities", "TicketBody", "HelpPage"}
      BY <2>3 DEF PageHandlers
    <2> QED
      BY <2>1, <2>2, <2>3
  <1> QED
    BY <1>1, <1>2, <1>3, <1>4

LEMMA LoadTyped ==
    ASSUME NEW D
    PROVE  /\ NotLoaded \in Load(D) /\ Loading \in Load(D) /\ Failed \in Load(D)
           /\ \A d \in D : Loaded(d) \in Load(D) /\ IsLoaded(Loaded(d)) /\ Loaded(d).data = d
           /\ \A l \in Load(D) : IsLoaded(l) => l.data \in D /\ l = Loaded(l.data)
           /\ ~IsLoaded(NotLoaded) /\ ~IsLoaded(Loading) /\ ~IsLoaded(Failed)
           /\ NotLoaded # Loading /\ Failed # Loading /\ Failed # NotLoaded
  <1>1. NotLoaded.state = "NotLoaded" /\ Loading.state = "Loading" /\ Failed.state = "Error"
    BY DEF NotLoaded, Loading, Failed
  <1>2. \A d : Loaded(d).state = "Loaded" /\ Loaded(d).data = d
    BY DEF Loaded
  <1>3. NotLoaded \in Load(D) /\ Loading \in Load(D) /\ Failed \in Load(D) /\ \A d \in D : Loaded(d) \in Load(D)
    BY DEF Load
  <1>4. \A l \in Load(D) : l \in {NotLoaded, Loading, Failed} \/ \E d \in D : l = Loaded(d)
    BY DEF Load
  <1> QED
    BY <1>1, <1>2, <1>3, <1>4 DEF IsLoaded
\* A command that is given stays given.
Grows(u, v) == \A k \in DOMAIN u.cmds : k \in DOMAIN v.cmds /\ v.cmds[k] = u.cmds[k]
Sends(v, what, id) == \E k \in DOMAIN v.cmds : v.cmds[k].what = what /\ v.cmds[k].id = id

LEMMA FetchTyped ==
    /\ \A w, i, a : Fetch(w, i, a).what = w /\ Fetch(w, i, a).id = i /\ Fetch(w, i, a).arg = a
    /\ \A w \in {"tickets", "detail", "activities", "flows", "flow", "notify", "workers", "stop"}, i \in IdsN, a \in Nat :
          Fetch(w, i, a) \in UiCommands
    /\ \A d \in Drafts, a \in {0, 1} : Fetch("create", d, a) \in UiCommands
    /\ \A a \in Nat : Fetch("flows", NoId, a) \in UiCommands
    /\ FetchTickets \in UiCommands /\ FetchTickets.what = "tickets" /\ FetchTickets.id = NoId
    /\ FetchWorkers \in UiCommands /\ FetchWorkers.what = "workers" /\ FetchWorkers.id = NoId
  BY DEF Fetch, UiCommands, FetchTickets, FetchWorkers, IdsN

LEMMA EmitOnly ==
    ASSUME NEW u, IsModel(u), u.cmds \in Seq(UiCommands), NEW cs \in Seq(UiCommands)
    PROVE  /\ Alters(u, Emit(u, cs), {"cmds"}) /\ Grows(u, Emit(u, cs))
           /\ Emit(u, cs).cmds \in Seq(UiCommands)
           /\ \A k \in DOMAIN cs : Sends(Emit(u, cs), cs[k].what, cs[k].id)
  <1>1. Alters(u, Emit(u, cs), {"cmds"}) /\ Emit(u, cs).cmds = u.cmds \o cs
    BY DEF IsModel, Fields, Alters, Emit
  <1>2. u.cmds \o cs \in Seq(UiCommands) /\ \A k \in DOMAIN u.cmds : k \in DOMAIN (u.cmds \o cs) /\ (u.cmds \o cs)[k] = u.cmds[k]
    OBVIOUS
  <1>3. ASSUME NEW k \in DOMAIN cs PROVE Sends(Emit(u, cs), cs[k].what, cs[k].id)
    <2>1. Len(u.cmds) + k \in DOMAIN (u.cmds \o cs) /\ (u.cmds \o cs)[Len(u.cmds) + k] = cs[k]
      OBVIOUS
    <2> QED
      BY <1>1, <2>1 DEF Sends
  <1> QED
    BY <1>1, <1>2, <1>3 DEF Grows

\* Changes of fields that do not concern the navigation.
LEMMA NavSame ==
    ASSUME NEW u, NavTyped(u), NEW v, NEW F, Alters(u, v, F), {"tab", "stacks", "handlers", "overlay"} \cap F = {}
    PROVE  NavTyped(v) /\ v.tab = u.tab /\ v.stacks = u.stacks /\ v.handlers = u.handlers /\ v.overlay = u.overlay
  <1>1. IsModel(v) /\ v["tab"] = u["tab"] /\ v["stacks"] = u["stacks"] /\ v["handlers"] = u["handlers"] /\ v["overlay"] = u["overlay"]
    BY DEF Alters, Fields
  <1> QED
    BY <1>1 DEF NavTyped

LEMMA EmitOK ==
    ASSUME NEW u, ModelOK(u), NEW cs \in Seq(UiCommands)
    PROVE  /\ Alters(u, Emit(u, cs), {"cmds"}) /\ ModelOK(Emit(u, cs)) /\ Grows(u, Emit(u, cs))
           /\ \A k \in DOMAIN cs : Sends(Emit(u, cs), cs[k].what, cs[k].id)
  <1>1. PICK v : v = Emit(u, cs)
    OBVIOUS
  <1>2. IsModel(u) /\ u.cmds \in Seq(UiCommands)
    BY DEF ModelOK, NavTyped
  <1>3. /\ Alters(u, v, {"cmds"}) /\ Grows(u, v) /\ v.cmds \in Seq(UiCommands)
        /\ \A k \in DOMAIN cs : Sends(v, cs[k].what, cs[k].id)
    BY <1>1, <1>2, EmitOnly
  <1>4. NavTyped(v)
    BY <1>3, NavSame DEF ModelOK
  <1>5. DataTyped(v)
    BY <1>3 DEF ModelOK, DataTyped, Alters, Fields
  <1> QED
    BY <1>1, <1>3, <1>4, <1>5 DEF ModelOK

LEMMA DetailFetchesTyped ==
    ASSUME NEW u, DataTyped(u)
    PROVE  /\ Preview(u) \in Seq(UiCommands)
           /\ DetailFetches(u) \in Seq(UiCommands) /\ 1 \in DOMAIN DetailFetches(u)
           /\ DetailFetches(u)[1].what = "detail" /\ DetailFetches(u)[1].id = u.detail.id
  <1>1. u.detail.id \in IdsN
    BY DEF DataTyped
  <1>2. Preview(u) \in Seq(UiCommands)
    BY <1>1, FetchTyped DEF Preview
  <1>3. PICK c \in UiCommands : c = Fetch("detail", u.detail.id, IF u.detail.closed THEN 0 ELSE 1)
    BY <1>1, FetchTyped
  <1>4. DetailFetches(u) = <<c>> \o Preview(u)
    BY <1>3 DEF DetailFetches
  <1>5. <<c>> \in Seq(UiCommands) /\ Len(<<c>>) = 1 /\ <<c>>[1] = c
    OBVIOUS
  <1>6. DetailFetches(u) \in Seq(UiCommands) /\ 1 \in DOMAIN DetailFetches(u) /\ DetailFetches(u)[1] = c
    BY <1>2, <1>4, <1>5
  <1> QED
    BY <1>2, <1>3, <1>6, FetchTyped

LEMMA StartDetailOnly ==
    ASSUME NEW u, ModelOK(u), NEW i \in IdsN
    PROVE  LET v == StartDetail(u, i) IN
           /\ Alters(u, v, {"detail", "cmds"}) /\ ModelOK(v) /\ Grows(u, v) /\ Sends(v, "detail", i)
           /\ v.detail.id = i /\ v.detail.data = Loading
  <1>1. PICK d : d = [id |-> i, data |-> Loading, rows |-> FALSE, closed |-> u.detail.id = i /\ u.detail.closed]
    OBVIOUS
  <1>2. PICK w : w = [u EXCEPT !.detail = d]
    OBVIOUS
  <1>3. d \in [id : IdsN, data : Load(DetailData), closed : BOOLEAN, rows : BOOLEAN]
    <2>1. (u.detail.id = i /\ u.detail.closed) \in BOOLEAN
      BY DEF ModelOK, DataTyped
    <2> QED
      BY <1>1, <2>1, LoadTyped
  <1>4. Alters(u, w, {"detail"}) /\ w.detail = d /\ w.cmds = u.cmds
    BY <1>2 DEF ModelOK, NavTyped, IsModel, Fields, Alters
  <1>5. ModelOK(w)
    <2>1. NavTyped(w)
      BY <1>4, NavSame DEF ModelOK
    <2>2. DataTyped(w)
      BY <1>3, <1>4 DEF ModelOK, DataTyped, Alters, Fields
    <2> QED
      BY <1>4, <2>1, <2>2 DEF ModelOK
  <1>6. StartDetail(u, i) = Emit(w, DetailFetches(w))
    BY <1>1, <1>2 DEF StartDetail
  <1>7. PICK v : v = Emit(w, DetailFetches(w))
    OBVIOUS
  <1>8. DetailFetches(w) \in Seq(UiCommands) /\ 1 \in DOMAIN DetailFetches(w)
        /\ DetailFetches(w)[1].what = "detail" /\ DetailFetches(w)[1].id = i
    BY <1>1, <1>4, <1>5, DetailFetchesTyped DEF ModelOK
  <1>9. Alters(w, v, {"cmds"}) /\ ModelOK(v) /\ Grows(w, v) /\ Sends(v, "detail", i)
    BY <1>5, <1>7, <1>8, EmitOK
  <1>10. Alters(u, v, {"detail", "cmds"}) /\ Grows(u, v) /\ v.detail = d
    BY <1>4, <1>9 DEF Alters, Grows, Fields
  <1> QED
    BY <1>1, <1>6, <1>7, <1>9, <1>10
LEMMA StartActivitiesOnly ==
    ASSUME NEW u, ModelOK(u), NEW i \in IdsN
    PROVE  LET v == StartActivities(u, i) IN
           /\ Alters(u, v, {"activities", "cmds"}) /\ ModelOK(v) /\ Grows(u, v) /\ Sends(v, "activities", i)
           /\ v.activities.id = i /\ v.activities.data = Loading
  <1>1. PICK a : a = [NoActivities EXCEPT !.id = i, !.data = Loading]
    OBVIOUS
  <1>2. PICK w : w = [u EXCEPT !.activities = a]
    OBVIOUS
  <1>3. a \in [id : IdsN, data : Load(ActivityData), authors : BOOLEAN, author : {0, 1}] /\ a.id = i /\ a.data = Loading
    BY <1>1, LoadTyped DEF NoActivities
  <1>4. Alters(u, w, {"activities"}) /\ w.activities = a /\ w.cmds = u.cmds
    BY <1>2 DEF ModelOK, NavTyped, IsModel, Fields, Alters
  <1>5. ModelOK(w)
    <2>1. NavTyped(w)
      BY <1>4, NavSame DEF ModelOK
    <2>2. DataTyped(w)
      BY <1>3, <1>4 DEF ModelOK, DataTyped, Alters, Fields
    <2> QED
      BY <1>4, <2>1, <2>2 DEF ModelOK
  <1>6. PICK c \in UiCommands : c = Fetch("activities", i, 0) /\ c.what = "activities" /\ c.id = i
    BY FetchTyped
  <1>7. PICK v : v = Emit(w, <<c>>)
    OBVIOUS
  <1>8. StartActivities(u, i) = v
    BY <1>1, <1>2, <1>6, <1>7 DEF StartActivities
  <1>9. <<c>> \in Seq(UiCommands) /\ 1 \in DOMAIN <<c>> /\ <<c>>[1] = c
    OBVIOUS
  <1>10. Alters(w, v, {"cmds"}) /\ ModelOK(v) /\ Grows(w, v) /\ Sends(v, "activities", i)
    BY <1>5, <1>6, <1>7, <1>9, EmitOK
  <1>11. Alters(u, v, {"activities", "cmds"}) /\ Grows(u, v) /\ v.activities = a
    BY <1>4, <1>10 DEF Alters, Grows, Fields
  <1> QED
    BY <1>3, <1>8, <1>10, <1>11

LEMMA InitFlowDetailOnly ==
    ASSUME NEW u, ModelOK(u), NEW i \in IdsN
    PROVE  LET v == InitFlowDetail(u, i) IN
           Alters(u, v, {"flowDetail", "cmds"}) /\ ModelOK(v) /\ Grows(u, v)
  <1>1. ASSUME NEW d, d.id \in IdsN, NEW w, w = [u EXCEPT !.flowDetail = d]
        PROVE  Alters(u, w, {"flowDetail"}) /\ ModelOK(w) /\ w.cmds = u.cmds
    <2>1. Alters(u, w, {"flowDetail"}) /\ w.cmds = u.cmds /\ w.flowDetail = d
      BY <1>1 DEF ModelOK, NavTyped, IsModel, Fields, Alters
    <2>2. NavTyped(w)
      BY <2>1, NavSame DEF ModelOK
    <2>3. DataTyped(w)
      BY <1>1, <2>1 DEF ModelOK, DataTyped, Alters, Fields
    <2> QED
      BY <2>1, <2>2, <2>3 DEF ModelOK
  <1>2. CASE IsLoaded(u.flowList) /\ i \in DOMAIN u.flowList.data
    <2>1. PICK w : w = [u EXCEPT !.flowDetail = [id |-> i, status |-> u.flowList.data[i]]]
      OBVIOUS
    <2>2. InitFlowDetail(u, i) = w
      BY <1>2, <2>1 DEF InitFlowDetail
    <2>3. Alters(u, w, {"flowDetail"}) /\ ModelOK(w) /\ w.cmds = u.cmds
      BY <1>1, <2>1
    <2> QED
      BY <2>2, <2>3 DEF Alters, Grows
  <1>3. CASE ~(IsLoaded(u.flowList) /\ i \in DOMAIN u.flowList.data)
    <2>1. PICK w : w = [u EXCEPT !.flowDetail = NoFlow]
      OBVIOUS
    <2>2. PICK c \in UiCommands : c = Fetch("flow", i, 0)
      BY FetchTyped
    <2>3. PICK v : v = Emit(w, <<c>>)
      OBVIOUS
    <2>4. InitFlowDetail(u, i) = v
      BY <1>3, <2>1, <2>2, <2>3 DEF InitFlowDetail
    <2>5. Alters(u, w, {"flowDetail"}) /\ ModelOK(w) /\ w.cmds = u.cmds
      BY <1>1, <2>1 DEF NoFlow, IdsN
    <2>6. <<c>> \in Seq(UiCommands)
      OBVIOUS
    <2>7. Alters(w, v, {"cmds"}) /\ ModelOK(v) /\ Grows(w, v)
      BY <2>3, <2>5, <2>6, EmitOK
    <2> QED
      BY <2>4, <2>5, <2>7 DEF Alters, Grows, Fields
  <1> QED
    BY <1>2, <1>3

\* The fields that init_page may change.
InitFields == {"handlers", "ticketList", "detail", "activities", "flowList", "flowDetail", "workerList", "cmds"}

\* A list that is fetched for the page.
LEMMA ListFetched ==
    ASSUME NEW u, ModelOK(u), NEW f \in {"ticketList", "flowList", "workerList"}, NEW w, w = [u EXCEPT ![f] = Loading],
           NEW c \in UiCommands, NEW v, v = Emit(w, <<c>>)
    PROVE  Alters(u, v, {f, "cmds"}) /\ ModelOK(v) /\ Grows(u, v) /\ v[f] = Loading /\ Sends(v, c.what, c.id)
  <1>1. Alters(u, w, {f}) /\ w[f] = Loading /\ w.cmds = u.cmds
    BY DEF ModelOK, NavTyped, IsModel, Fields, Alters
  <1>2. ModelOK(w)
    <2>1. NavTyped(w)
      BY <1>1, NavSame DEF ModelOK
    <2>2. DataTyped(w)
      BY <1>1, LoadTyped DEF ModelOK, DataTyped, Alters, Fields
    <2> QED
      BY <1>1, <2>1, <2>2 DEF ModelOK
  <1>3. <<c>> \in Seq(UiCommands) /\ 1 \in DOMAIN <<c>> /\ <<c>>[1] = c
    OBVIOUS
  <1>4. Alters(w, v, {"cmds"}) /\ ModelOK(v) /\ Grows(w, v) /\ Sends(v, c.what, c.id)
    BY <1>2, <1>3, EmitOK
  <1> QED
    BY <1>1, <1>4 DEF Alters, Grows, Fields
\* What init_page asks for: the fetch of each kind of page.
Wants(v, page) ==
    /\ page.kind = "TicketList" => v.ticketList = Loading /\ Sends(v, "tickets", NoId)
    /\ page.kind = "FlowList" => v.flowList = Loading /\ Sends(v, "flows", NoId)
    /\ page.kind = "WorkerList" => v.workerList = Loading /\ Sends(v, "workers", NoId)
    /\ page.kind = "TicketDetail" => v.detail.id = page.id /\ v.detail.data = Loading /\ Sends(v, "detail", page.id)
    /\ page.kind = "TicketActivities" =>
           v.activities.id = page.id /\ v.activities.data = Loading /\ Sends(v, "activities", page.id)

LEMMA CurrentTyped ==
    ASSUME NEW u, NavTyped(u)
    PROVE  /\ CurrentPage(u) \in Pages /\ CurrentPage(u) = u.stacks[u.tab][Len(u.stacks[u.tab])]
           /\ Len(u.stacks[u.tab]) >= 1
  BY DEF NavTyped, CurrentPage, Last

LEMMA InitPageOnly ==
    ASSUME NEW u, ModelOK(u)
    PROVE  LET v == InitPage(u) IN
           /\ Alters(u, v, InitFields) /\ ModelOK(v) /\ Grows(u, v) /\ Wants(v, CurrentPage(u))
           /\ v.handlers = u.handlers \o PageHandlers(CurrentPage(u))
           /\ CurrentPage(u).kind = "TicketActivities" \/ v.activities = u.activities
  <1>1. PICK page \in Pages : page = CurrentPage(u)
    BY CurrentTyped DEF ModelOK
  <1>2. PICK h \in Seq(Handlers) : h = PageHandlers(page)
    BY PagesTyped
  <1>3. PICK w : w = [u EXCEPT !.handlers = @ \o h]
    OBVIOUS
  <1>4. Alters(u, w, {"handlers"}) /\ w.cmds = u.cmds /\ w.handlers = u.handlers \o h
    BY <1>3 DEF ModelOK, NavTyped, IsModel, Fields, Alters
  <1>5. ModelOK(w)
    <2>1. NavTyped(w)
      <3>1. IsModel(w) /\ w["tab"] = u["tab"] /\ w["stacks"] = u["stacks"] /\ w["overlay"] = u["overlay"]
        BY <1>4 DEF Alters, Fields
      <3>2. u.handlers \o h \in Seq(Handlers)
        BY DEF ModelOK, NavTyped
      <3> QED
        BY <1>4, <3>1, <3>2 DEF ModelOK, NavTyped
    <2>2. DataTyped(w)
      BY <1>4 DEF ModelOK, DataTyped, Alters, Fields
    <2> QED
      BY <1>4, <2>1, <2>2 DEF ModelOK
  <1>6. page.kind \in Kind /\ page.id \in IdsN
    BY PagesTyped
  <1>7. SUFFICES ASSUME NEW v, v = InitPage(u)
                 PROVE  /\ Alters(w, v, InitFields \ {"handlers"}) /\ ModelOK(v) /\ Grows(w, v) /\ Wants(v, page)
                        /\ page.kind = "TicketActivities" \/ v.activities = w.activities
    <2>1. PICK v : v = InitPage(u)
      OBVIOUS
    <2>2. /\ Alters(w, v, InitFields \ {"handlers"}) /\ ModelOK(v) /\ Grows(w, v) /\ Wants(v, page)
          /\ page.kind = "TicketActivities" \/ v.activities = w.activities
      BY <1>7, <2>1
    <2>3. Alters(u, v, InitFields) /\ v["handlers"] = w["handlers"]
      BY <1>4, <2>2 DEF Alters, Fields, InitFields
    <2>4. Grows(u, v) /\ v.handlers = u.handlers \o h /\ w.activities = u.activities
      BY <1>4, <2>2, <2>3 DEF Grows, Alters, Fields
    <2> QED
      BY <1>1, <1>2, <1>4, <2>1, <2>2, <2>3, <2>4
  <1>8. CASE page.kind = "TicketList"
    <2>1. v = Emit([w EXCEPT !["ticketList"] = Loading], <<FetchTickets>>)
      BY <1>1, <1>2, <1>3, <1>7, <1>8 DEF InitPage
    <2>2. /\ Alters(w, v, {"ticketList", "cmds"}) /\ ModelOK(v) /\ Grows(w, v) /\ v["ticketList"] = Loading
          /\ Sends(v, "tickets", NoId)
      BY <1>5, <2>1, ListFetched, FetchTyped
    <2> QED
      BY <1>8, <2>2 DEF Alters, InitFields, Wants, Fields
  <1>9. CASE page.kind = "FlowList"
    <2>1. v = Emit([w EXCEPT !["flowList"] = Loading], <<Fetch("flows", NoId, 0)>>)
      BY <1>1, <1>2, <1>3, <1>7, <1>9 DEF InitPage
    <2>2. PICK c \in UiCommands : c = Fetch("flows", NoId, 0) /\ c.what = "flows" /\ c.id = NoId
      BY FetchTyped
    <2>3. /\ Alters(w, v, {"flowList", "cmds"}) /\ ModelOK(v) /\ Grows(w, v) /\ v["flowList"] = Loading
          /\ Sends(v, "flows", NoId)
      BY <1>5, <2>1, <2>2, ListFetched
    <2> QED
      BY <1>9, <2>3 DEF Alters, InitFields, Wants, Fields
  <1>10. CASE page.kind = "WorkerList"
    <2>1. v = Emit([w EXCEPT !["workerList"] = Loading], <<FetchWorkers>>)
      BY <1>1, <1>2, <1>3, <1>7, <1>10 DEF InitPage
    <2>2. /\ Alters(w, v, {"workerList", "cmds"}) /\ ModelOK(v) /\ Grows(w, v) /\ v["workerList"] = Loading
          /\ Sends(v, "workers", NoId)
      BY <1>5, <2>1, ListFetched, FetchTyped
    <2> QED
      BY <1>10, <2>2 DEF Alters, InitFields, Wants, Fields
  <1>11. CASE page.kind = "TicketDetail"
    <2>1. v = StartDetail(w, page.id)
      BY <1>1, <1>2, <1>3, <1>7, <1>11 DEF InitPage
    <2>2. /\ Alters(w, v, {"detail", "cmds"}) /\ ModelOK(v) /\ Grows(w, v) /\ Sends(v, "detail", page.id)
          /\ v.detail.id = page.id /\ v.detail.data = Loading
      BY <1>5, <1>6, <2>1, StartDetailOnly
    <2> QED
      BY <1>11, <2>2 DEF Alters, InitFields, Wants, Fields
  <1>12. CASE page.kind = "TicketActivities"
    <2>1. v = StartActivities(w, page.id)
      BY <1>1, <1>2, <1>3, <1>7, <1>12 DEF InitPage
    <2>2. /\ Alters(w, v, {"activities", "cmds"}) /\ ModelOK(v) /\ Grows(w, v) /\ Sends(v, "activities", page.id)
          /\ v.activities.id = page.id /\ v.activities.data = Loading
      BY <1>5, <1>6, <2>1, StartActivitiesOnly
    <2> QED
      BY <1>12, <2>2 DEF Alters, InitFields, Wants, Fields
  <1>13. CASE page.kind = "FlowDetail"
    <2>1. v = InitFlowDetail(w, page.id)
      BY <1>1, <1>2, <1>3, <1>7, <1>13 DEF InitPage
    <2>2. Alters(w, v, {"flowDetail", "cmds"}) /\ ModelOK(v) /\ Grows(w, v)
      BY <1>5, <1>6, <2>1, InitFlowDetailOnly
    <2> QED
      BY <1>13, <2>2 DEF Alters, InitFields, Wants, Fields
  <1>14. CASE page.kind \in {"TicketBody", "HelpPage"}
    <2>1. v = w
      BY <1>1, <1>2, <1>3, <1>7, <1>14 DEF InitPage
    <2> QED
      BY <1>4, <1>5, <1>14, <2>1 DEF Alters, Wants, Grows
  <1> QED
    BY <1>6, <1>8, <1>9, <1>10, <1>11, <1>12, <1>13, <1>14 DEF Kind
-----------------------------------------------------------------------------
(* Navigation: a handler for every page that has one. *)

\* The pages that give back a handler when they are torn down.
Handled(pages) == Cardinality({k \in DOMAIN pages : PageHandlers(pages[k]) # <<>>})

LEMMA HandledAppend ==
    ASSUME NEW s \in Seq(Pages), NEW page \in Pages
    PROVE  /\ Handled(s) \in Nat /\ Handled(Append(s, page)) = Handled(s) + Len(PageHandlers(page))
  <1>1. PICK h \in Seq(Handlers) : h = PageHandlers(page) /\ Len(h) \in {0, 1}
    BY PagesTyped
  <1>2. PICK S : S = {k \in DOMAIN s : PageHandlers(s[k]) # <<>>}
    OBVIOUS
  <1>3. PICK T : T = {k \in DOMAIN Append(s, page) : PageHandlers(Append(s, page)[k]) # <<>>}
    OBVIOUS
  <1>4. IsFiniteSet(DOMAIN s)
    <2>1. DOMAIN s = 1..Len(s) /\ Len(s) \in Int /\ 1 \in Int
      OBVIOUS
    <2> QED
      BY <2>1, FS_Interval
  <1>5. IsFiniteSet(S) /\ Cardinality(S) \in Nat
    <2>1. S \subseteq DOMAIN s
      BY <1>2
    <2> QED
      BY <1>4, <2>1, FS_Subset, FS_CardinalityType
  <1>6. /\ DOMAIN Append(s, page) = DOMAIN s \cup {Len(s) + 1} /\ Len(s) + 1 \notin DOMAIN s
        /\ \A k \in DOMAIN s : Append(s, page)[k] = s[k]
        /\ Append(s, page)[Len(s) + 1] = page
    OBVIOUS
  <1>7. Handled(s) = Cardinality(S) /\ Handled(Append(s, page)) = Cardinality(T)
    BY <1>2, <1>3 DEF Handled
  <1>8. h = <<>> <=> Len(h) = 0
    OBVIOUS
  <1>9. CASE h = <<>>
    <2>1. T = S
      BY <1>1, <1>2, <1>3, <1>6, <1>9, Zenon
    <2> QED
      BY <1>1, <1>5, <1>7, <1>8, <1>9, <2>1
  <1>10. CASE h # <<>>
    <2>1. T = S \cup {Len(s) + 1} /\ Len(s) + 1 \notin S
      BY <1>1, <1>2, <1>3, <1>6, <1>10, Zenon
    <2>2. Cardinality(T) = Cardinality(S) + 1
      BY <1>5, <2>1, FS_AddElement
    <2> QED
      BY <1>1, <1>5, <1>7, <1>8, <1>10, <2>2
  <1> QED
    BY <1>9, <1>10

LEMMA HandledEmpty == Handled(<<>>) = 0
  <1>1. {k \in DOMAIN <<>> : PageHandlers(<<>>[k]) # <<>>} = {}
    OBVIOUS
  <1>2. Cardinality({}) = 0
    BY FS_EmptySet
  <1>3. PICK S : S = {k \in DOMAIN <<>> : PageHandlers(<<>>[k]) # <<>>}
    OBVIOUS
  <1>4. Cardinality(S) = 0
    BY <1>1, <1>2, <1>3
  <1> QED
    BY <1>3, <1>4 DEF Handled

LEMMA HandledOne ==
    ASSUME NEW page \in Pages
    PROVE  Handled(<<page>>) = Len(PageHandlers(page))
  <1>1. <<>> \in Seq(Pages) /\ Append(<<>>, page) = <<page>>
    OBVIOUS
  <1>2. Handled(Append(<<>>, page)) = Handled(<<>>) + Len(PageHandlers(page))
    BY <1>1, HandledAppend
  <1>3. Len(PageHandlers(page)) \in Nat
    BY PagesTyped
  <1> QED
    BY <1>1, <1>2, <1>3, HandledEmpty

LEMMA HandledFront ==
    ASSUME NEW s \in Seq(Pages), s # <<>>
    PROVE  /\ Front(s) \in Seq(Pages) /\ Len(Front(s)) = Len(s) - 1
           /\ \A k \in 1..(Len(s) - 1) : Front(s)[k] = s[k]
           /\ Handled(s) = Handled(Front(s)) + Len(PageHandlers(s[Len(s)]))
  <1>1. PICK f : f = Front(s)
    OBVIOUS
  <1>2. f \in Seq(Pages) /\ Len(f) = Len(s) - 1 /\ \A k \in 1..(Len(s) - 1) : f[k] = s[k]
    <2>1. PICK n \in Nat : n = Len(s) - 1 /\ n <= Len(s)
      OBVIOUS
    <2>2. f = SubSeq(s, 1, n)
      BY <1>1, <2>1 DEF Front
    <2>3. f \in Seq(Pages)
      BY <2>1, <2>2
    <2>4. Len(f) = n /\ \A k \in 1..n : f[k] = s[k]
      BY <2>1, <2>2
    <2> QED
      BY <2>1, <2>3, <2>4
  <1>3. s = Append(f, s[Len(s)]) /\ s[Len(s)] \in Pages
    BY <1>2
  <1>4. Handled(Append(f, s[Len(s)])) = Handled(f) + Len(PageHandlers(s[Len(s)]))
    BY <1>2, <1>3, HandledAppend
  <1> QED
    BY <1>1, <1>2, <1>3, <1>4

\* The pages above the root of a tab; the help has none.
Inner == {"TicketDetail", "TicketActivities", "TicketBody", "FlowDetail"}
StacksOK(u) ==
    /\ \A t \in Tabs : u.stacks[t][1] = RootPage[t] /\ \A k \in 2..Len(u.stacks[t]) : u.stacks[t][k].kind \in Inner
    /\ Len(u.stacks["Help"]) = 1

\* The handlers that the pages of a tab give back: those of the help are put on
\* the stack when it is shown.
Owes(u, t) == IF t = "Help" /\ u.tab # "Help" THEN 0 ELSE Handled(u.stacks[t])
Owed(u) == Owes(u, "Tickets") + Owes(u, "Flows") + Owes(u, "Workers") + Owes(u, "Help")

\* There are as many besides the global one, with n that are still to come.
HandlersOK(u, n) == Len(u.handlers) >= 1 /\ u.handlers[1] = "global" /\ Len(u.handlers) + n > Owed(u)

OnTop(u) ==
    \/ PageHandlers(CurrentPage(u)) = <<>>
    \/ PageHandlers(CurrentPage(u))[1] = u.handlers[Len(u.handlers)]
NavOK(u) == StacksOK(u) /\ HandlersOK(u, 0) /\ OnTop(u)

LEMMA OwedTyped ==
    ASSUME NEW u, NavTyped(u)
    PROVE  /\ \A t \in Tabs : Owes(u, t) \in Nat /\ Owes(u, t) <= Owed(u)
           /\ Owed(u) \in Nat
  <1>1. \A t \in Tabs : Owes(u, t) \in Nat
    <2>1. \A t \in Tabs : u.stacks[t] \in Seq(Pages)
      BY DEF NavTyped
    <2>2. \A s \in Seq(Pages) : Handled(s) \in Nat
      <3>1. PICK page \in Pages : TRUE
        BY PagesTyped, TabsTyped
      <3> QED
        BY HandledAppend, <3>1
    <2> QED
      BY <2>1, <2>2 DEF Owes
  <1> QED
    BY <1>1, TabsTyped DEF Owed

\* If the other tabs owe no more than they did.
LEMMA OwedMoves ==
    ASSUME NEW u, NavTyped(u), NEW v, NavTyped(v), NEW t \in Tabs, \A s \in Tabs : s # t => Owes(v, s) <= Owes(u, s)
    PROVE  Owed(v) + Owes(u, t) <= Owed(u) + Owes(v, t)
  <1>1. \A s \in Tabs : Owes(u, s) \in Nat /\ Owes(v, s) \in Nat
    BY OwedTyped
  <1>2. /\ "Tickets" # t => Owes(v, "Tickets") <= Owes(u, "Tickets")
        /\ "Flows" # t => Owes(v, "Flows") <= Owes(u, "Flows")
        /\ "Workers" # t => Owes(v, "Workers") <= Owes(u, "Workers")
        /\ "Help" # t => Owes(v, "Help") <= Owes(u, "Help")
    BY TabsTyped
  <1> QED
    BY <1>1, <1>2, TabsTyped DEF Owed

LEMMA InitNav ==
    ASSUME NEW u, ModelOK(u), StacksOK(u), HandlersOK(u, Len(PageHandlers(CurrentPage(u))))
    PROVE  NavOK(InitPage(u))
  <1>1. PICK v : v = InitPage(u)
    OBVIOUS
  <1>2. PICK h \in Seq(Handlers) : h = PageHandlers(CurrentPage(u)) /\ Len(h) \in {0, 1}
    BY CurrentTyped, PagesTyped DEF ModelOK
  <1>3. Alters(u, v, InitFields) /\ v.handlers = u.handlers \o h
    BY <1>1, <1>2, InitPageOnly
  <1>4. v.tab = u.tab /\ v.stacks = u.stacks
    BY <1>3 DEF Alters, InitFields, Fields
  <1>5. CurrentPage(v) = CurrentPage(u) /\ Owed(v) = Owed(u) /\ StacksOK(v)
    BY <1>4 DEF CurrentPage, Owed, Owes, StacksOK
  <1>6. u.handlers \in Seq(Handlers) /\ Owed(u) \in Nat
    BY OwedTyped DEF ModelOK, NavTyped
  <1>7. /\ Len(v.handlers) = Len(u.handlers) + Len(h) /\ v.handlers[1] = u.handlers[1]
        /\ h # <<>> => h[1] = v.handlers[Len(v.handlers)]
    BY <1>2, <1>3, <1>6 DEF HandlersOK
  <1>8. HandlersOK(v, 0)
    BY <1>2, <1>5, <1>6, <1>7 DEF HandlersOK
  <1>9. OnTop(v)
    BY <1>2, <1>5, <1>7 DEF OnTop
  <1> QED
    BY <1>1, <1>5, <1>8, <1>9 DEF NavOK

TeardownFields == {"handlers", "activities", "flowDetail"}

LEMMA TeardownOnly ==
    ASSUME NEW u, ModelOK(u), NEW pages, Handled(pages) \in Nat, Len(u.handlers) > Handled(pages)
    PROVE  LET v == Teardown(u, pages) IN
           /\ Alters(u, v, TeardownFields) /\ ModelOK(v) /\ v.cmds = u.cmds
           /\ Len(v.handlers) = Len(u.handlers) - Handled(pages) /\ v.handlers[1] = u.handlers[1]
           /\ v.activities \in {u.activities, NoActivities}
  <1>1. PICK w : w = Leave(u, pages)
    OBVIOUS
  <1>2. /\ Alters(u, w, {"activities", "flowDetail"}) /\ w.activities \in {u.activities, NoActivities}
        /\ w.flowDetail \in {u.flowDetail, NoFlow}
    BY <1>1 DEF Leave, ModelOK, NavTyped, IsModel, Alters, Fields
  <1>3. PICK n \in Nat : n = Handled(pages)
    OBVIOUS
  <1>4. w.handlers = u.handlers /\ u.handlers \in Seq(Handlers) /\ Len(u.handlers) > n /\ w.cmds = u.cmds /\ IsModel(w)
    BY <1>2, <1>3 DEF Alters, Fields, ModelOK, NavTyped
  <1>5. PICK v : v = PopHandlers(w, n)
    OBVIOUS
  <1>6. Alters(w, v, {"handlers"}) /\ v.handlers = SubSeq(w.handlers, 1, Len(w.handlers) - n)
    BY <1>4, <1>5 DEF PopHandlers, IsModel, Fields, Alters
  <1>7. v.handlers \in Seq(Handlers) /\ Len(v.handlers) = Len(u.handlers) - n /\ v.handlers[1] = u.handlers[1]
    BY <1>4, <1>6
  <1>8. Alters(u, v, TeardownFields) /\ v.activities = w.activities /\ v.cmds = u.cmds /\ v.flowDetail = w.flowDetail
    BY <1>2, <1>4, <1>6 DEF Alters, Fields, TeardownFields
  <1>9. NoActivities \in [id : IdsN, data : Load(ActivityData), authors : BOOLEAN, author : {0, 1}]
    BY LoadTyped DEF NoActivities, IdsN
  <1>12. NoFlow.id \in IdsN
    BY DEF NoFlow, IdsN
  <1>10. ModelOK(v)
    <2>1. NavTyped(v)
      BY <1>7, <1>8 DEF ModelOK, NavTyped, Alters, Fields, TeardownFields
    <2>2. DataTyped(v)
      BY <1>2, <1>8, <1>9, <1>12 DEF ModelOK, DataTyped, Alters, Fields, TeardownFields
    <2> QED
      BY <1>8, <2>1, <2>2 DEF ModelOK
  <1>11. Teardown(u, pages) = v
    BY <1>1, <1>3, <1>5 DEF Teardown, Handled
  <1> QED
    BY <1>2, <1>3, <1>7, <1>8, <1>10, <1>11
\* What changes of pages may touch.
NavFields == InitFields \cup TeardownFields \cup {"tab", "stacks"}

\* After a change of pages the model is in order, with other pages on the screen.
Moved(u, v) ==
    ModelOK(v) /\ NavOK(v) /\ Alters(u, v, NavFields) /\ Grows(u, v) /\ Wants(v, CurrentPage(v))

\* init_page of the page that is current in w.
LEMMA MovedInit ==
    ASSUME NEW u, NEW w, ModelOK(w), StacksOK(w), HandlersOK(w, Len(PageHandlers(CurrentPage(w)))),
           Alters(u, w, NavFields), Grows(u, w), w.activities \in {u.activities, NoActivities}
    PROVE  Moved(u, InitPage(w)) /\ InitPage(w).tab = w.tab /\ InitPage(w).stacks = w.stacks
  <1>1. PICK v : v = InitPage(w)
    OBVIOUS
  <1>2. Alters(w, v, InitFields) /\ ModelOK(v) /\ Grows(w, v) /\ Wants(v, CurrentPage(w))
    BY <1>1, InitPageOnly
  <1>3. NavOK(v)
    BY <1>1, InitNav
  <1>4. v.tab = w.tab /\ v.stacks = w.stacks
    BY <1>2 DEF Alters, InitFields, Fields
  <1>5. CurrentPage(v) = CurrentPage(w)
    BY <1>4 DEF CurrentPage
  <1>6. Alters(u, v, NavFields) /\ Grows(u, v)
    BY <1>2 DEF Alters, NavFields, Grows
  <1> QED
    BY <1>1, <1>2, <1>3, <1>4, <1>5, <1>6 DEF Moved

LEMMA MovedPush ==
    ASSUME NEW u, ModelOK(u), NavOK(u), u.tab # "Help", NEW page \in Pages, page.kind \in Inner
    PROVE  Moved(u, Push(u, page)) /\ Push(u, page).tab = u.tab
  <1>1. PICK w : w = [u EXCEPT !.stacks[u.tab] = Append(@, page)]
    OBVIOUS
  <1>2. PICK t \in Tabs : t = u.tab
    BY DEF ModelOK, NavTyped
  <1>3. PICK s \in Seq(Pages) \ {<<>>} : s = u.stacks[t]
    BY DEF ModelOK, NavTyped
  <1>4. Alters(u, w, {"stacks"}) /\ w.stacks = [u.stacks EXCEPT ![t] = Append(s, page)]
    BY <1>1, <1>2, <1>3 DEF ModelOK, NavTyped, IsModel, Fields, Alters
  <1>5. /\ w.tab = u.tab /\ w.handlers = u.handlers /\ w.cmds = u.cmds
        /\ \A x \in Tabs : w.stacks[x] = IF x = t THEN Append(s, page) ELSE u.stacks[x]
    BY <1>4 DEF Alters, Fields, ModelOK, NavTyped
  <1>6. Append(s, page) \in Seq(Pages) /\ Append(s, page) # <<>> /\ Append(s, page)[1] = s[1] /\ Last(Append(s, page)) = page
    BY DEF Last
  <1>7. ModelOK(w)
    <2>1. w.stacks \in [Tabs -> Seq(Pages) \ {<<>>}]
      BY <1>4, <1>6 DEF ModelOK, NavTyped
    <2>2. NavTyped(w)
      BY <1>4, <2>1 DEF ModelOK, NavTyped, Alters, Fields
    <2>3. DataTyped(w)
      BY <1>4 DEF ModelOK, DataTyped, Alters, Fields
    <2> QED
      BY <1>5, <2>2, <2>3 DEF ModelOK
  <1>8. CurrentPage(w) = page
    BY <1>2, <1>5, <1>6 DEF CurrentPage
  <1>9. StacksOK(w)
    <2>1. \A k \in 2..Len(Append(s, page)) : Append(s, page)[k].kind \in Inner
      <3>1. \A k \in 2..Len(s) : s[k].kind \in Inner
        BY <1>3 DEF StacksOK, NavOK
      <3>2. \A k \in 2..Len(Append(s, page)) : (k \in 2..Len(s) /\ Append(s, page)[k] = s[k]) \/ Append(s, page)[k] = page
        OBVIOUS
      <3> QED
        BY <3>1, <3>2, Zenon
    <2>2. \A x \in Tabs : w.stacks[x][1] = RootPage[x]
      BY <1>3, <1>5, <1>6 DEF StacksOK, NavOK
    <2>3. \A x \in Tabs : \A k \in 2..Len(w.stacks[x]) : w.stacks[x][k].kind \in Inner
      BY <1>5, <2>1 DEF StacksOK, NavOK
    <2>4. Len(w.stacks["Help"]) = 1
      BY <1>2, <1>5, TabsTyped DEF StacksOK, NavOK
    <2> QED
      BY <2>2, <2>3, <2>4 DEF StacksOK
  <1>10. Owes(w, t) = Owes(u, t) + Len(PageHandlers(page))
    <2>1. Owes(u, t) = Handled(s) /\ Owes(w, t) = Handled(Append(s, page))
      BY <1>2, <1>3, <1>5 DEF Owes
    <2> QED
      BY <2>1, HandledAppend
  <1>11. \A x \in Tabs : Owes(u, x) \in Nat /\ (x # t => Owes(w, x) <= Owes(u, x))
    <2>1. \A x \in Tabs : x # t => Owes(w, x) = Owes(u, x)
      BY <1>5 DEF Owes
    <2> QED
      BY <2>1, OwedTyped DEF ModelOK
  <1>12. Owed(w) <= Owed(u) + Len(PageHandlers(page))
    <2>1. Owed(w) + Owes(u, t) <= Owed(u) + Owes(w, t)
      BY <1>7, <1>11, OwedMoves DEF ModelOK
    <2>2. Owed(w) \in Nat /\ Owed(u) \in Nat /\ Owes(u, t) \in Nat /\ Len(PageHandlers(page)) \in Nat
      BY <1>7, OwedTyped, PagesTyped DEF ModelOK
    <2> QED
      BY <1>10, <2>1, <2>2
  <1>13. HandlersOK(w, Len(PageHandlers(CurrentPage(w))))
    <2>1. Owed(w) \in Nat /\ Owed(u) \in Nat /\ Len(PageHandlers(page)) \in Nat
      BY <1>7, OwedTyped, PagesTyped DEF ModelOK
    <2>2. Len(u.handlers) \in Nat
      BY DEF ModelOK, NavTyped
    <2> QED
      BY <1>5, <1>8, <1>12, <2>1, <2>2 DEF HandlersOK, NavOK
  <1>14. Alters(u, w, NavFields) /\ Grows(u, w) /\ w.activities = u.activities
    BY <1>4, <1>5 DEF Alters, NavFields, Grows, Fields
  <1>15. Push(u, page) = InitPage(w)
    BY <1>1 DEF Push
  <1> QED
    BY <1>5, <1>7, <1>9, <1>13, <1>14, <1>15, MovedInit

\* The tab on the screen keeps the pages s of q, and some of them are torn down.
Returns(q, s, pages) ==
    /\ s \in Seq(Pages) \ {<<>>} /\ Len(s) <= Len(q) /\ \A k \in 1..Len(s) : s[k] = q[k]
    /\ Handled(pages) \in Nat /\ Handled(pages) <= Handled(q)
    /\ Handled(s) + Handled(pages) <= Handled(q) + Len(PageHandlers(s[Len(s)]))

Cut(u, x, s) == x = [u EXCEPT !.stacks[u.tab] = s]

LEMMA MovedBack ==
    ASSUME NEW u, ModelOK(u), NavOK(u), NEW s, NEW pages, Returns(u.stacks[u.tab], s, pages),
           NEW x, Cut(u, x, s)
    PROVE  Moved(u, InitPage(Teardown(x, pages))) /\ InitPage(Teardown(x, pages)).tab = u.tab
  <1>1. PICK w : w = Teardown(x, pages)
    OBVIOUS
  <1>2. PICK t \in Tabs : t = u.tab
    BY DEF ModelOK, NavTyped
  <1>21. PICK q \in Seq(Pages) \ {<<>>} : q = u.stacks[t]
    BY DEF ModelOK, NavTyped
  <1>22. /\ s \in Seq(Pages) \ {<<>>} /\ Len(s) <= Len(q) /\ (\A k \in 1..Len(s) : s[k] = q[k])
         /\ Handled(pages) \in Nat /\ Handled(pages) <= Handled(q)
         /\ Handled(s) + Handled(pages) <= Handled(q) + Len(PageHandlers(s[Len(s)]))
    BY <1>2, <1>21 DEF Returns
  <1>3. Alters(u, x, {"stacks"}) /\ x.stacks = [u.stacks EXCEPT ![t] = s]
    BY <1>2 DEF ModelOK, NavTyped, IsModel, Fields, Alters, Cut
  <1>4. /\ x.tab = u.tab /\ x.handlers = u.handlers /\ x.cmds = u.cmds
        /\ \A y \in Tabs : x.stacks[y] = IF y = t THEN s ELSE u.stacks[y]
    BY <1>3 DEF Alters, Fields, ModelOK, NavTyped
  <1>5. ModelOK(x)
    <2>1. x.stacks \in [Tabs -> Seq(Pages) \ {<<>>}]
      BY <1>3, <1>22 DEF ModelOK, NavTyped
    <2>2. NavTyped(x)
      BY <1>3, <2>1 DEF ModelOK, NavTyped, Alters, Fields
    <2>3. DataTyped(x)
      BY <1>3 DEF ModelOK, DataTyped, Alters, Fields
    <2> QED
      BY <1>4, <2>2, <2>3 DEF ModelOK
  <1>6. PICK n \in Nat : n = Handled(pages)
    BY <1>22
  <1>7. PICK m \in Nat : m = Len(u.handlers)
    <2>1. u.handlers \in Seq(Handlers)
      BY DEF ModelOK, NavTyped
    <2> QED
      BY <2>1
  <1>8. \A y \in Tabs : Owes(u, y) \in Nat /\ Owes(u, y) <= Owed(u)
    BY OwedTyped DEF ModelOK
  <1>9. Owed(u) \in Nat /\ m > Owed(u) /\ u.handlers[1] = "global"
    BY <1>7, OwedTyped DEF ModelOK, HandlersOK, NavOK
  <1>10. Owes(u, t) = Handled(u.stacks[t]) /\ Owes(x, t) = Handled(s)
    BY <1>2, <1>4 DEF Owes
  <1>11. m > n
    BY <1>6, <1>8, <1>9, <1>10, <1>21, <1>22
  <1>12. Alters(x, w, TeardownFields) /\ ModelOK(w) /\ w.cmds = x.cmds /\ w.activities \in {x.activities, NoActivities} /\ Len(w.handlers) = m - n /\ w.handlers[1] = u.handlers[1]
    <2>1. Handled(pages) \in Nat /\ Len(x.handlers) > Handled(pages)
      BY <1>22, <1>4, <1>6, <1>7, <1>11
    <2>2. /\ Alters(x, w, TeardownFields) /\ ModelOK(w) /\ w.cmds = x.cmds /\ w.activities \in {x.activities, NoActivities}
          /\ Len(w.handlers) = Len(x.handlers) - Handled(pages) /\ w.handlers[1] = x.handlers[1]
      BY <1>1, <1>5, <2>1, TeardownOnly
    <2> QED
      BY <1>4, <1>6, <1>7, <2>2
  <1>13. w.tab = u.tab /\ w.stacks = x.stacks
    BY <1>4, <1>12 DEF Alters, TeardownFields, Fields
  <1>14. \A y \in Tabs : Owes(w, y) = IF y = t THEN Handled(s) ELSE Owes(u, y)
    BY <1>2, <1>4, <1>10, <1>13 DEF Owes
  <1>15. Owed(w) + Owes(u, t) <= Owed(u) + Owes(w, t)
    <2>1. NavTyped(u) /\ NavTyped(w)
      BY <1>12 DEF ModelOK
    <2>2. \A y \in Tabs : y # t => Owes(w, y) <= Owes(u, y)
      BY <1>8, <1>14
    <2> QED
      BY <2>1, <2>2, OwedMoves
  <1>16. CurrentPage(w) = s[Len(s)] /\ s[Len(s)] \in Pages
    BY <1>2, <1>4, <1>13, <1>22 DEF CurrentPage, Last
  <1>17. PICK h \in Nat : h = Len(PageHandlers(CurrentPage(w)))
    BY <1>16, PagesTyped
  <1>18. HandlersOK(w, h)
    <2>1. Owed(w) \in Nat /\ Owes(w, t) \in Nat
      BY <1>12, OwedTyped DEF ModelOK
    <2>2. Owes(w, t) + n <= Owes(u, t) + h
      BY <1>6, <1>10, <1>14, <1>16, <1>17, <1>21, <1>22
    <2>3. m - n >= 1 /\ (m - n) + h > Owed(w)
      BY <1>8, <1>9, <1>11, <1>15, <2>1, <2>2
    <2> QED
      BY <1>9, <1>12, <2>3 DEF HandlersOK
  <1>19. StacksOK(w)
    <2>1. \A y \in Tabs : w.stacks[y][1] = RootPage[y]
      <3>1. s[1] = q[1]
        BY <1>22
      <3> QED
        BY <1>4, <1>13, <1>21, <3>1 DEF StacksOK, NavOK
    <2>3. \A y \in Tabs : \A k \in 2..Len(w.stacks[y]) : w.stacks[y][k].kind \in Inner
      <3>1. \A k \in 2..Len(q) : q[k].kind \in Inner
        BY <1>21 DEF StacksOK, NavOK
      <3>2. \A k \in 2..Len(s) : k \in 2..Len(q) /\ s[k] = q[k]
        BY <1>21, <1>22
      <3>3. \A k \in 2..Len(s) : s[k].kind \in Inner
        BY <3>1, <3>2, Zenon
      <3> QED
        BY <1>4, <1>13, <3>3 DEF StacksOK, NavOK
    <2>2. Len(w.stacks["Help"]) = 1
      <3>1. CASE t = "Help"
        <4>1. w.stacks["Help"] = s /\ Len(q) = 1
          BY <1>4, <1>13, <1>21, <3>1 DEF StacksOK, NavOK
        <4>2. PICK i \in Nat : i = Len(s) /\ i >= 1
          BY <1>22
        <4>3. i <= 1
          BY <1>22, <4>1, <4>2
        <4>4. i = 1
          BY <4>2, <4>3
        <4> QED
          BY <4>1, <4>2, <4>4, Zenon
      <3>2. CASE t # "Help"
        BY <1>4, <1>13, <3>2, TabsTyped DEF StacksOK, NavOK
      <3> QED
        BY <3>1, <3>2
    <2> QED
      BY <2>1, <2>2, <2>3 DEF StacksOK
  <1>20. Alters(u, w, NavFields) /\ Grows(u, w) /\ w.activities \in {u.activities, NoActivities}
    BY <1>3, <1>4, <1>12 DEF Alters, NavFields, Grows, Fields
  <1> QED
    BY <1>1, <1>12, <1>13, <1>17, <1>18, <1>19, <1>20, MovedInit

LEMMA MovedPop ==
    ASSUME NEW u, ModelOK(u), NavOK(u), Len(u.stacks[u.tab]) > 1
    PROVE  Moved(u, Pop(u)) /\ Pop(u).tab = u.tab
  <1>1. PICK q \in Seq(Pages) \ {<<>>} : q = u.stacks[u.tab]
    BY DEF ModelOK, NavTyped
  <1>2. PICK s : s = Front(q)
    OBVIOUS
  <1>3. PICK page \in Pages : page = q[Len(q)] /\ CurrentPage(u) = page
    BY <1>1 DEF CurrentPage, Last
  <1>4. /\ s \in Seq(Pages) /\ Len(s) = Len(q) - 1 /\ \A k \in 1..(Len(q) - 1) : s[k] = q[k]
        /\ Handled(q) = Handled(s) + Len(PageHandlers(page))
    BY <1>2, <1>3, HandledFront
  <1>5. s \in Seq(Pages) \ {<<>>} /\ (\A k \in 1..Len(s) : s[k] = q[k]) /\ Len(s) <= Len(q) /\ s[Len(s)] \in Pages
    BY <1>1, <1>4
  <1>6. Handled(<<page>>) = Len(PageHandlers(page)) /\ Len(PageHandlers(page)) \in Nat
    BY HandledOne, PagesTyped
  <1>7. Handled(s) \in Nat /\ Len(PageHandlers(s[Len(s)])) \in Nat
    BY <1>4, <1>5, HandledAppend, PagesTyped
  <1>8. /\ Handled(<<page>>) \in Nat /\ Handled(<<page>>) <= Handled(q)
        /\ Handled(s) + Handled(<<page>>) <= Handled(q) + Len(PageHandlers(s[Len(s)]))
    BY <1>4, <1>6, <1>7
  <1>9. PICK x : Cut(u, x, s)
    BY DEF Cut
  <1>10. Pop(u) = InitPage(Teardown(x, <<page>>))
    <2>1. [u EXCEPT !.stacks[u.tab] = Front(@)] = x
      BY <1>1, <1>2, <1>9 DEF ModelOK, NavTyped, IsModel, Fields, Cut
    <2>2. ~(Len(u.stacks[u.tab]) <= 1)
      BY <1>1
    <2> QED
      BY <1>3, <2>1, <2>2 DEF Pop
  <1>11. Returns(u.stacks[u.tab], s, <<page>>)
    BY <1>1, <1>5, <1>8 DEF Returns
  <1> QED
    BY <1>9, <1>10, <1>11, MovedBack

LEMMA MovedToRoot ==
    ASSUME NEW u, ModelOK(u), NavOK(u)
    PROVE  Moved(u, PopToRoot(u)) /\ PopToRoot(u).tab = u.tab
  <1>1. PICK q \in Seq(Pages) \ {<<>>} : q = u.stacks[u.tab]
    BY DEF ModelOK, NavTyped
  <1>2. PICK page \in Pages : page = q[1] /\ Head(q) = page
    BY <1>1
  <1>3. PICK s : s = <<page>>
    OBVIOUS
  <1>4. s \in Seq(Pages) \ {<<>>} /\ (\A k \in 1..Len(s) : s[k] = q[k]) /\ Len(s) <= Len(q) /\ s[Len(s)] = page
    BY <1>2, <1>3
  <1>5. Handled(s) = Len(PageHandlers(page)) /\ Len(PageHandlers(page)) \in Nat /\ Handled(q) \in Nat
    BY <1>3, HandledOne, HandledAppend, PagesTyped
  <1>6. Handled(q) <= Handled(q) /\ Handled(s) + Handled(q) <= Handled(q) + Len(PageHandlers(s[Len(s)]))
    BY <1>4, <1>5
  <1>7. PICK x : Cut(u, x, s)
    BY DEF Cut
  <1>8. PopToRoot(u) = InitPage(Teardown(x, q))
    <2>1. [u EXCEPT !.stacks[u.tab] = <<Head(@)>>] = x
      BY <1>1, <1>2, <1>3, <1>7 DEF ModelOK, NavTyped, IsModel, Fields, Cut
    <2> QED
      BY <1>1, <2>1 DEF PopToRoot
  <1>9. Returns(u.stacks[u.tab], s, q)
    BY <1>1, <1>4, <1>5, <1>6 DEF Returns
  <1> QED
    BY <1>7, <1>8, <1>9, MovedBack

\* The root pages: only the help has a handler.
LEMMA RootHandled ==
    ASSUME NEW t \in Tabs
    PROVE  Handled(<<RootPage[t]>>) = IF t = "Help" THEN 1 ELSE 0
  <1>1. PICK page \in Pages : page = RootPage[t]
    BY PagesTyped
  <1>2. Handled(<<page>>) = Len(PageHandlers(page))
    BY HandledOne
  <1>3. page.kind = IF t = "Help" THEN "HelpPage" ELSE IF t = "Tickets" THEN "TicketList"
                    ELSE IF t = "Flows" THEN "FlowList" ELSE "WorkerList"
    BY <1>1, TabsTyped DEF RootPage, Page
  <1>4. CASE t = "Help"
    <2>1. PageHandlers(page) = <<"scroll">>
      BY <1>3, <1>4 DEF PageHandlers
    <2> QED
      BY <1>1, <1>2, <1>4, <2>1
  <1>5. CASE t # "Help"
    <2>1. PageHandlers(page) = <<>>
      BY <1>3, <1>5 DEF PageHandlers
    <2> QED
      BY <1>1, <1>2, <1>5, <2>1
  <1> QED
    BY <1>4, <1>5

LEMMA MovedTab ==
    ASSUME NEW u, ModelOK(u), NavOK(u), NEW tab \in Tabs
    PROVE  Moved(u, SwitchTab(u, tab)) /\ SwitchTab(u, tab).tab = tab
  <1>1. CASE u.tab = tab
    <2>1. SwitchTab(u, tab) = PopToRoot(u)
      BY <1>1 DEF SwitchTab
    <2> QED
      BY <1>1, <2>1, MovedToRoot
  <1>2. CASE u.tab # tab
    <2>1. PICK t \in Tabs : t = u.tab
      BY DEF ModelOK, NavTyped
    <2>2. PICK pages : pages = <<RootPage[t]>>
      OBVIOUS
    <2>3. <<Head(u.stacks[u.tab])>> = pages
      <3>1. u.stacks[t] \in Seq(Pages) \ {<<>>} /\ u.stacks[t][1] = RootPage[t]
        BY DEF ModelOK, NavTyped, NavOK, StacksOK
      <3>2. Head(u.stacks[t]) = RootPage[t]
        BY <3>1
      <3> QED
        BY <2>1, <2>2, <3>2
    <2>4. PICK n \in {0, 1} : n = Handled(pages) /\ n = IF t = "Help" THEN 1 ELSE 0
      BY <2>2, RootHandled
    <2>5. PICK m \in Nat : m = Len(u.handlers)
      <3>1. u.handlers \in Seq(Handlers)
        BY DEF ModelOK, NavTyped
      <3> QED
        BY <3>1
    <2>6. \A x \in Tabs : Owes(u, x) \in Nat /\ Owes(u, x) <= Owed(u)
      BY OwedTyped DEF ModelOK
    <2>7. Owed(u) \in Nat /\ m > Owed(u) /\ m >= 1 /\ u.handlers[1] = "global"
      BY <2>5, OwedTyped DEF ModelOK, HandlersOK, NavOK
    <2>8. Owes(u, "Help") = n
      <3>1. u.stacks["Help"] = <<RootPage["Help"]>>
        <4>1. u.stacks["Help"] \in Seq(Pages) /\ u.stacks["Help"][1] = RootPage["Help"] /\ Len(u.stacks["Help"]) = 1
          BY TabsTyped DEF ModelOK, NavTyped, NavOK, StacksOK
        <4> QED
          BY <4>1
      <3>2. Handled(u.stacks["Help"]) = 1
        BY <3>1, RootHandled, TabsTyped
      <3> QED
        BY <2>1, <2>4, <3>2 DEF Owes
    <2>9. m > n
      BY <2>6, <2>7, <2>8, TabsTyped
    <2>10. PICK x : x = Teardown(u, pages)
      OBVIOUS
    <2>11. Handled(pages) \in Nat /\ Len(u.handlers) > Handled(pages)
      BY <2>4, <2>5, <2>9
    <2>12. /\ Alters(u, x, TeardownFields) /\ ModelOK(x) /\ x.cmds = u.cmds /\ x.activities \in {u.activities, NoActivities}
           /\ Len(x.handlers) = Len(u.handlers) - Handled(pages) /\ x.handlers[1] = u.handlers[1]
      BY <2>10, <2>11, TeardownOnly
    <2>13. PICK w : w = [x EXCEPT !.tab = tab]
      OBVIOUS
    <2>14. Alters(x, w, {"tab"}) /\ w.tab = tab
      BY <2>12, <2>13 DEF ModelOK, NavTyped, IsModel, Fields, Alters
    <2>15. w.stacks = u.stacks /\ w.handlers = x.handlers /\ w.cmds = u.cmds
      BY <2>12, <2>14 DEF Alters, TeardownFields, Fields
    <2>16. ModelOK(w)
      <3>1. NavTyped(w)
        BY <2>12, <2>14 DEF ModelOK, NavTyped, Alters, Fields
      <3>2. DataTyped(w)
        BY <2>12, <2>14 DEF ModelOK, DataTyped, Alters, Fields
      <3> QED
        BY <2>12, <2>15, <3>1, <3>2 DEF ModelOK
    <2>17. StacksOK(w)
      BY <2>15 DEF StacksOK, NavOK
    <2>18. PICK h \in Nat : h = Len(PageHandlers(CurrentPage(w))) /\ (tab = "Help" => h = 1)
      <3>1. CurrentPage(w) \in Pages
        BY <2>16, CurrentTyped DEF ModelOK
      <3>2. CASE tab = "Help"
        <4>1. CurrentPage(w) = RootPage["Help"]
          BY <2>14, <2>16, <2>17, <3>2, CurrentTyped DEF StacksOK, ModelOK
        <4>2. Handled(<<CurrentPage(w)>>) = 1
          BY <4>1, RootHandled, TabsTyped
        <4> QED
          BY <3>1, <4>2, HandledOne
      <3>3. CASE tab # "Help"
        BY <3>1, <3>3, PagesTyped
      <3> QED
        BY <3>2, <3>3
    <2>19. Owes(w, "Help") <= h /\ (\A y \in Tabs : y # "Help" => Owes(w, y) <= Owes(u, y))
      <3>1. \A y \in Tabs : y # "Help" => Owes(w, y) = Owes(u, y)
        BY <2>15 DEF Owes
      <3>2. Owes(w, "Help") <= h
        <4>1. CASE tab = "Help"
          <5>1. u.stacks["Help"] = <<RootPage["Help"]>>
            <6>1. u.stacks["Help"] \in Seq(Pages) /\ u.stacks["Help"][1] = RootPage["Help"] /\ Len(u.stacks["Help"]) = 1
              BY TabsTyped DEF ModelOK, NavTyped, NavOK, StacksOK
            <6> QED
              BY <6>1
          <5>2. Owes(w, "Help") = 1
            BY <2>14, <2>15, <4>1, <5>1, RootHandled, TabsTyped DEF Owes
          <5> QED
            BY <2>18, <4>1, <5>2
        <4>2. CASE tab # "Help"
          BY <2>14, <2>18, <4>2 DEF Owes
        <4> QED
          BY <4>1, <4>2
      <3> QED
        BY <2>6, <3>1, <3>2
    <2>20. HandlersOK(w, h)
      <3>1. Owed(w) + Owes(u, "Help") <= Owed(u) + Owes(w, "Help")
        <4>1. NavTyped(u) /\ NavTyped(w) /\ "Help" \in Tabs
          BY <2>16, TabsTyped DEF ModelOK
        <4> QED
          BY <2>19, <4>1, OwedMoves
      <3>2. Owed(w) \in Nat /\ Owes(w, "Help") \in Nat
        BY <2>16, OwedTyped, TabsTyped DEF ModelOK
      <3>3. m - n >= 1 /\ (m - n) + h > Owed(w)
        BY <2>7, <2>8, <2>9, <2>19, <3>1, <3>2
      <3>4. Len(w.handlers) = m - n /\ w.handlers[1] = "global"
        BY <2>4, <2>5, <2>7, <2>12, <2>15
      <3> QED
        BY <3>3, <3>4 DEF HandlersOK
    <2>21. Alters(u, w, NavFields) /\ Grows(u, w) /\ w.activities \in {u.activities, NoActivities}
      BY <2>12, <2>14, <2>15 DEF Alters, NavFields, Grows, Fields
    <2>22. SwitchTab(u, tab) = InitPage(w)
      BY <1>2, <2>3, <2>10, <2>13 DEF SwitchTab
    <2> QED
      BY <2>14, <2>16, <2>17, <2>18, <2>20, <2>21, <2>22, MovedInit
  <1> QED
    BY <1>1, <1>2

LEMMA MovedGoto ==
    ASSUME NEW u, ModelOK(u), NavOK(u), NEW screen \in {"ticket", "flow", "worker"}, NEW i \in IdsN, u.tab # "Help"
    PROVE  Moved(u, GotoSelected(u, screen, i))
  <1>1. CASE screen = "ticket"
    <2>1. PICK page \in Pages : page = Page("TicketDetail", i) /\ page.kind \in Inner
      BY PagesTyped DEF Kind, Inner
    <2>2. GotoSelected(u, screen, i) = Push(u, page)
      BY <1>1, <2>1 DEF GotoSelected
    <2> QED
      BY <2>1, <2>2, MovedPush
  <1>2. CASE screen = "worker"
    <2>1. GotoSelected(u, screen, i) = SwitchTab(u, "Workers")
      BY <1>2 DEF GotoSelected
    <2> QED
      BY <2>1, MovedTab, TabsTyped
  <1>3. CASE screen = "flow"
    <2>1. PICK page \in Pages : page = Page("FlowDetail", i) /\ page.kind \in Inner
      BY PagesTyped DEF Kind, Inner
    <2>2. PICK w : w = SwitchTab(u, "Flows")
      OBVIOUS
    <2>3. PICK v : v = Push(w, page)
      OBVIOUS
    <2>4. GotoSelected(u, screen, i) = v
      BY <1>3, <2>1, <2>2, <2>3 DEF GotoSelected
    <2>5. Moved(u, w) /\ w.tab = "Flows"
      BY <2>2, MovedTab, TabsTyped
    <2>6. Moved(w, v)
      BY <2>1, <2>3, <2>5, MovedPush DEF Moved
    <2> QED
      <3>1. Alters(u, v, NavFields) /\ Grows(u, v)
        BY <2>5, <2>6 DEF Moved, Alters, Grows
      <3> QED
        BY <2>4, <2>6, <3>1 DEF Moved
  <1> QED
    BY <1>1, <1>2, <1>3
-----------------------------------------------------------------------------
(* The inductive invariant.  Each part is stated of a model u, the set rs of    *)
(* the requests under way, the server s, the events es and the observers.       *)

\* The lists: their field, the page and the tab that show them, their event.
ListKeys == {"tickets", "flows", "workers"}
FieldOf(k) == CASE k = "tickets" -> "ticketList" [] k = "flows" -> "flowList" [] k = "workers" -> "workerList"
KindOf(k) == CASE k = "tickets" -> "TicketList" [] k = "flows" -> "FlowList" [] k = "workers" -> "WorkerList"
TabOf(k) == CASE k = "tickets" -> "Tickets" [] k = "flows" -> "Flows" [] k = "workers" -> "Workers"
EventOf(k) == CASE k = "tickets" -> "ticket" [] k = "flows" -> "workflow" [] k = "workers" -> "worker"

UpToDate(k, load, s) ==
    \/ load = Failed
    \/ /\ IsLoaded(load)
       /\ CASE k = "tickets" -> load.data = s.tickets
            [] k = "workers" -> load.data = Last(s.workers)
            [] k = "flows" -> load.data = Restrict(Last(s.flows), DOMAIN load.data)

\* A list on the screen is up to date, or something is on its way that brings
\* it up to date.
ListFresh(k, u, rs, s, es, ex, nw) ==
    CurrentPage(u).kind = KindOf(k) =>
        \/ k \in ex
        \/ \E e \in es : e.type = EventOf(k)
        \/ TabOf(k) \in u.dirty
        \/ \E r \in rs : r.cmd.what = k /\ r.since = Version(s, k)
        \/ k = "workers" /\ \E r \in rs : r.cmd.what = "stop"
        \/ nw[k] = Version(s, k) /\ UpToDate(k, u[FieldOf(k)], s)

\* The same for an open ticket.
DetailFresh(u, rs, s, es, ex, nw) ==
    CurrentPage(u).kind = "TicketDetail" =>
        /\ u.detail.id = CurrentPage(u).id /\ u.detail.data # NotLoaded
        /\ \/ "detail" \in ex
           \/ u.tab = "Tickets" /\ (("Tickets" \in u.dirty) \/ \E e \in es : e.type = "ticket")
           \/ \E r \in rs : /\ r.cmd.what = "detail" /\ r.cmd.id = u.detail.id
                            /\ u.tab = "Tickets" => r.since = s.tickets
           \/ /\ u.tab = "Tickets" => nw["detail"] = s.tickets
              /\ \/ u.detail.data = Failed
                 \/ /\ IsLoaded(u.detail.data) /\ u.detail.data.data.id = u.detail.id
                    /\ u.tab = "Tickets" => u.detail.data.data.rev = s.tickets

\* The activities of the ticket opened last are fetched again with it.
Tracked(u) == u.tab = "Tickets" /\ u.detail.id = u.activities.id /\ u.detail.id # NoId

\* The same for the activities on the screen.
ActivitiesFresh(u, rs, s, es, ex, nw) ==
    CurrentPage(u).kind = "TicketActivities" =>
        /\ u.activities.id = CurrentPage(u).id /\ u.activities.data # NotLoaded
        /\ \/ "activities" \in ex
           \/ Tracked(u) /\ (("Tickets" \in u.dirty) \/ \E e \in es : e.type = "ticket")
           \/ \E r \in rs : /\ r.cmd.what = "activities" /\ r.cmd.id = u.activities.id
                            /\ Tracked(u) => r.since = s.tickets
           \/ /\ Tracked(u) => nw["activities"] = s.tickets
              /\ \/ u.activities.data = Failed
                 \/ /\ IsLoaded(u.activities.data)
                    /\ Tracked(u) => u.activities.data.data.rev = s.tickets

\* A stall that was not announced will be, by whatever answer comes first.
Tells(r, i) == r.cmd.what = "flows" \/ (r.cmd.what = "notify" /\ r.cmd.id = i)
StallKnown(i, u, rs, s, es) ==
    /\ u.known[i] = "going" /\ Last(s.flows)[i] = "stalled"
    /\ \/ i \in u.changed
       \/ \E e \in es : e.type = "workflow" /\ e.id = i
       \/ \E r \in rs : Tells(r, i) /\ \A v \in r.since..Len(s.flows) : s.flows[v][i] = "stalled"
StallsOK(u, rs, s, es, un) ==
    /\ u.changed # {} => "Flows" \in u.dirty
    /\ \A i \in un : StallKnown(i, u, rs, s, es)

DraftsOK(u, rs, wr, di, re, ma) ==
    \A d \in wr \ re :
        \/ ma[d] > 0 \/ d \in di
        \/ u.overlay = [kind |-> "create", id |-> d]
        \/ \E r \in rs : r.cmd.what = "create" /\ r.cmd.id = d

ServerOK(s) ==
    /\ s = [tickets |-> s.tickets, flows |-> s.flows, workers |-> s.workers]
    /\ s.tickets \in Nat /\ s.flows \in Seq([Ids -> Status]) \ {<<>>} /\ s.workers \in Seq(SUBSET Ids) \ {<<>>}
RequestsOK(rs, s) ==
    \A r \in rs : /\ r = [cmd |-> r.cmd, since |-> r.since] /\ r.cmd \in UiCommands
                  /\ r.since \in Nat /\ r.since <= Version(s, r.cmd.what)
                  /\ r.cmd.what \in {"flows", "flow", "notify", "workers"} => r.since >= 1
EventSet == [type : {"ticket", "worker"}, id : IdsN] \cup [type : {"workflow"}, id : Ids]
ObserversOK(s, ex, nw, un, wr, ma) ==
    /\ nw \in [Lists -> Nat] /\ (\A k \in Lists : nw[k] <= Version(s, k))
    /\ ex \subseteq Lists /\ un \subseteq Ids /\ wr \subseteq Drafts /\ ma \in [Drafts -> Nat]
GotoOK(u) == u.overlay.kind = "goto" => u.tab # "Help"

FreshAll(u, rs, s, es, ex, nw) ==
    /\ \A k \in ListKeys : ListFresh(k, u, rs, s, es, ex, nw)
    /\ DetailFresh(u, rs, s, es, ex, nw) /\ ActivitiesFresh(u, rs, s, es, ex, nw)
TypedAll(u, rs, s, es, ex, nw, un, wr, ma) ==
    /\ ModelOK(u) /\ ServerOK(s) /\ RequestsOK(rs, s) /\ es \subseteq EventSet
    /\ ObserversOK(s, ex, nw, un, wr, ma)
InvOf(u, rs, s, es, ex, nw, un, wr, di, re, ma) ==
    /\ TypedAll(u, rs, s, es, ex, nw, un, wr, ma) /\ NavOK(u) /\ GotoOK(u)
    /\ FreshAll(u, rs, s, es, ex, nw) /\ StallsOK(u, rs, s, es, un) /\ DraftsOK(u, rs, wr, di, re, ma)

UiInv ==
    /\ IsABag(requests) /\ ui.cmds = <<>>
    /\ InvOf(ui, BagToSet(requests), server, events, excused, newest, unnoticed, written, discarded, dropped, made)

-----------------------------------------------------------------------------
(* The requests *)

LEMMA VersionIs ==
    ASSUME NEW s
    PROVE  /\ \A w \in {"tickets", "detail", "activities"} : Version(s, w) = s.tickets
           /\ \A w \in {"flows", "flow", "notify"} : Version(s, w) = Len(s.flows)
           /\ Version(s, "workers") = Len(s.workers)
           /\ \A w \in {"create", "stop"} : Version(s, w) = 0
  BY DEF Version

Whats == {"tickets", "detail", "activities", "flows", "flow", "notify", "workers", "stop", "create"}

LEMMA CommandWhat ==
    \A c \in UiCommands : c.what \in Whats /\ (c.what # "create" => c.id \in IdsN /\ c.arg \in Nat)
                        /\ (c.what = "create" => c.id \in Drafts)
  BY DEF UiCommands, Whats

LEMMA VersionTyped ==
    ASSUME NEW s, ServerOK(s), NEW w \in Whats
    PROVE  Version(s, w) \in Nat /\ (w \in {"flows", "flow", "notify", "workers"} => Version(s, w) >= 1)
  <1>1. s.tickets \in Nat /\ Len(s.flows) \in Nat /\ Len(s.flows) >= 1 /\ Len(s.workers) \in Nat /\ Len(s.workers) >= 1
    BY DEF ServerOK
  <1> QED
    BY <1>1, VersionIs DEF Whats

\* The requests rs2 after a message: those of rs, without the one in gone that
\* was answered for the last time, and the new ones.
Follows(rs, gone, cmds, s, rs2) ==
    /\ rs \ gone \subseteq rs2
    /\ \A k \in DOMAIN cmds : Task(cmds[k], s) \in rs2
    /\ \A r \in rs2 : r \in rs \/ \E k \in DOMAIN cmds : r = Task(cmds[k], s)

LEMMA StartedBag ==
    ASSUME NEW cmds \in Seq(UiCommands), NEW s
    PROVE  IsABag(Started(cmds, s)) /\ DOMAIN Started(cmds, s) = {Task(cmds[k], s) : k \in DOMAIN cmds}
  <1>1. PICK D : D = {Task(cmds[k], s) : k \in DOMAIN cmds}
    OBVIOUS
  <1>2. IsFiniteSet(DOMAIN cmds)
    <2>1. DOMAIN cmds = 1..Len(cmds) /\ Len(cmds) \in Int /\ 1 \in Int
      OBVIOUS
    <2> QED
      BY <2>1, FS_Interval
  <1>3. ASSUME NEW r \in D PROVE Cardinality({k \in DOMAIN cmds : Task(cmds[k], s) = r}) \in {n \in Nat : n > 0}
    <2>1. PICK S : S = {k \in DOMAIN cmds : Task(cmds[k], s) = r}
      OBVIOUS
    <2>2. PICK k \in DOMAIN cmds : k \in S
      BY <1>1, <1>3, <2>1
    <2>3. S \subseteq DOMAIN cmds
      BY <2>1
    <2>4. IsFiniteSet(S) /\ Cardinality(S) \in Nat
      BY <1>2, <2>3, FS_Subset, FS_CardinalityType
    <2>5. Cardinality(S) # 0
      BY <2>2, <2>4, FS_EmptySet
    <2> QED
      BY <2>1, <2>4, <2>5
  <1>4. Started(cmds, s) = [r \in D |-> Cardinality({k \in DOMAIN cmds : Task(cmds[k], s) = r})]
    BY <1>1, Zenon DEF Started
  <1> QED
    BY <1>1, <1>3, <1>4 DEF IsABag

LEMMA BagAfter ==
    ASSUME NEW B, IsABag(B), NEW gone, NEW N, IsABag(N)
    PROVE  LET B2 == (B (-) SetToBag(gone)) (+) N
           IN  /\ IsABag(B2)
               /\ DOMAIN B \ gone \subseteq DOMAIN B2 /\ DOMAIN N \subseteq DOMAIN B2
               /\ DOMAIN B2 \subseteq DOMAIN B \cup DOMAIN N
  <1>1. PICK C : C = B (-) SetToBag(gone)
    OBVIOUS
  <1>2. IsABag(C) /\ DOMAIN C \subseteq DOMAIN B /\ DOMAIN B \ gone \subseteq DOMAIN C
    BY <1>1 DEF IsABag, (-), SetToBag
  <1>3. PICK E : E = C (+) N
    OBVIOUS
  <1>4. DOMAIN E = DOMAIN C \cup DOMAIN N
    BY <1>3 DEF (+)
  <1>5. IsABag(E)
    BY <1>2, <1>3 DEF IsABag, (+)
  <1> QED
    BY <1>1, <1>2, <1>3, <1>4, <1>5

LEMMA RunsAfter ==
    ASSUME NEW B, IsABag(B), NEW gone, NEW cmds \in Seq(UiCommands), NEW s
    PROVE  LET B2 == (B (-) SetToBag(gone)) (+) Started(cmds, s)
           IN  IsABag(B2) /\ Follows(BagToSet(B), gone, cmds, s, BagToSet(B2))
  <1>1. PICK N : N = Started(cmds, s)
    OBVIOUS
  <1>2. IsABag(N) /\ DOMAIN N = {Task(cmds[k], s) : k \in DOMAIN cmds}
    BY <1>1, StartedBag
  <1>3. PICK B2 : B2 = (B (-) SetToBag(gone)) (+) N
    OBVIOUS
  <1>4. /\ IsABag(B2) /\ DOMAIN B \ gone \subseteq DOMAIN B2 /\ DOMAIN N \subseteq DOMAIN B2
        /\ DOMAIN B2 \subseteq DOMAIN B \cup DOMAIN N
    BY <1>2, <1>3, BagAfter
  <1>5. Follows(DOMAIN B, gone, cmds, s, DOMAIN B2)
    BY <1>2, <1>4 DEF Follows
  <1> QED
    BY <1>1, <1>3, <1>4, <1>5 DEF BagToSet

\* A command becomes a request for what the server holds now.
Launched(v, s, rs2) == \A k \in DOMAIN v.cmds : Task(v.cmds[k], s) \in rs2
Asked(what, id, s, rs) == \E r \in rs : r.cmd.what = what /\ r.cmd.id = id /\ r.since = Version(s, what)

LEMMA SentAsked ==
    ASSUME NEW v, NEW s, NEW rs2, Launched(v, s, rs2), NEW what, NEW id, Sends(v, what, id)
    PROVE  Asked(what, id, s, rs2)
  <1>1. PICK k \in DOMAIN v.cmds : v.cmds[k].what = what /\ v.cmds[k].id = id
    BY DEF Sends
  <1>2. PICK r : r = Task(v.cmds[k], s)
    OBVIOUS
  <1>3. r.cmd = v.cmds[k] /\ r.since = Version(s, what)
    BY <1>1, <1>2 DEF Task
  <1> QED
    BY <1>1, <1>2, <1>3 DEF Launched, Asked

\* The server goes on.
Later(s, s2) == \A w \in Whats : Version(s, w) <= Version(s2, w)

LEMMA RequestsStep ==
    ASSUME NEW rs, NEW s, ServerOK(s), RequestsOK(rs, s), NEW s2, ServerOK(s2), Later(s, s2),
           NEW gone, NEW cmds \in Seq(UiCommands), NEW rs2, Follows(rs, gone, cmds, s2, rs2)
    PROVE  RequestsOK(rs2, s2)
  <1>1. ASSUME NEW r \in rs2
        PROVE  /\ r = [cmd |-> r.cmd, since |-> r.since] /\ r.cmd \in UiCommands
               /\ r.since \in Nat /\ r.since <= Version(s2, r.cmd.what)
               /\ r.cmd.what \in {"flows", "flow", "notify", "workers"} => r.since >= 1
    <2>1. CASE r \in rs
      <3>1. r = [cmd |-> r.cmd, since |-> r.since] /\ r.cmd \in UiCommands /\ r.since \in Nat /\ r.since <= Version(s, r.cmd.what)
            /\ (r.cmd.what \in {"flows", "flow", "notify", "workers"} => r.since >= 1)
        BY <2>1 DEF RequestsOK
      <3>2. r.cmd.what \in Whats
        BY <3>1, CommandWhat
      <3>3. Version(s, r.cmd.what) \in Nat /\ Version(s2, r.cmd.what) \in Nat /\ Version(s, r.cmd.what) <= Version(s2, r.cmd.what)
        BY <3>2, VersionTyped DEF Later
      <3> QED
        BY <3>1, <3>3
    <2>2. CASE \E k \in DOMAIN cmds : r = Task(cmds[k], s2)
      <3>1. PICK c \in UiCommands : r = Task(c, s2)
        BY <2>2
      <3>2. r.cmd = c /\ r.since = Version(s2, c.what) /\ r = [cmd |-> r.cmd, since |-> r.since]
        BY <3>1 DEF Task
      <3>3. c.what \in Whats
        BY CommandWhat
      <3>4. Version(s2, c.what) \in Nat /\ (c.what \in {"flows", "flow", "notify", "workers"} => Version(s2, c.what) >= 1)
        BY <3>3, VersionTyped
      <3> QED
        BY <3>2, <3>4
    <2> QED
      BY <2>1, <2>2 DEF Follows
  <1> QED
    BY <1>1 DEF RequestsOK

-----------------------------------------------------------------------------
(* How the parts of the invariant are kept *)

\* The commands given do not matter to the invariant.
LEMMA Settled ==
    ASSUME NEW v, NEW w, Alters(v, w, {"cmds"}), w.cmds = <<>>,
           NEW rs, NEW s, NEW es, NEW ex, NEW nw, NEW un, NEW wr, NEW di, NEW re, NEW ma,
           InvOf(v, rs, s, es, ex, nw, un, wr, di, re, ma)
    PROVE  InvOf(w, rs, s, es, ex, nw, un, wr, di, re, ma)
  <1>1. IsModel(w) /\ \A f \in Fields \ {"cmds"} : w[f] = v[f]
    BY DEF Alters
  <1>2. /\ w.tab = v.tab /\ w.stacks = v.stacks /\ w.handlers = v.handlers /\ w.overlay = v.overlay
        /\ w.ticketList = v.ticketList /\ w.rows = v.rows /\ w.detail = v.detail /\ w.activities = v.activities
        /\ w.flowList = v.flowList /\ w.flowPage = v.flowPage /\ w.flowDetail = v.flowDetail
        /\ w.workerList = v.workerList /\ w.dirty = v.dirty /\ w.changed = v.changed
        /\ w.cooling = v.cooling /\ w.known = v.known
    BY <1>1 DEF Fields
  <1>3. \A k \in ListKeys : w[FieldOf(k)] = v[FieldOf(k)]
    BY <1>2 DEF ListKeys, FieldOf
  <1>4. CurrentPage(w) = CurrentPage(v)
    BY <1>2 DEF CurrentPage
  <1>5. ModelOK(w)
    <2>1. NavTyped(w)
      BY <1>1, <1>2 DEF InvOf, TypedAll, ModelOK, NavTyped
    <2>2. DataTyped(w)
      BY <1>2 DEF InvOf, TypedAll, ModelOK, DataTyped
    <2>3. w.cmds \in Seq(UiCommands)
      OBVIOUS
    <2> QED
      BY <2>1, <2>2, <2>3 DEF ModelOK
  <1>6. NavOK(w) /\ GotoOK(w)
    BY <1>2, <1>4 DEF InvOf, NavOK, GotoOK, StacksOK, HandlersOK, OnTop, Owed, Owes
  <1>7. FreshAll(w, rs, s, es, ex, nw)
    <2>1. \A k \in ListKeys : ListFresh(k, w, rs, s, es, ex, nw)
      BY <1>2, <1>3, <1>4 DEF InvOf, FreshAll, ListFresh
    <2>2. DetailFresh(w, rs, s, es, ex, nw)
      BY <1>2, <1>4 DEF InvOf, FreshAll, DetailFresh
    <2>3. ActivitiesFresh(w, rs, s, es, ex, nw)
      BY <1>2, <1>4 DEF InvOf, FreshAll, ActivitiesFresh, Tracked
    <2> QED
      BY <2>1, <2>2, <2>3 DEF FreshAll
  <1>8. StallsOK(w, rs, s, es, un)
    BY <1>2 DEF InvOf, StallsOK, StallKnown
  <1>9. DraftsOK(w, rs, wr, di, re, ma)
    BY <1>2 DEF InvOf, DraftsOK
  <1> QED
    BY <1>5, <1>6, <1>7, <1>8, <1>9 DEF InvOf, TypedAll

\* The server holds for list k what it held.
Alike(k, s, s2) ==
    /\ Version(s2, k) = Version(s, k)
    /\ k = "tickets" => s2.tickets = s.tickets
    /\ k = "flows" => s2.flows = s.flows
    /\ k = "workers" => s2.workers = s.workers

LEMMA ListKept ==
    ASSUME NEW k \in ListKeys, NEW u, NEW v, v.tab = u.tab, v.stacks = u.stacks, u.dirty \subseteq v.dirty,
           v[FieldOf(k)] = u[FieldOf(k)],
           NEW rs, NEW rs2, \A r \in rs : r \in rs2 \/ (r.cmd.what # k /\ (k = "workers" => r.cmd.what # "stop")),
           NEW s, NEW s2, Alike(k, s, s2), NEW es, NEW es2, \A e \in es : e \in es2,
           NEW ex, NEW ex2, k \in ex => k \in ex2, NEW nw, NEW nw2, nw2[k] = nw[k],
           ListFresh(k, u, rs, s, es, ex, nw)
    PROVE  ListFresh(k, v, rs2, s2, es2, ex2, nw2)
  <1>1. CurrentPage(v) = CurrentPage(u)
    BY DEF CurrentPage
  <1>2. UpToDate(k, u[FieldOf(k)], s) => UpToDate(k, v[FieldOf(k)], s2)
    BY DEF UpToDate, ListKeys, Alike
  <1>3. Version(s2, k) = Version(s, k)
    BY DEF Alike
  <1> QED
    BY <1>1, <1>2, <1>3 DEF ListFresh

LEMMA DetailKept ==
    ASSUME NEW u, NEW v, v.tab = u.tab, v.stacks = u.stacks, u.dirty \subseteq v.dirty, v.detail = u.detail,
           NEW rs, NEW rs2, \A r \in rs : r \in rs2 \/ r.cmd.what # "detail",
           NEW s, NEW s2, s2.tickets = s.tickets, NEW es, NEW es2, \A e \in es : e \in es2,
           NEW ex, NEW ex2, "detail" \in ex => "detail" \in ex2, NEW nw, NEW nw2, nw2["detail"] = nw["detail"],
           DetailFresh(u, rs, s, es, ex, nw)
    PROVE  DetailFresh(v, rs2, s2, es2, ex2, nw2)
  <1>1. CurrentPage(v) = CurrentPage(u)
    BY DEF CurrentPage
  <1> QED
    BY <1>1 DEF DetailFresh

LEMMA ActivitiesKept ==
    ASSUME NEW u, NEW v, v.tab = u.tab, v.stacks = u.stacks, u.dirty \subseteq v.dirty,
           v.detail.id = u.detail.id, v.activities = u.activities,
           NEW rs, NEW rs2, \A r \in rs : r \in rs2 \/ r.cmd.what # "activities",
           NEW s, NEW s2, s2.tickets = s.tickets, NEW es, NEW es2, \A e \in es : e \in es2,
           NEW ex, NEW ex2, "activities" \in ex => "activities" \in ex2,
           NEW nw, NEW nw2, nw2["activities"] = nw["activities"],
           ActivitiesFresh(u, rs, s, es, ex, nw)
    PROVE  ActivitiesFresh(v, rs2, s2, es2, ex2, nw2)
  <1>1. CurrentPage(v) = CurrentPage(u)
    BY DEF CurrentPage
  <1>2. Tracked(v) = Tracked(u)
    BY DEF Tracked
  <1> QED
    BY <1>1, <1>2 DEF ActivitiesFresh

\* Activities that were just asked for are on their way.
LEMMA ActivitiesSent ==
    ASSUME NEW v, NEW rs2, NEW s, Launched(v, s, rs2), NEW es, NEW ex, NEW nw,
           v.activities.id = CurrentPage(v).id, v.activities.data = Loading, Sends(v, "activities", v.activities.id)
    PROVE  ActivitiesFresh(v, rs2, s, es, ex, nw)
  <1>1. PICK r \in rs2 : r.cmd.what = "activities" /\ r.cmd.id = v.activities.id /\ r.since = s.tickets
    <2>1. Asked("activities", v.activities.id, s, rs2)
      BY SentAsked
    <2> QED
      BY <2>1, VersionIs DEF Asked
  <1>2. v.activities.data # NotLoaded
    BY LoadTyped
  <1> QED
    BY <1>1, <1>2 DEF ActivitiesFresh

\* The model waits for what the page on the screen asked for.
LEMMA FreshMoved ==
    ASSUME NEW u, NEW v, Moved(u, v), NEW rs, NEW rs2, NEW s, NEW es, NEW ex, NEW nw,
           Follows(rs, {}, v.cmds, s, rs2), FreshAll(u, rs, s, es, ex, nw)
    PROVE  FreshAll(v, rs2, s, es, ex, nw)
  <1>0. Launched(v, s, rs2)
    BY DEF Follows, Launched
  <1>1. ASSUME NEW k \in ListKeys PROVE ListFresh(k, v, rs2, s, es, ex, nw)
    <2>1. SUFFICES ASSUME CurrentPage(v).kind = KindOf(k)
                   PROVE  \E r \in rs2 : r.cmd.what = k /\ r.since = Version(s, k)
      BY DEF ListFresh
    <2>2. Sends(v, k, NoId)
      BY <2>1 DEF Moved, Wants, KindOf, ListKeys
    <2> QED
      <3>1. Asked(k, NoId, s, rs2)
        BY <1>0, <2>2, SentAsked
      <3> QED
        BY <3>1 DEF Asked
  <1>2. DetailFresh(v, rs2, s, es, ex, nw)
    <2>1. CASE CurrentPage(v).kind = "TicketDetail"
      <3>1. v.detail.id = CurrentPage(v).id /\ v.detail.data = Loading /\ Sends(v, "detail", v.detail.id)
        BY <2>1 DEF Moved, Wants
      <3>2. PICK r \in rs2 : r.cmd.what = "detail" /\ r.cmd.id = v.detail.id /\ r.since = s.tickets
        <4>1. Asked("detail", v.detail.id, s, rs2)
          BY <1>0, <3>1, SentAsked
        <4> QED
          BY <4>1, VersionIs DEF Asked
      <3>3. v.detail.data # NotLoaded
        BY <3>1, LoadTyped
      <3> QED
        BY <3>1, <3>2, <3>3 DEF DetailFresh
    <2>2. CASE CurrentPage(v).kind # "TicketDetail"
      BY <2>2 DEF DetailFresh
    <2> QED
      BY <2>1, <2>2
  <1>3. ActivitiesFresh(v, rs2, s, es, ex, nw)
    <2>1. CASE CurrentPage(v).kind = "TicketActivities"
      <3>1. v.activities.id = CurrentPage(v).id /\ v.activities.data = Loading /\ Sends(v, "activities", v.activities.id)
        BY <2>1 DEF Moved, Wants
      <3> QED
        BY <1>0, <3>1, ActivitiesSent
    <2>2. CASE CurrentPage(v).kind # "TicketActivities"
      BY <2>2 DEF ActivitiesFresh
    <2> QED
      BY <2>1, <2>2
  <1> QED
    BY <1>1, <1>2, <1>3 DEF FreshAll

\* On the same page: a list that changes is asked for again, or a worker is stopped.
Asks(u, v) ==
    \/ v.activities = u.activities
    \/ /\ v.activities.id = u.activities.id /\ v.activities.data = Loading
       /\ Sends(v, "activities", v.activities.id)
Again(u, v) ==
    /\ v.tab = u.tab /\ v.stacks = u.stacks /\ v.dirty = u.dirty /\ Asks(u, v)
    /\ \A k \in ListKeys : \/ v[FieldOf(k)] = u[FieldOf(k)]
                           \/ Sends(v, k, NoId)
                           \/ k = "workers" /\ \E i : Sends(v, "stop", i)
    /\ \/ v.detail = u.detail
       \/ v.detail.id = u.detail.id /\ v.detail.data = Loading /\ Sends(v, "detail", v.detail.id)

\* A request that ends without an answer to a fetch: the list of the workers is
\* asked for after a stop.
Ends(gone, v) ==
    \A r \in gone : r.cmd.what = "create" \/ (r.cmd.what = "stop" /\ Sends(v, "workers", NoId))

LEMMA FreshAgain ==
    ASSUME NEW u, NEW v, Again(u, v), NEW rs, NEW rs2, NEW s, NEW es, NEW ex, NEW nw, NEW gone, Ends(gone, v),
           Follows(rs, gone, v.cmds, s, rs2), FreshAll(u, rs, s, es, ex, nw)
    PROVE  FreshAll(v, rs2, s, es, ex, nw)
  <1>0. Launched(v, s, rs2)
    BY DEF Follows, Launched
  <1>1. \A r \in rs : r \in rs2 \/ r.cmd.what = "create" \/ (r.cmd.what = "stop" /\ Sends(v, "workers", NoId))
    BY DEF Follows, Ends
  <1>2. ASSUME NEW k \in ListKeys PROVE ListFresh(k, v, rs2, s, es, ex, nw)
    <2>0. CASE Sends(v, k, NoId)
      <3>1. Asked(k, NoId, s, rs2)
        BY <1>0, <2>0, SentAsked
      <3> QED
        BY <3>1 DEF Asked, ListFresh
    <2>1. CASE v[FieldOf(k)] = u[FieldOf(k)] /\ ~Sends(v, k, NoId)
      <3>1. Alike(k, s, s) /\ ListFresh(k, u, rs, s, es, ex, nw)
        BY DEF Alike, FreshAll
      <3>2. v.tab = u.tab /\ v.stacks = u.stacks /\ u.dirty \subseteq v.dirty
        BY DEF Again
      <3>3. \A r \in rs : r \in rs2 \/ (r.cmd.what # k /\ (k = "workers" => r.cmd.what # "stop"))
        BY <1>1, <2>1 DEF ListKeys
      <3> QED
        BY <2>1, <3>1, <3>2, <3>3, ListKept
    <2>3. CASE k = "workers" /\ \E i : Sends(v, "stop", i)
      <3>1. \E r \in rs2 : r.cmd.what = "stop"
        <4>1. PICK i : Sends(v, "stop", i)
          BY <2>3
        <4>2. Asked("stop", i, s, rs2)
          BY <1>0, <4>1, SentAsked
        <4> QED
          BY <4>2 DEF Asked
      <3> QED
        BY <2>3, <3>1 DEF ListFresh
    <2> QED
      BY <2>0, <2>1, <2>3 DEF Again
  <1>3. DetailFresh(v, rs2, s, es, ex, nw)
    <2>1. CASE v.detail = u.detail
      <3>1. DetailFresh(u, rs, s, es, ex, nw)
        BY DEF FreshAll
      <3>2. v.tab = u.tab /\ v.stacks = u.stacks /\ u.dirty \subseteq v.dirty
        BY DEF Again
      <3>3. \A r \in rs : r \in rs2 \/ r.cmd.what # "detail"
        BY <1>1
      <3> QED
        BY <2>1, <3>1, <3>2, <3>3, DetailKept
    <2>2. CASE v.detail.id = u.detail.id /\ v.detail.data = Loading /\ Sends(v, "detail", v.detail.id)
      <3>1. PICK r \in rs2 : r.cmd.what = "detail" /\ r.cmd.id = v.detail.id /\ r.since = s.tickets
        <4>1. Asked("detail", v.detail.id, s, rs2)
          BY <1>0, <2>2, SentAsked
        <4> QED
          BY <4>1, VersionIs DEF Asked
      <3>2. v.detail.data # NotLoaded /\ CurrentPage(v) = CurrentPage(u)
        BY <2>2, LoadTyped DEF CurrentPage, Again
      <3> QED
        BY <2>2, <3>1, <3>2 DEF DetailFresh, FreshAll
    <2> QED
      BY <2>1, <2>2 DEF Again
  <1>4. ActivitiesFresh(v, rs2, s, es, ex, nw)
    <2>0. /\ ActivitiesFresh(u, rs, s, es, ex, nw) /\ v.detail.id = u.detail.id /\ v.tab = u.tab /\ v.stacks = u.stacks
          /\ u.dirty \subseteq v.dirty /\ CurrentPage(v) = CurrentPage(u)
      BY DEF FreshAll, Again, CurrentPage
    <2>1. CASE v.activities = u.activities
      <3>1. \A r \in rs : r \in rs2 \/ r.cmd.what # "activities"
        BY <1>1
      <3> QED
        BY <2>0, <2>1, <3>1, ActivitiesKept
    <2>2. CASE /\ v.activities.id = u.activities.id /\ v.activities.data = Loading
               /\ Sends(v, "activities", v.activities.id)
      <3>1. CASE CurrentPage(v).kind = "TicketActivities"
        <4>1. v.activities.id = CurrentPage(v).id
          BY <2>0, <2>2, <3>1 DEF ActivitiesFresh
        <4> QED
          BY <1>0, <2>2, <4>1, ActivitiesSent
      <3>2. CASE CurrentPage(v).kind # "TicketActivities"
        BY <3>2 DEF ActivitiesFresh
      <3> QED
        BY <3>1, <3>2
    <2> QED
      BY <2>1, <2>2 DEF Again, Asks
  <1> QED
    BY <1>2, <1>3, <1>4 DEF FreshAll

LEMMA StallsKept ==
    ASSUME NEW u, NEW v, u.changed \subseteq v.changed, v.known = u.known,
           v.changed # {} => "Flows" \in v.dirty,
           NEW rs, NEW rs2, \A r \in rs : r \in rs2 \/ r.cmd.what \notin {"flows", "notify"},
           NEW s, NEW es, NEW es2, \A e \in es : e \in es2, NEW un, StallsOK(u, rs, s, es, un)
    PROVE  StallsOK(v, rs2, s, es2, un)
  <1>1. ASSUME NEW i \in un PROVE StallKnown(i, v, rs2, s, es2)
    <2>1. StallKnown(i, u, rs, s, es)
      BY DEF StallsOK
    <2> QED
      BY <2>1 DEF StallKnown, Tells
  <1> QED
    BY <1>1 DEF StallsOK

LEMMA DraftsKept ==
    ASSUME NEW u, NEW v, NEW rs, NEW rs2, NEW wr, NEW di, NEW re, NEW ma,
           v.overlay = u.overlay \/ u.overlay.kind # "create",
           \A r \in rs : r \in rs2 \/ r.cmd.what # "create", DraftsOK(u, rs, wr, di, re, ma)
    PROVE  DraftsOK(v, rs2, wr, di, re, ma)
  <1>1. ASSUME NEW d \in wr \ re
        PROVE  \/ ma[d] > 0 \/ d \in di
               \/ v.overlay = [kind |-> "create", id |-> d]
               \/ \E r \in rs2 : r.cmd.what = "create" /\ r.cmd.id = d
    <2>1. \/ ma[d] > 0 \/ d \in di
          \/ u.overlay = [kind |-> "create", id |-> d]
          \/ \E r \in rs : r.cmd.what = "create" /\ r.cmd.id = d
      BY DEF DraftsOK
    <2>2. u.overlay = [kind |-> "create", id |-> d] => u.overlay.kind = "create"
      OBVIOUS
    <2> QED
      BY <2>1, <2>2
  <1> QED
    BY <1>1 DEF DraftsOK

-----------------------------------------------------------------------------
(* Keys *)

\* A key that opens, closes or switches pages.
LEMMA KeyMoved ==
    ASSUME NEW u, NEW v, NEW rs, NEW s, NEW es, NEW ex, NEW nw, NEW un, NEW wr, NEW di, NEW re, NEW ma,
           InvOf(u, rs, s, es, ex, nw, un, wr, di, re, ma), Moved(u, v), u.overlay.kind # "goto",
           NEW rs2, Follows(rs, {}, v.cmds, s, rs2)
    PROVE  InvOf(v, rs2, s, es, ex, nw, un, wr, di, re, ma)
  <1>1. /\ ModelOK(u) /\ ServerOK(s) /\ RequestsOK(rs, s) /\ es \subseteq EventSet
        /\ ObserversOK(s, ex, nw, un, wr, ma) /\ FreshAll(u, rs, s, es, ex, nw)
        /\ StallsOK(u, rs, s, es, un) /\ DraftsOK(u, rs, wr, di, re, ma)
    BY DEF InvOf, TypedAll
  <1>2. ModelOK(v) /\ NavOK(v) /\ v.cmds \in Seq(UiCommands)
    BY DEF Moved, ModelOK
  <1>3. v.overlay = u.overlay /\ v.changed = u.changed /\ v.known = u.known /\ v.dirty = u.dirty
    BY DEF Moved, Alters, NavFields, InitFields, TeardownFields, Fields
  <1>4. Later(s, s)
    BY <1>1, VersionTyped DEF Later
  <1>5. RequestsOK(rs2, s)
    BY <1>1, <1>2, <1>4, RequestsStep
  <1>6. FreshAll(v, rs2, s, es, ex, nw)
    BY <1>1, FreshMoved
  <1>7. \A r \in rs : r \in rs2
    BY DEF Follows
  <1>8. StallsOK(v, rs2, s, es, un)
    <2>1. v.changed # {} => "Flows" \in v.dirty
      BY <1>1, <1>3 DEF StallsOK
    <2> QED
      BY <1>1, <1>3, <1>7, <2>1, StallsKept
  <1>9. DraftsOK(v, rs2, wr, di, re, ma)
    BY <1>1, <1>3, <1>7, DraftsKept
  <1>10. GotoOK(v)
    BY <1>3 DEF GotoOK
  <1> QED
    BY <1>1, <1>2, <1>5, <1>6, <1>8, <1>9, <1>10 DEF InvOf, TypedAll

\* An update that stays on the page and asks again for some of it; the drafts
\* may change.
LEMMA DraftAgain ==
    ASSUME NEW u, NEW v, NEW rs, NEW s, NEW es, NEW ex, NEW nw, NEW un, NEW wr, NEW di, NEW re, NEW ma,
           InvOf(u, rs, s, es, ex, nw, un, wr, di, re, ma), Again(u, v), ModelOK(v), GotoOK(v),
           v.handlers = u.handlers, v.changed = u.changed, v.known = u.known,
           NEW rs2, NEW gone, Ends(gone, v), Follows(rs, gone, v.cmds, s, rs2),
           NEW wr2, wr2 \subseteq Drafts, NEW ma2, ma2 \in [Drafts -> Nat], NEW di2, NEW re2,
           DraftsOK(v, rs2, wr2, di2, re2, ma2)
    PROVE  InvOf(v, rs2, s, es, ex, nw, un, wr2, di2, re2, ma2)
  <1>1. /\ ModelOK(u) /\ ServerOK(s) /\ RequestsOK(rs, s) /\ es \subseteq EventSet
        /\ ObserversOK(s, ex, nw, un, wr, ma) /\ FreshAll(u, rs, s, es, ex, nw)
        /\ StallsOK(u, rs, s, es, un) /\ NavOK(u)
    BY DEF InvOf, TypedAll
  <1>2. v.tab = u.tab /\ v.stacks = u.stacks /\ v.dirty = u.dirty /\ v.cmds \in Seq(UiCommands)
    BY DEF Again, ModelOK
  <1>3. NavOK(v)
    BY <1>1, <1>2 DEF NavOK, StacksOK, HandlersOK, OnTop, Owed, Owes, CurrentPage
  <1>4. Later(s, s)
    BY <1>1, VersionTyped DEF Later
  <1>5. RequestsOK(rs2, s)
    BY <1>1, <1>2, <1>4, RequestsStep
  <1>6. FreshAll(v, rs2, s, es, ex, nw)
    BY <1>1, FreshAgain
  <1>7. \A r \in rs : r \in rs2 \/ r.cmd.what \notin {"flows", "notify"}
    BY DEF Follows, Ends
  <1>8. StallsOK(v, rs2, s, es, un)
    <2>1. v.changed # {} => "Flows" \in v.dirty
      BY <1>1, <1>2 DEF StallsOK
    <2> QED
      BY <1>1, <1>2, <1>7, <2>1, StallsKept
  <1>9. ObserversOK(s, ex, nw, un, wr2, ma2)
    BY <1>1 DEF ObserversOK
  <1> QED
    BY <1>1, <1>3, <1>5, <1>6, <1>8, <1>9 DEF InvOf, TypedAll

\* A key that asks again for something on the page, and perhaps opens the menu
\* of the goto or closes it.
LEMMA KeyAgain ==
    ASSUME NEW u, NEW v, NEW rs, NEW s, NEW es, NEW ex, NEW nw, NEW un, NEW wr, NEW di, NEW re, NEW ma,
           InvOf(u, rs, s, es, ex, nw, un, wr, di, re, ma), Again(u, v), ModelOK(v), GotoOK(v),
           v.handlers = u.handlers, v.changed = u.changed, v.known = u.known,
           v.overlay = u.overlay \/ u.overlay.kind # "create",
           NEW rs2, Follows(rs, {}, v.cmds, s, rs2)
    PROVE  InvOf(v, rs2, s, es, ex, nw, un, wr, di, re, ma)
  <1>1. /\ DraftsOK(u, rs, wr, di, re, ma)
        /\ wr \subseteq Drafts /\ ma \in [Drafts -> Nat]
    BY DEF InvOf, TypedAll, ObserversOK
  <1>2. \A r \in rs : r \in rs2
    BY DEF Follows
  <1>3. DraftsOK(v, rs2, wr, di, re, ma)
    BY <1>1, <1>2, DraftsKept
  <1>4. Ends({}, v)
    BY DEF Ends
  <1> QED
    BY <1>1, <1>3, <1>4, DraftAgain

\* The commands of an update are run.
LEMMA Ran ==
    ASSUME UiInv, NEW v, ModelOK(v), NEW gone, Runs(SetToBag(gone), v),
           \A rs2 : Follows(BagToSet(requests), gone, v.cmds, server', rs2) =>
                        InvOf(v, rs2, server', events', excused', newest', unnoticed', written', discarded', dropped', made')
    PROVE  UiInv'
  <1>1. PICK B : B = requests'
    OBVIOUS
  <1>2. PICK w : w = ui'
    OBVIOUS
  <1>3. PICK s : s = server'
    OBVIOUS
  <1>4. v.cmds \in Seq(UiCommands) /\ IsModel(v)
    BY DEF ModelOK, NavTyped
  <1>5. B = (requests (-) SetToBag(gone)) (+) Started(v.cmds, s)
    BY <1>1, <1>3 DEF Runs
  <1>6. IsABag(B) /\ Follows(BagToSet(requests), gone, v.cmds, s, BagToSet(B))
    BY <1>4, <1>5, RunsAfter DEF UiInv
  <1>7. w = [v EXCEPT !.cmds = <<>>]
    BY <1>2 DEF Runs
  <1>8. Alters(v, w, {"cmds"}) /\ w.cmds = <<>>
    BY <1>4, <1>7 DEF IsModel, Alters, Fields
  <1>9. InvOf(v, BagToSet(B), s, events', excused', newest', unnoticed', written', discarded', dropped', made')
    BY <1>3, <1>6
  <1>10. InvOf(w, BagToSet(B), s, events', excused', newest', unnoticed', written', discarded', dropped', made')
    BY <1>8, <1>9, Settled
  <1>11. BagToSet(B) = BagToSet(requests')
    BY <1>1
  <1> QED
    BY <1>1, <1>2, <1>3, <1>6, <1>8, <1>10 DEF UiInv, IsABag, BagToSet

\* The fields that a key changes on the same page.
Stays(u, v) ==
    /\ v.tab = u.tab /\ v.stacks = u.stacks /\ v.handlers = u.handlers /\ v.overlay = u.overlay
    /\ v.dirty = u.dirty /\ v.changed = u.changed /\ v.known = u.known
DataFields == {"ticketList", "rows", "detail", "activities", "flowList", "flowPage", "flowDetail", "workerList", "cmds"}

LEMMA DataStays ==
    ASSUME NEW u, NEW v, NEW F, Alters(u, v, F), F \subseteq DataFields
    PROVE  Stays(u, v)
  BY DEF Alters, Stays, DataFields, Fields

LEMMA DetailAgain ==
    ASSUME NEW u, ModelOK(u), NEW w, Alters(u, w, {"detail"}),
           w.detail \in [id : IdsN, data : Load(DetailData), closed : BOOLEAN, rows : BOOLEAN],
           w.detail.id = u.detail.id, w.detail.data = Loading,
           NEW cs \in Seq(UiCommands), 1 \in DOMAIN cs, cs[1].what = "detail", cs[1].id = u.detail.id,
           NEW v, v = Emit(w, cs)
    PROVE  ModelOK(v) /\ Stays(u, v) /\ Again(u, v)
  <1>1. w.cmds = u.cmds
    BY DEF Alters, Fields
  <1>2. ModelOK(w)
    <2>1. NavTyped(w)
      BY NavSame DEF ModelOK
    <2>2. DataTyped(w)
      BY DEF ModelOK, DataTyped, Alters, Fields
    <2> QED
      BY <1>1, <2>1, <2>2 DEF ModelOK
  <1>3. Alters(w, v, {"cmds"}) /\ ModelOK(v) /\ Sends(v, "detail", u.detail.id)
    BY <1>2, EmitOK
  <1>4. Alters(u, v, {"detail", "cmds"}) /\ v.detail = w.detail
    BY <1>3 DEF Alters, Fields
  <1>5. Stays(u, v)
    BY <1>4, DataStays DEF DataFields
  <1>6. Again(u, v)
    <2>1. \A k \in ListKeys : v[FieldOf(k)] = u[FieldOf(k)]
      BY <1>4 DEF ListKeys, FieldOf, Alters, Fields
    <2>2. Asks(u, v)
      BY <1>4 DEF Asks, Alters, Fields
    <2> QED
      BY <1>3, <1>4, <1>5, <2>1, <2>2 DEF Again, Stays
  <1> QED
    BY <1>3, <1>5, <1>6

LEMMA ToggleClosedAgain ==
    ASSUME NEW u, ModelOK(u), NEW w, w = [u EXCEPT !.detail.closed = ~@, !.detail.data = Loading],
           NEW v, v = Emit(w, DetailFetches(w))
    PROVE  ModelOK(v) /\ Stays(u, v) /\ Again(u, v)
  <1>1. u.detail \in [id : IdsN, data : Load(DetailData), closed : BOOLEAN, rows : BOOLEAN] /\ IsModel(u)
    BY DEF ModelOK, DataTyped, NavTyped
  <1>2. PICK d : d = [u.detail EXCEPT !.closed = ~@, !.data = Loading]
    OBVIOUS
  <1>3. d \in [id : IdsN, data : Load(DetailData), closed : BOOLEAN, rows : BOOLEAN] /\ d.id = u.detail.id /\ d.data = Loading
    <2>1. Loading \in Load(DetailData)
      BY LoadTyped
    <2> QED
      BY <1>1, <1>2, <2>1
  <1>4. Alters(u, w, {"detail"}) /\ w.detail = d
    BY <1>1, <1>2 DEF IsModel, Alters, Fields
  <1>5. w.activities = u.activities /\ w.cmds = u.cmds
    BY <1>4 DEF Alters, Fields
  <1>6. DataTyped(w)
    BY <1>3, <1>4 DEF ModelOK, DataTyped, Alters, Fields
  <1>7. /\ DetailFetches(w) \in Seq(UiCommands) /\ 1 \in DOMAIN DetailFetches(w)
        /\ DetailFetches(w)[1].what = "detail" /\ DetailFetches(w)[1].id = u.detail.id
    BY <1>3, <1>4, <1>6, DetailFetchesTyped
  <1> QED
    BY <1>3, <1>4, <1>7, DetailAgain

LEMMA RefreshDetailAgain ==
    ASSUME NEW u, ModelOK(u), NEW w, w = [u EXCEPT !.detail.data = Loading],
           NEW v, v = Emit(w, DetailFetches(u))
    PROVE  ModelOK(v) /\ Stays(u, v) /\ Again(u, v)
  <1>1. u.detail \in [id : IdsN, data : Load(DetailData), closed : BOOLEAN, rows : BOOLEAN] /\ IsModel(u)
    BY DEF ModelOK, DataTyped, NavTyped
  <1>2. PICK d : d = [u.detail EXCEPT !.data = Loading]
    OBVIOUS
  <1>3. d \in [id : IdsN, data : Load(DetailData), closed : BOOLEAN, rows : BOOLEAN] /\ d.id = u.detail.id /\ d.data = Loading
    <2>1. Loading \in Load(DetailData)
      BY LoadTyped
    <2> QED
      BY <1>1, <1>2, <2>1
  <1>4. Alters(u, w, {"detail"}) /\ w.detail = d
    BY <1>1, <1>2 DEF IsModel, Alters, Fields
  <1>5. /\ DetailFetches(u) \in Seq(UiCommands) /\ 1 \in DOMAIN DetailFetches(u)
        /\ DetailFetches(u)[1].what = "detail" /\ DetailFetches(u)[1].id = u.detail.id
    BY DetailFetchesTyped DEF ModelOK
  <1> QED
    BY <1>3, <1>4, <1>5, DetailAgain

LEMMA ActivitiesAgain ==
    ASSUME NEW u, ModelOK(u), NEW w, Alters(u, w, {"activities"}),
           w.activities \in [id : IdsN, data : Load(ActivityData), authors : BOOLEAN, author : {0, 1}],
           w.activities.id = u.activities.id, w.activities.data = Loading,
           NEW c \in UiCommands, c.what = "activities", c.id = u.activities.id, NEW v, v = Emit(w, <<c>>)
    PROVE  ModelOK(v) /\ Stays(u, v) /\ Again(u, v)
  <1>1. w.cmds = u.cmds
    BY DEF Alters, Fields
  <1>4. ModelOK(w)
    <2>1. NavTyped(w)
      BY NavSame DEF ModelOK
    <2>2. DataTyped(w)
      BY DEF ModelOK, DataTyped, Alters, Fields
    <2> QED
      BY <1>1, <2>1, <2>2 DEF ModelOK
  <1>6. <<c>> \in Seq(UiCommands) /\ 1 \in DOMAIN <<c>> /\ <<c>>[1] = c
    OBVIOUS
  <1>7. Alters(w, v, {"cmds"}) /\ ModelOK(v) /\ Sends(v, "activities", u.activities.id)
    <2>1. /\ Alters(w, v, {"cmds"}) /\ ModelOK(v)
          /\ \A k \in DOMAIN <<c>> : Sends(v, <<c>>[k].what, <<c>>[k].id)
      BY <1>4, <1>6, EmitOK
    <2> QED
      BY <1>6, <2>1
  <1>8. Alters(u, v, {"activities", "cmds"}) /\ v.activities = w.activities
    BY <1>7 DEF Alters, Fields
  <1>9. Stays(u, v)
    BY <1>8, DataStays DEF DataFields
  <1>10. Again(u, v)
    <2>1. \A k \in ListKeys : v[FieldOf(k)] = u[FieldOf(k)]
      BY <1>8 DEF ListKeys, FieldOf, Alters, Fields
    <2>2. v.detail = u.detail
      BY <1>8 DEF Alters, Fields
    <2>3. Asks(u, v)
      BY <1>7, <1>8 DEF Asks
    <2> QED
      BY <1>9, <2>1, <2>2, <2>3 DEF Again, Stays
  <1> QED
    BY <1>7, <1>9, <1>10

LEMMA ListAgain ==
    ASSUME NEW u, ModelOK(u), NEW k \in ListKeys, NEW w, w = [u EXCEPT ![FieldOf(k)] = Loading],
           NEW c \in UiCommands, c.what = k, c.id = NoId, NEW v, v = Emit(w, <<c>>)
    PROVE  ModelOK(v) /\ Stays(u, v) /\ Again(u, v)
  <1>1. PICK f \in {"ticketList", "flowList", "workerList"} : f = FieldOf(k)
    BY DEF ListKeys, FieldOf
  <1>2. Alters(u, v, {f, "cmds"}) /\ ModelOK(v) /\ Sends(v, k, NoId)
    BY <1>1, ListFetched
  <1>3. Stays(u, v)
    BY <1>2, DataStays DEF DataFields
  <1>4. Again(u, v)
    <2>1. \A x \in ListKeys : FieldOf(x) \in Fields /\ FieldOf(x) # "cmds" /\ (FieldOf(x) = f => x = k)
      BY <1>1 DEF ListKeys, FieldOf, Fields
    <2>2. ASSUME NEW x \in ListKeys PROVE v[FieldOf(x)] = u[FieldOf(x)] \/ Sends(v, x, NoId)
      BY <1>2, <2>1 DEF Alters
    <2>3. v.detail = u.detail /\ v.activities = u.activities
      BY <1>2 DEF Alters, Fields
    <2> QED
      BY <1>3, <2>2, <2>3 DEF Again, Stays, Asks
  <1> QED
    BY <1>2, <1>3, <1>4

LEMMA KillAgain ==
    ASSUME NEW u, ModelOK(u), IsLoaded(u.workerList), NEW i \in Ids, NEW w, w = [u EXCEPT !.workerList.data = @ \ {i}],
           NEW v, v = Emit(w, <<Fetch("stop", i, 0)>>)
    PROVE  ModelOK(v) /\ Stays(u, v) /\ Again(u, v)
  <1>1. IsModel(u) /\ u.workerList \in Load(SUBSET Ids)
    BY DEF ModelOK, NavTyped, DataTyped
  <1>2. PICK S \in SUBSET Ids : u.workerList = Loaded(S) /\ u.workerList.data = S
    BY <1>1, LoadTyped
  <1>3. PICK l : l = [u.workerList EXCEPT !.data = @ \ {i}]
    OBVIOUS
  <1>4. l = Loaded(S \ {i})
    BY <1>2, <1>3 DEF Loaded
  <1>5. l \in Load(SUBSET Ids)
    <2>1. S \ {i} \in SUBSET Ids
      OBVIOUS
    <2> QED
      BY <1>4, <2>1, LoadTyped
  <1>6. Alters(u, w, {"workerList"}) /\ w.workerList = l /\ w.cmds = u.cmds
    BY <1>1, <1>3 DEF IsModel, Alters, Fields
  <1>7. ModelOK(w)
    <2>1. NavTyped(w)
      BY <1>6, NavSame DEF ModelOK
    <2>2. DataTyped(w)
      BY <1>5, <1>6 DEF ModelOK, DataTyped, Alters, Fields
    <2> QED
      BY <1>6, <2>1, <2>2 DEF ModelOK
  <1>8. PICK c \in UiCommands : c = Fetch("stop", i, 0) /\ c.what = "stop" /\ c.id = i
    BY FetchTyped DEF IdsN
  <1>9. <<c>> \in Seq(UiCommands) /\ 1 \in DOMAIN <<c>> /\ <<c>>[1] = c
    OBVIOUS
  <1>10. Alters(w, v, {"cmds"}) /\ ModelOK(v) /\ Sends(v, "stop", i)
    BY <1>7, <1>8, <1>9, EmitOK
  <1>11. Alters(u, v, {"workerList", "cmds"})
    BY <1>6, <1>10 DEF Alters, Fields
  <1>12. Stays(u, v)
    BY <1>11, DataStays DEF DataFields
  <1>13. Again(u, v)
    <2>1. \A k \in ListKeys : k = "workers" \/ v[FieldOf(k)] = u[FieldOf(k)]
      BY <1>11 DEF ListKeys, FieldOf, Alters, Fields
    <2>2. v.detail = u.detail /\ v.activities = u.activities
      BY <1>11 DEF Alters, Fields
    <2> QED
      BY <1>10, <1>12, <2>1, <2>2 DEF Again, Stays, Asks
  <1> QED
    BY <1>10, <1>12, <1>13

LEMMA FlowPageAgain ==
    ASSUME NEW u, ModelOK(u), NEW n \in Nat, NEW v, v = [u EXCEPT !.flowPage = n]
    PROVE  ModelOK(v) /\ Stays(u, v) /\ Again(u, v)
  <1>1. Alters(u, v, {"flowPage"}) /\ v.flowPage = n
    BY DEF ModelOK, NavTyped, IsModel, Alters, Fields
  <1>2. NavTyped(v)
    BY <1>1, NavSame DEF ModelOK
  <1>3. DataTyped(v)
    BY <1>1 DEF ModelOK, DataTyped, Alters, Fields
  <1>4. Stays(u, v)
    BY <1>1, DataStays DEF DataFields
  <1>5. /\ \A k \in ListKeys : v[FieldOf(k)] = u[FieldOf(k)]
        /\ v.detail = u.detail /\ v.activities = u.activities /\ v.cmds = u.cmds
    BY <1>1 DEF ListKeys, FieldOf, Alters, Fields
  <1> QED
    BY <1>2, <1>3, <1>4, <1>5 DEF ModelOK, Again, Stays, Asks

LEMMA OverlayAgain ==
    ASSUME NEW u, ModelOK(u), NEW o \in Overlays, NEW v, v = [u EXCEPT !.overlay = o]
    PROVE  /\ ModelOK(v) /\ Again(u, v) /\ v.handlers = u.handlers /\ v.changed = u.changed /\ v.known = u.known
           /\ v.overlay = o /\ v.cmds = u.cmds
  <1>1. Alters(u, v, {"overlay"}) /\ v.overlay = o
    BY DEF ModelOK, NavTyped, IsModel, Alters, Fields
  <1>2. NavTyped(v)
    BY <1>1 DEF ModelOK, NavTyped, Alters, Fields
  <1>3. DataTyped(v)
    BY <1>1 DEF ModelOK, DataTyped, Alters, Fields
  <1>4. /\ v.tab = u.tab /\ v.stacks = u.stacks /\ v.handlers = u.handlers
        /\ v.dirty = u.dirty /\ v.changed = u.changed /\ v.known = u.known
    BY <1>1 DEF Alters, Fields
  <1>5. /\ \A k \in ListKeys : v[FieldOf(k)] = u[FieldOf(k)]
        /\ v.detail = u.detail /\ v.activities = u.activities /\ v.cmds = u.cmds
    BY <1>1 DEF ListKeys, FieldOf, Alters, Fields
  <1> QED
    BY <1>1, <1>2, <1>3, <1>4, <1>5 DEF ModelOK, Again, Asks

LEMMA KeyStep ==
    ASSUME UiInv, NEW v, Key(v), ModelOK(v),
           \A rs2 : Follows(BagToSet(requests), {}, v.cmds, server, rs2) =>
                        InvOf(v, rs2, server, events, excused, newest, unnoticed, written, discarded, dropped, made)
    PROVE  UiInv'
  <1>1. /\ server' = server /\ events' = events /\ excused' = excused /\ newest' = newest /\ unnoticed' = unnoticed
        /\ written' = written /\ discarded' = discarded /\ dropped' = dropped /\ made' = made
        /\ Runs(SetToBag({}), v)
    BY DEF Key, observers, EmptyBag
  <1>2. \A rs2 : Follows(BagToSet(requests), {}, v.cmds, server', rs2) =>
                     InvOf(v, rs2, server', events', excused', newest', unnoticed', written', discarded', dropped', made')
    BY <1>1
  <1> QED
    BY <1>1, <1>2, Ran

LEMMA MovedStep ==
    ASSUME UiInv, NEW v, PageKey(v), Moved(ui, v)
    PROVE  UiInv'
  <1>1. Key(v) /\ ui.overlay = NoOverlay /\ ModelOK(v)
    BY DEF PageKey, Moved
  <1>2. ui.overlay.kind # "goto"
    BY <1>1 DEF NoOverlay
  <1>3. InvOf(ui, BagToSet(requests), server, events, excused, newest, unnoticed, written, discarded, dropped, made)
    BY DEF UiInv
  <1>4. ASSUME NEW rs2, Follows(BagToSet(requests), {}, v.cmds, server, rs2)
        PROVE  InvOf(v, rs2, server, events, excused, newest, unnoticed, written, discarded, dropped, made)
    BY <1>2, <1>3, <1>4, KeyMoved
  <1> QED
    BY <1>1, <1>4, KeyStep

LEMMA AgainStep ==
    ASSUME UiInv, NEW v, PageKey(v), ModelOK(v), Stays(ui, v), Again(ui, v)
    PROVE  UiInv'
  <1>1. Key(v) /\ ui.overlay = NoOverlay
    BY DEF PageKey
  <1>2. InvOf(ui, BagToSet(requests), server, events, excused, newest, unnoticed, written, discarded, dropped, made)
    BY DEF UiInv
  <1>3. v.handlers = ui.handlers /\ v.changed = ui.changed /\ v.known = ui.known /\ v.overlay = ui.overlay /\ GotoOK(v)
    BY <1>2 DEF Stays, GotoOK, InvOf
  <1>4. ASSUME NEW rs2, Follows(BagToSet(requests), {}, v.cmds, server, rs2)
        PROVE  InvOf(v, rs2, server, events, excused, newest, unnoticed, written, discarded, dropped, made)
    BY <1>2, <1>3, <1>4, KeyAgain
  <1> QED
    BY <1>1, <1>4, KeyStep

LEMMA UiFacts ==
    ASSUME UiInv
    PROVE  /\ ModelOK(ui) /\ NavOK(ui) /\ ui.cmds = <<>> /\ GotoOK(ui)
           /\ NavTyped(ui) /\ DataTyped(ui) /\ IsModel(ui)
           /\ InvOf(ui, BagToSet(requests), server, events, excused, newest, unnoticed, written, discarded, dropped, made)
  <1>1. InvOf(ui, BagToSet(requests), server, events, excused, newest, unnoticed, written, discarded, dropped, made) /\ ui.cmds = <<>>
    BY DEF UiInv
  <1> QED
    BY <1>1 DEF InvOf, TypedAll, ModelOK, NavTyped

\* The page of the help is on no other tab.
LEMMA HelpAlone ==
    ASSUME NEW u, NavTyped(u), StacksOK(u), u.tab = "Help"
    PROVE  CurrentPage(u).kind = "HelpPage"
  <1>1. CurrentPage(u) = u.stacks["Help"][1]
    BY CurrentTyped DEF StacksOK
  <1> QED
    BY <1>1, TabsTyped DEF StacksOK, RootPage, Page

LEMMA TabKeyStep ==
    ASSUME UiInv, NEW tab \in Tabs, TabKey(tab) \/ (tab = NextTab(ui.tab) /\ TabNext)
    PROVE  UiInv'
  <1>1. PICK v : v = SwitchTab(ui, tab)
    OBVIOUS
  <1>2. PageKey(v)
    BY <1>1 DEF TabKey, TabNext
  <1>3. Moved(ui, v)
    BY <1>1, UiFacts, MovedTab
  <1> QED
    BY <1>2, <1>3, MovedStep

LEMMA NextTabTyped ==
    ASSUME NEW tab \in Tabs
    PROVE  NextTab(tab) \in Tabs
  <1>1. \E k \in 1..4 : TabIds[k] = tab
    BY TabsTyped DEF TabIds
  <1>2. PICK n \in 1..4 : n = (CHOOSE k \in 1..4 : TabIds[k] = tab)
    BY <1>1
  <1>3. (n % 4) + 1 \in 1..4
    <2>1. n % 4 \in 0..3
      OBVIOUS
    <2> QED
      BY <2>1
  <1>4. \A k \in 1..4 : TabIds[k] \in Tabs
    BY TabsTyped DEF TabIds
  <1>5. NextTab(tab) = TabIds[(n % 4) + 1]
    BY <1>2 DEF NextTab
  <1> QED
    BY <1>3, <1>4, <1>5

LEMMA BackStep ==
    ASSUME UiInv, Back
    PROVE  UiInv'
  <1>1. PICK v : v = Pop(ui)
    OBVIOUS
  <1>2. PageKey(v)
    BY <1>1 DEF Back
  <1>3. CASE Len(ui.stacks[ui.tab]) > 1
    <2>1. Moved(ui, v)
      BY <1>1, <1>3, UiFacts, MovedPop
    <2> QED
      BY <1>2, <2>1, MovedStep
  <1>4. CASE ~(Len(ui.stacks[ui.tab]) > 1)
    <2>1. Len(ui.stacks[ui.tab]) \in Nat
      BY UiFacts DEF NavTyped
    <2>2. v = ui
      BY <1>1, <1>4, <2>1 DEF Pop
    <2>3. ModelOK(v) /\ Stays(ui, v) /\ Again(ui, v)
      BY <2>2, UiFacts DEF Stays, Again, Asks
    <2> QED
      BY <1>2, <2>3, AgainStep
  <1> QED
    BY <1>3, <1>4

LEMMA PushStep ==
    ASSUME UiInv, NEW kind \in Inner, NEW id \in IdsN, PageKey(Push(ui, Page(kind, id))), CurrentPage(ui).kind # "HelpPage"
    PROVE  UiInv'
  <1>1. PICK page \in Pages : page = Page(kind, id) /\ page.kind \in Inner
    BY PagesTyped DEF Inner, Kind
  <1>2. PICK v : v = Push(ui, page)
    OBVIOUS
  <1>3. PageKey(v)
    BY <1>1, <1>2
  <1>4. ui.tab # "Help"
    BY UiFacts, HelpAlone DEF NavOK
  <1>5. Moved(ui, v)
    BY <1>1, <1>2, <1>4, UiFacts, MovedPush
  <1> QED
    BY <1>3, <1>5, MovedStep

LEMMA AuthorAgain ==
    ASSUME NEW u, ModelOK(u), NEW author \in {0, 1}, NEW w,
           \/ w = [u EXCEPT !.activities.author = author, !.activities.data = Loading]
           \/ w = [u EXCEPT !.activities.data = Loading],
           NEW v, v = Emit(w, <<Fetch("activities", u.activities.id, author)>>)
    PROVE  ModelOK(v) /\ Stays(u, v) /\ Again(u, v)
  <1>1. PICK act : act = u.activities
    OBVIOUS
  <1>2. act \in [id : IdsN, data : Load(ActivityData), authors : BOOLEAN, author : {0, 1}] /\ IsModel(u)
    BY <1>1 DEF ModelOK, DataTyped, NavTyped
  <1>3. Loading \in Load(ActivityData)
    BY LoadTyped
  <1>4. /\ Alters(u, w, {"activities"})
        /\ \/ w.activities = [act EXCEPT !.author = author, !.data = Loading]
           \/ w.activities = [act EXCEPT !.data = Loading]
    BY <1>1, <1>2 DEF IsModel, Alters, Fields
  <1>5. /\ w.activities \in [id : IdsN, data : Load(ActivityData), authors : BOOLEAN, author : {0, 1}]
        /\ w.activities.id = u.activities.id /\ w.activities.data = Loading
    BY <1>1, <1>2, <1>3, <1>4
  <1>6. PICK c \in UiCommands : c = Fetch("activities", u.activities.id, author) /\ c.what = "activities" /\ c.id = u.activities.id
    BY <1>1, <1>2, FetchTyped
  <1>7. v = Emit(w, <<c>>)
    BY <1>6
  <1> QED
    BY <1>4, <1>5, <1>6, <1>7, ActivitiesAgain

LEMMA RefreshStep ==
    ASSUME UiInv, Refresh
    PROVE  UiInv'
  <1>1. PICK v : v = Refreshed(ui)
    OBVIOUS
  <1>2. PageKey(v) /\ v # ui
    BY <1>1 DEF Refresh
  <1>3. SUFFICES ModelOK(v) /\ Stays(ui, v) /\ Again(ui, v)
    BY <1>2, AgainStep
  <1>4. PICK kind : kind = CurrentPage(ui).kind
    OBVIOUS
  <1>5. CASE "activities" \in Captures
    <2>1. PICK a \in {0, 1} : a = ui.activities.author
      BY UiFacts DEF DataTyped
    <2>2. v = Emit([ui EXCEPT !.activities.data = Loading], <<Fetch("activities", ui.activities.id, a)>>)
      BY <1>1, <1>2, <1>5, <2>1 DEF Refreshed
    <2>3. PICK w : w = [ui EXCEPT !.activities.data = Loading]
      OBVIOUS
    <2>4. v = Emit(w, <<Fetch("activities", ui.activities.id, a)>>)
      BY <2>2, <2>3
    <2> QED
      BY <2>3, <2>4, UiFacts, AuthorAgain
  <1>6. CASE "activities" \notin Captures /\ kind = "TicketList"
    <2>1. PICK w : w = [ui EXCEPT ![FieldOf("tickets")] = Loading]
      OBVIOUS
    <2>2. FieldOf("tickets") = "ticketList" /\ "tickets" \in ListKeys
      BY DEF FieldOf, ListKeys
    <2>3. v = Emit(w, <<FetchTickets>>)
      BY <1>1, <1>4, <1>6, <2>1, <2>2 DEF Refreshed
    <2> QED
      BY <2>1, <2>2, <2>3, UiFacts, ListAgain, FetchTyped
  <1>7. CASE "activities" \notin Captures /\ kind = "TicketDetail"
    <2>1. PICK w : w = [ui EXCEPT !.detail.data = Loading]
      OBVIOUS
    <2>2. v = Emit(w, DetailFetches(ui))
      BY <1>1, <1>4, <1>7, <2>1 DEF Refreshed
    <2> QED
      BY <2>1, <2>2, UiFacts, RefreshDetailAgain
  <1>8. CASE "activities" \notin Captures /\ kind = "FlowList"
    <2>1. PICK w : w = [ui EXCEPT ![FieldOf("flows")] = Loading]
      OBVIOUS
    <2>2. FieldOf("flows") = "flowList" /\ "flows" \in ListKeys
      BY DEF FieldOf, ListKeys
    <2>3. ui.flowPage + 1 \in Nat
      BY UiFacts DEF DataTyped
    <2>4. PICK c \in UiCommands : c = FlowPageFetch(ui) /\ c.what = "flows" /\ c.id = NoId
      BY <2>3, FetchTyped DEF FlowPageFetch
    <2>5. v = Emit(w, <<c>>)
      BY <1>1, <1>4, <1>8, <2>1, <2>2, <2>4 DEF Refreshed
    <2> QED
      BY <2>1, <2>2, <2>4, <2>5, UiFacts, ListAgain
  <1>9. CASE "activities" \notin Captures /\ kind = "WorkerList"
    <2>1. PICK w : w = [ui EXCEPT ![FieldOf("workers")] = Loading]
      OBVIOUS
    <2>2. FieldOf("workers") = "workerList" /\ "workers" \in ListKeys
      BY DEF FieldOf, ListKeys
    <2>3. v = Emit(w, <<FetchWorkers>>)
      BY <1>1, <1>4, <1>9, <2>1, <2>2 DEF Refreshed
    <2> QED
      BY <2>1, <2>2, <2>3, UiFacts, ListAgain, FetchTyped
  <1>10. CASE "activities" \notin Captures /\ kind \notin {"TicketList", "TicketDetail", "FlowList", "WorkerList"}
    <2>1. v = ui
      BY <1>1, <1>4, <1>10 DEF Refreshed
    <2> QED
      BY <1>2, <2>1
  <1> QED
    BY <1>5, <1>6, <1>7, <1>8, <1>9, <1>10

LEMMA CycleFilterStep ==
    ASSUME UiInv, CycleFilter
    PROVE  UiInv'
  <1>1. PICK a \in {0, 1} : a = 1 - ui.activities.author
    <2>1. ui.activities.author \in {0, 1}
      BY UiFacts DEF DataTyped
    <2> QED
      BY <2>1
  <1>2. PICK w : w = [ui EXCEPT !.activities.author = a, !.activities.data = Loading]
    OBVIOUS
  <1>3. PICK v : v = Emit(w, <<Fetch("activities", ui.activities.id, a)>>)
    OBVIOUS
  <1>4. PageKey(v)
    BY <1>1, <1>2, <1>3 DEF CycleFilter
  <1>5. ModelOK(v) /\ Stays(ui, v) /\ Again(ui, v)
    BY <1>2, <1>3, UiFacts, AuthorAgain
  <1> QED
    BY <1>4, <1>5, AgainStep

LEMMA ToggleClosedStep ==
    ASSUME UiInv, ToggleClosed
    PROVE  UiInv'
  <1>1. PICK w : w = [ui EXCEPT !.detail.closed = ~@, !.detail.data = Loading]
    OBVIOUS
  <1>2. PICK v : v = Emit(w, DetailFetches(w))
    OBVIOUS
  <1>3. PageKey(v)
    BY <1>1, <1>2 DEF ToggleClosed
  <1>4. ModelOK(v) /\ Stays(ui, v) /\ Again(ui, v)
    BY <1>1, <1>2, UiFacts, ToggleClosedAgain
  <1> QED
    BY <1>3, <1>4, AgainStep

LEMMA TurnFlowPageStep ==
    ASSUME UiInv, NEW page \in 0..Workflows, TurnFlowPage(page)
    PROVE  UiInv'
  <1>1. page \in Nat
    BY UruiAssumption
  <1>2. PICK v : v = [ui EXCEPT !.flowPage = page]
    OBVIOUS
  <1>3. PageKey(v)
    BY <1>2 DEF TurnFlowPage
  <1>4. ModelOK(v) /\ Stays(ui, v) /\ Again(ui, v)
    BY <1>1, <1>2, UiFacts, FlowPageAgain
  <1> QED
    BY <1>3, <1>4, AgainStep

LEMMA KillWorkerStep ==
    ASSUME UiInv, NEW i \in Ids, KillWorker(i)
    PROVE  UiInv'
  <1>1. PICK w : w = [ui EXCEPT !.workerList.data = @ \ {i}]
    OBVIOUS
  <1>2. PICK v : v = Emit(w, <<Fetch("stop", i, 0)>>)
    OBVIOUS
  <1>3. PageKey(v) /\ IsLoaded(ui.workerList)
    BY <1>1, <1>2 DEF KillWorker
  <1>4. ModelOK(v) /\ Stays(ui, v) /\ Again(ui, v)
    BY <1>1, <1>2, <1>3, UiFacts, KillAgain
  <1> QED
    BY <1>3, <1>4, AgainStep

LEMMA OpenPageStep ==
    ASSUME UiInv, NEW i \in Ids, SelectTicket(i) \/ SelectChild(i) \/ SelectFlow(i)
    PROVE  UiInv'
  <1>1. i \in IdsN
    BY DEF IdsN
  <1>2. CASE SelectTicket(i) \/ SelectChild(i)
    <2>1. CurrentPage(ui).kind # "HelpPage" /\ PageKey(Push(ui, Page("TicketDetail", i)))
      BY <1>2 DEF SelectTicket, SelectChild
    <2>2. "TicketDetail" \in Inner
      BY DEF Inner
    <2> QED
      BY <1>1, <2>1, <2>2, PushStep
  <1>3. CASE SelectFlow(i)
    <2>1. CurrentPage(ui).kind # "HelpPage" /\ PageKey(Push(ui, Page("FlowDetail", i)))
      BY <1>3 DEF SelectFlow
    <2>2. "FlowDetail" \in Inner
      BY DEF Inner
    <2> QED
      BY <1>1, <2>1, <2>2, PushStep
  <1> QED
    BY <1>2, <1>3

LEMMA OpenTicketPageStep ==
    ASSUME UiInv, NEW kind \in {"TicketActivities", "TicketBody"}, OpenTicketPage(kind)
    PROVE  UiInv'
  <1>1. PICK id : id = ui.detail.data.data.id
    OBVIOUS
  <1>2. CurrentPage(ui).kind # "HelpPage" /\ PageKey(Push(ui, Page(kind, id)))
    BY <1>1 DEF OpenTicketPage
  <1>3. id \in IdsN
    <2>1. ui.detail.data \in Load(DetailData) /\ IsLoaded(ui.detail.data)
      BY UiFacts DEF DataTyped, OpenTicketPage
    <2>2. ui.detail.data.data \in DetailData
      BY <2>1, LoadTyped
    <2> QED
      BY <1>1, <2>2 DEF DetailData
  <1>4. kind \in Inner
    BY DEF Inner
  <1> QED
    BY <1>2, <1>3, <1>4, PushStep

LEMMA OpenGotoStep ==
    ASSUME UiInv, NEW i \in Ids, OpenGoto(i)
    PROVE  UiInv'
  <1>1. PICK o : o = [kind |-> "goto", id |-> i]
    OBVIOUS
  <1>2. o \in Overlays /\ o.kind = "goto"
    BY <1>1 DEF Overlays, IdsN
  <1>3. PICK v : v = [ui EXCEPT !.overlay = o]
    OBVIOUS
  <1>4. Key(v) /\ ui.overlay = NoOverlay /\ i \in GotoIds
    BY <1>1, <1>3 DEF OpenGoto, PageKey
  <1>5. ui.overlay.kind # "create"
    BY <1>4 DEF NoOverlay
  <1>6. /\ ModelOK(v) /\ Again(ui, v) /\ v.handlers = ui.handlers /\ v.changed = ui.changed /\ v.known = ui.known
    BY <1>2, <1>3, UiFacts, OverlayAgain
  <1>7. GotoOK(v)
    <2>1. CurrentPage(ui).kind # "HelpPage"
      <3>1. SUFFICES ASSUME CurrentPage(ui).kind = "HelpPage" PROVE FALSE
        OBVIOUS
      <3>2. GotoIds = {}
        BY <3>1 DEF GotoIds
      <3> QED
        BY <1>4, <3>2
    <2>2. ui.tab # "Help"
      BY <2>1, UiFacts, HelpAlone DEF NavOK
    <2> QED
      BY <1>6, <2>2 DEF GotoOK, Again
  <1>8. ASSUME NEW rs2, Follows(BagToSet(requests), {}, v.cmds, server, rs2)
        PROVE  InvOf(v, rs2, server, events, excused, newest, unnoticed, written, discarded, dropped, made)
    BY <1>5, <1>6, <1>7, <1>8, UiFacts, KeyAgain
  <1> QED
    BY <1>4, <1>6, <1>8, KeyStep

\* The menu of the goto is closed.
LEMMA GotoClosed ==
    ASSUME UiInv, ui.overlay.kind = "goto", NEW v, v = [ui EXCEPT !.overlay = NoOverlay], NEW rs2,
           Follows(BagToSet(requests), {}, v.cmds, server, rs2)
    PROVE  /\ InvOf(v, rs2, server, events, excused, newest, unnoticed, written, discarded, dropped, made)
           /\ v.overlay = NoOverlay /\ v.tab = ui.tab /\ v.cmds = <<>>
  <1>1. NoOverlay \in Overlays /\ NoOverlay.kind # "goto"
    BY DEF NoOverlay, Overlays
  <1>2. /\ ModelOK(v) /\ Again(ui, v) /\ v.handlers = ui.handlers /\ v.changed = ui.changed /\ v.known = ui.known
        /\ v.overlay = NoOverlay /\ v.cmds = ui.cmds
    BY <1>1, UiFacts, OverlayAgain
  <1>3. GotoOK(v)
    BY <1>1, <1>2 DEF GotoOK
  <1>4. InvOf(v, rs2, server, events, excused, newest, unnoticed, written, discarded, dropped, made)
    BY <1>2, <1>3, UiFacts, KeyAgain
  <1> QED
    BY <1>2, <1>4, UiFacts DEF Again

LEMMA CancelGotoStep ==
    ASSUME UiInv, CancelGoto
    PROVE  UiInv'
  <1>1. PICK v : v = [ui EXCEPT !.overlay = NoOverlay]
    OBVIOUS
  <1>2. Key(v) /\ ui.overlay.kind = "goto"
    BY <1>1 DEF CancelGoto
  <1>3. ASSUME NEW rs2, Follows(BagToSet(requests), {}, v.cmds, server, rs2)
        PROVE  InvOf(v, rs2, server, events, excused, newest, unnoticed, written, discarded, dropped, made)
    BY <1>1, <1>2, <1>3, GotoClosed
  <1>4. ModelOK(v)
    BY <1>1, UiFacts, OverlayAgain DEF NoOverlay, Overlays
  <1> QED
    BY <1>2, <1>3, <1>4, KeyStep

LEMMA SelectGotoStep ==
    ASSUME UiInv, NEW screen \in {"ticket", "flow", "worker"}, SelectGoto(screen)
    PROVE  UiInv'
  <1>1. PICK w : w = [ui EXCEPT !.overlay = NoOverlay]
    OBVIOUS
  <1>2. PICK i : i = ui.overlay.id
    OBVIOUS
  <1>3. PICK v : v = GotoSelected(w, screen, i)
    OBVIOUS
  <1>4. Key(v) /\ ui.overlay.kind = "goto"
    BY <1>1, <1>2, <1>3 DEF SelectGoto
  <1>5. i \in IdsN
    BY <1>2, <1>4, UiFacts DEF NavTyped, Overlays, NoOverlay
  <1>6. w.cmds = <<>>
    BY <1>1, UiFacts DEF IsModel, Fields
  <1>7. Follows(BagToSet(requests), {}, w.cmds, server, BagToSet(requests))
    BY <1>6 DEF Follows
  <1>8. /\ InvOf(w, BagToSet(requests), server, events, excused, newest, unnoticed, written, discarded, dropped, made)
        /\ w.overlay = NoOverlay /\ w.tab = ui.tab
    BY <1>1, <1>4, <1>7, GotoClosed
  <1>9. ModelOK(w) /\ NavOK(w) /\ w.tab # "Help"
    BY <1>4, <1>8, UiFacts DEF InvOf, TypedAll, GotoOK
  <1>10. Moved(w, v)
    BY <1>3, <1>5, <1>9, MovedGoto
  <1>11. w.overlay.kind # "goto" /\ ModelOK(v)
    BY <1>8, <1>10 DEF NoOverlay, Moved
  <1>12. ASSUME NEW rs2, Follows(BagToSet(requests), {}, v.cmds, server, rs2)
         PROVE  InvOf(v, rs2, server, events, excused, newest, unnoticed, written, discarded, dropped, made)
    BY <1>8, <1>10, <1>11, <1>12, KeyMoved
  <1> QED
    BY <1>4, <1>11, <1>12, KeyStep

LEMMA ComposeStep ==
    ASSUME UiInv, NEW d \in Drafts, Compose(d)
    PROVE  UiInv'
  <1>1. PICK o : o = [kind |-> "create", id |-> d]
    OBVIOUS
  <1>2. o \in Overlays /\ o.kind = "create"
    BY <1>1 DEF Overlays
  <1>3. PICK v : v = [ui EXCEPT !.overlay = o]
    OBVIOUS
  <1>4. /\ Runs(SetToBag({}), v) /\ ui.overlay = NoOverlay
        /\ server' = server /\ events' = events /\ excused' = excused /\ newest' = newest /\ unnoticed' = unnoticed
        /\ written' = written \cup {d} /\ discarded' = discarded /\ dropped' = dropped /\ made' = made
    BY <1>1, <1>3 DEF Compose, EmptyBag
  <1>5. /\ ModelOK(v) /\ Again(ui, v) /\ v.handlers = ui.handlers /\ v.changed = ui.changed /\ v.known = ui.known
        /\ v.overlay = o
    BY <1>2, <1>3, UiFacts, OverlayAgain
  <1>6. GotoOK(v) /\ Ends({}, v)
    BY <1>2, <1>5 DEF GotoOK, Ends
  <1>7. /\ DraftsOK(ui, BagToSet(requests), written, discarded, dropped, made)
        /\ written \subseteq Drafts /\ made \in [Drafts -> Nat]
    BY UiFacts DEF InvOf, TypedAll, ObserversOK
  <1>8. ASSUME NEW rs2, Follows(BagToSet(requests), {}, v.cmds, server, rs2)
        PROVE  InvOf(v, rs2, server, events, excused, newest, unnoticed, written \cup {d}, discarded, dropped, made)
    <2>1. ui.overlay.kind # "create"
      BY <1>4 DEF NoOverlay
    <2>2. DraftsOK(v, rs2, written, discarded, dropped, made)
      BY <1>7, <1>8, <2>1, DraftsKept DEF Follows
    <2>3. DraftsOK(v, rs2, written \cup {d}, discarded, dropped, made)
      BY <1>1, <1>5, <2>2 DEF DraftsOK
    <2>4. written \cup {d} \subseteq Drafts
      BY <1>7
    <2> QED
      BY <1>5, <1>6, <1>7, <1>8, <2>3, <2>4, UiFacts, DraftAgain
  <1>9. \A rs2 : Follows(BagToSet(requests), {}, v.cmds, server', rs2) =>
                     InvOf(v, rs2, server', events', excused', newest', unnoticed', written', discarded', dropped', made')
    BY <1>4, <1>8
  <1> QED
    BY <1>4, <1>5, <1>9, Ran

LEMMA AbandonStep ==
    ASSUME UiInv, Abandon
    PROVE  UiInv'
  <1>1. PICK v : v = [ui EXCEPT !.overlay = NoOverlay]
    OBVIOUS
  <1>2. NoOverlay \in Overlays /\ NoOverlay.kind # "goto"
    BY DEF NoOverlay, Overlays
  <1>3. PICK d : d = ui.overlay.id
    OBVIOUS
  <1>4. /\ Runs(SetToBag({}), v) /\ ui.overlay.kind = "create"
        /\ server' = server /\ events' = events /\ excused' = excused /\ newest' = newest /\ unnoticed' = unnoticed
        /\ written' = written /\ discarded' = discarded \cup {d} /\ dropped' = dropped /\ made' = made
    BY <1>1, <1>3 DEF Abandon, MenuCloses, EmptyBag
  <1>5. /\ ModelOK(v) /\ Again(ui, v) /\ v.handlers = ui.handlers /\ v.changed = ui.changed /\ v.known = ui.known
        /\ v.overlay = NoOverlay
    BY <1>1, <1>2, UiFacts, OverlayAgain
  <1>6. GotoOK(v) /\ Ends({}, v)
    BY <1>2, <1>5 DEF GotoOK, Ends
  <1>7. /\ DraftsOK(ui, BagToSet(requests), written, discarded, dropped, made)
        /\ written \subseteq Drafts /\ made \in [Drafts -> Nat]
    BY UiFacts DEF InvOf, TypedAll, ObserversOK
  <1>8. ASSUME NEW rs2, Follows(BagToSet(requests), {}, v.cmds, server, rs2)
        PROVE  InvOf(v, rs2, server, events, excused, newest, unnoticed, written, discarded \cup {d}, dropped, made)
    <2>1. DraftsOK(v, rs2, written, discarded \cup {d}, dropped, made)
      <3>1. \A r \in BagToSet(requests) : r \in rs2
        BY <1>8 DEF Follows
      <3>2. \A e : ui.overlay = [kind |-> "create", id |-> e] => e = d
        BY <1>3
      <3> QED
        BY <1>7, <3>1, <3>2 DEF DraftsOK
    <2> QED
      BY <1>5, <1>6, <1>7, <1>8, <2>1, UiFacts, DraftAgain
  <1>9. \A rs2 : Follows(BagToSet(requests), {}, v.cmds, server', rs2) =>
                     InvOf(v, rs2, server', events', excused', newest', unnoticed', written', discarded', dropped', made')
    BY <1>4, <1>8
  <1> QED
    BY <1>4, <1>5, <1>9, Ran

LEMMA RefuseLocalStep ==
    ASSUME UiInv, RefuseLocal
    PROVE  UiInv'
  <1>1. PICK v : v = [ui EXCEPT !.overlay = NoOverlay]
    OBVIOUS
  <1>2. NoOverlay \in Overlays /\ NoOverlay.kind # "goto"
    BY DEF NoOverlay, Overlays
  <1>3. PICK d : d = ui.overlay.id
    OBVIOUS
  <1>4. /\ Runs(SetToBag({}), v) /\ ui.overlay.kind = "create"
        /\ server' = server /\ events' = events /\ excused' = excused /\ newest' = newest /\ unnoticed' = unnoticed
        /\ written' = written /\ discarded' = discarded /\ dropped' = dropped \cup {d} /\ made' = made
    BY <1>1, <1>3 DEF RefuseLocal, MenuCloses, EmptyBag
  <1>5. /\ ModelOK(v) /\ Again(ui, v) /\ v.handlers = ui.handlers /\ v.changed = ui.changed /\ v.known = ui.known
        /\ v.overlay = NoOverlay
    BY <1>1, <1>2, UiFacts, OverlayAgain
  <1>6. GotoOK(v) /\ Ends({}, v)
    BY <1>2, <1>5 DEF GotoOK, Ends
  <1>7. /\ DraftsOK(ui, BagToSet(requests), written, discarded, dropped, made)
        /\ written \subseteq Drafts /\ made \in [Drafts -> Nat]
    BY UiFacts DEF InvOf, TypedAll, ObserversOK
  <1>8. ASSUME NEW rs2, Follows(BagToSet(requests), {}, v.cmds, server, rs2)
        PROVE  InvOf(v, rs2, server, events, excused, newest, unnoticed, written, discarded, dropped \cup {d}, made)
    <2>1. DraftsOK(v, rs2, written, discarded, dropped \cup {d}, made)
      <3>1. \A r \in BagToSet(requests) : r \in rs2
        BY <1>8 DEF Follows
      <3>2. \A e : ui.overlay = [kind |-> "create", id |-> e] => e = d
        BY <1>3
      <3> QED
        BY <1>7, <3>1, <3>2 DEF DraftsOK
    <2> QED
      BY <1>5, <1>6, <1>7, <1>8, <2>1, UiFacts, DraftAgain
  <1>9. \A rs2 : Follows(BagToSet(requests), {}, v.cmds, server', rs2) =>
                     InvOf(v, rs2, server', events', excused', newest', unnoticed', written', discarded', dropped', made')
    BY <1>4, <1>8
  <1> QED
    BY <1>4, <1>5, <1>9, Ran

LEMMA EditStep ==
    ASSUME UiInv, Edit
    PROVE  UiInv'
  <1>1. CASE Abandon
    BY <1>1, AbandonStep
  <1>2. CASE ui.overlay.kind = "create" /\ Key(ui)
    <2>1. PICK v : v = ui
      OBVIOUS
    <2>2. /\ Key(v) /\ ModelOK(v) /\ GotoOK(v) /\ Again(ui, v)
          /\ v.handlers = ui.handlers /\ v.changed = ui.changed /\ v.known = ui.known /\ v.overlay = ui.overlay
      BY <1>2, <2>1, UiFacts DEF Again, Asks
    <2>3. ASSUME NEW rs2, Follows(BagToSet(requests), {}, v.cmds, server, rs2)
          PROVE  InvOf(v, rs2, server, events, excused, newest, unnoticed, written, discarded, dropped, made)
      BY <2>2, <2>3, UiFacts, KeyAgain
    <2> QED
      BY <2>2, <2>3, KeyStep
  <1> QED
    BY <1>1, <1>2 DEF Edit

LEMMA CreateStep ==
    ASSUME UiInv, NEW dispatch \in {0, 1}, Create(dispatch)
    PROVE  UiInv'
  <1>1. PICK w : w = [ui EXCEPT !.overlay = NoOverlay]
    OBVIOUS
  <1>2. NoOverlay \in Overlays /\ NoOverlay.kind # "goto"
    BY DEF NoOverlay, Overlays
  <1>3. PICK d : d = ui.overlay.id
    OBVIOUS
  <1>4. ui.overlay.kind = "create"
    BY DEF Create
  <1>5. d \in Drafts
    BY <1>3, <1>4, UiFacts DEF NavTyped, Overlays, NoOverlay
  <1>6. PICK c \in UiCommands : c = Fetch("create", d, dispatch) /\ c.what = "create" /\ c.id = d
    BY <1>5, FetchTyped
  <1>7. PICK v : v = Emit(w, <<c>>)
    OBVIOUS
  <1>8. Key(v)
    BY <1>1, <1>3, <1>6, <1>7 DEF Create
  <1>9. /\ ModelOK(w) /\ Again(ui, w) /\ w.handlers = ui.handlers /\ w.changed = ui.changed /\ w.known = ui.known
        /\ w.overlay = NoOverlay
    BY <1>1, <1>2, UiFacts, OverlayAgain
  <1>10. <<c>> \in Seq(UiCommands) /\ 1 \in DOMAIN <<c>> /\ <<c>>[1] = c
    OBVIOUS
  <1>11. Alters(w, v, {"cmds"}) /\ ModelOK(v) /\ Grows(w, v) /\ Sends(v, "create", d)
    BY <1>6, <1>7, <1>9, <1>10, EmitOK
  <1>12. v.overlay = NoOverlay /\ v.handlers = ui.handlers /\ v.changed = ui.changed /\ v.known = ui.known
    BY <1>9, <1>11 DEF Alters, Fields
  <1>13. Again(ui, v)
    <2>1. \A what, id : Sends(w, what, id) => Sends(v, what, id)
      BY <1>11 DEF Grows, Sends
    <2>2. /\ \A k \in ListKeys : v[FieldOf(k)] = w[FieldOf(k)]
          /\ v.detail = w.detail /\ v.activities = w.activities /\ v.tab = w.tab /\ v.stacks = w.stacks /\ v.dirty = w.dirty
      BY <1>11 DEF ListKeys, FieldOf, Alters, Fields
    <2> QED
      BY <1>9, <2>1, <2>2 DEF Again, Asks
  <1>14. GotoOK(v) /\ Ends({}, v)
    BY <1>2, <1>12 DEF GotoOK, Ends
  <1>15. /\ DraftsOK(ui, BagToSet(requests), written, discarded, dropped, made)
         /\ written \subseteq Drafts /\ made \in [Drafts -> Nat]
    BY UiFacts DEF InvOf, TypedAll, ObserversOK
  <1>16. ASSUME NEW rs2, Follows(BagToSet(requests), {}, v.cmds, server, rs2)
         PROVE  InvOf(v, rs2, server, events, excused, newest, unnoticed, written, discarded, dropped, made)
    <2>1. DraftsOK(v, rs2, written, discarded, dropped, made)
      <3>1. \A r \in BagToSet(requests) : r \in rs2
        BY <1>16 DEF Follows
      <3>2. Launched(v, server, rs2)
        BY <1>16 DEF Follows, Launched
      <3>3. Asked("create", d, server, rs2)
        BY <1>11, <3>2, SentAsked
      <3>4. \E r \in rs2 : r.cmd.what = "create" /\ r.cmd.id = d
        BY <3>3 DEF Asked
      <3>5. \A e : ui.overlay = [kind |-> "create", id |-> e] => e = d
        BY <1>3
      <3> QED
        BY <1>15, <3>1, <3>4, <3>5 DEF DraftsOK
    <2> QED
      BY <1>11, <1>12, <1>13, <1>14, <1>15, <1>16, <2>1, UiFacts, DraftAgain
  <1> QED
    BY <1>8, <1>11, <1>16, KeyStep

-----------------------------------------------------------------------------
(* The server changes *)

\* A change of the server comes with its event e.
Shown(s, s2, e) ==
    /\ ServerOK(s2) /\ Later(s, s2) /\ e \in EventSet
    /\ \A k \in ListKeys : Alike(k, s, s2) \/ e.type = EventOf(k)
    /\ s2.tickets = s.tickets \/ e.type = "ticket"

LEMMA ServerMoves ==
    ASSUME NEW u, NEW rs, NEW s, NEW es, NEW ex, NEW nw, NEW un, NEW wr, NEW di, NEW re, NEW ma,
           InvOf(u, rs, s, es, ex, nw, un, wr, di, re, ma),
           NEW s2, NEW e, Shown(s, s2, e), NEW es2, es2 = es \cup {e},
           NEW un2, un2 \in SUBSET Ids, \A i \in un2 : StallKnown(i, u, rs, s2, es2)
    PROVE  InvOf(u, rs, s2, es2, ex, nw, un2, wr, di, re, ma)
  <1>1. /\ ModelOK(u) /\ ServerOK(s) /\ RequestsOK(rs, s) /\ es \subseteq EventSet
        /\ ObserversOK(s, ex, nw, un, wr, ma) /\ FreshAll(u, rs, s, es, ex, nw)
        /\ StallsOK(u, rs, s, es, un) /\ NavOK(u) /\ GotoOK(u) /\ DraftsOK(u, rs, wr, di, re, ma)
    BY DEF InvOf, TypedAll
  <1>0. /\ ServerOK(s2) /\ Later(s, s2) /\ e \in EventSet /\ es2 \subseteq EventSet
        /\ \A k \in ListKeys : Alike(k, s, s2) \/ e.type = EventOf(k)
        /\ s2.tickets = s.tickets \/ e.type = "ticket"
    BY <1>1 DEF Shown
  <1>2. RequestsOK(rs, s2)
    <2>1. PICK none : none = <<>>
      OBVIOUS
    <2>2. none \in Seq(UiCommands) /\ DOMAIN none = {}
      BY <2>1
    <2>3. Follows(rs, {}, none, s2, rs)
      BY <2>2 DEF Follows
    <2> QED
      BY <1>0, <1>1, <2>2, <2>3, RequestsStep
  <1>3. ObserversOK(s2, ex, nw, un2, wr, ma)
    <2>1. ASSUME NEW k \in Lists PROVE nw[k] <= Version(s2, k)
      <3>1. k \in Whats
        BY DEF Lists, Whats
      <3>2. Version(s, k) \in Nat /\ Version(s2, k) \in Nat /\ Version(s, k) <= Version(s2, k)
        BY <1>0, <1>1, <3>1, VersionTyped DEF Later
      <3> QED
        BY <1>1, <3>2 DEF ObserversOK
    <2> QED
      BY <1>1, <2>1 DEF ObserversOK
  <1>4. ASSUME NEW k \in ListKeys PROVE ListFresh(k, u, rs, s2, es2, ex, nw)
    <2>1. CASE e.type = EventOf(k)
      BY <2>1 DEF ListFresh
    <2>2. CASE Alike(k, s, s2)
      <3>1. ListFresh(k, u, rs, s, es, ex, nw)
        BY <1>1 DEF FreshAll
      <3> QED
        BY <2>2, <3>1, ListKept
    <2> QED
      BY <1>0, <2>1, <2>2
  <1>5. DetailFresh(u, rs, s2, es2, ex, nw)
    <2>1. DetailFresh(u, rs, s, es, ex, nw)
      BY <1>1 DEF FreshAll
    <2>2. CASE s2.tickets = s.tickets
      BY <2>1, <2>2, DetailKept
    <2>3. CASE e.type = "ticket"
      BY <2>1, <2>3 DEF DetailFresh
    <2> QED
      BY <1>0, <2>2, <2>3
  <1>6. ActivitiesFresh(u, rs, s2, es2, ex, nw)
    <2>1. ActivitiesFresh(u, rs, s, es, ex, nw)
      BY <1>1 DEF FreshAll
    <2>2. CASE s2.tickets = s.tickets
      BY <2>1, <2>2, ActivitiesKept
    <2>3. CASE e.type = "ticket"
      BY <2>1, <2>3 DEF ActivitiesFresh
    <2> QED
      BY <1>0, <2>2, <2>3
  <1>7. StallsOK(u, rs, s2, es2, un2)
    BY <1>1 DEF StallsOK
  <1> QED
    BY <1>0, <1>1, <1>2, <1>3, <1>4, <1>5, <1>6, <1>7 DEF InvOf, TypedAll, FreshAll

LEMMA LaterTyped ==
    ASSUME NEW s, ServerOK(s), NEW s2, s2.tickets >= s.tickets, Len(s2.flows) >= Len(s.flows), Len(s2.workers) >= Len(s.workers)
    PROVE  Later(s, s2)
  BY VersionIs DEF Later, Whats

\* A ticket is made or changed.
LEMMA TicketServer ==
    ASSUME NEW u, NEW rs, NEW s, NEW es, NEW ex, NEW nw, NEW un, NEW wr, NEW di, NEW re, NEW ma,
           InvOf(u, rs, s, es, ex, nw, un, wr, di, re, ma),
           NEW s2, s2 = [tickets |-> s.tickets + 1, flows |-> s.flows, workers |-> s.workers],
           NEW es2, es2 = es \cup {[type |-> "ticket", id |-> NoId]}
    PROVE  InvOf(u, rs, s2, es2, ex, nw, un, wr, di, re, ma)
  <1>1. ServerOK(s) /\ StallsOK(u, rs, s, es, un) /\ un \in SUBSET Ids
    BY DEF InvOf, TypedAll, ObserversOK
  <1>2. s2.tickets = s.tickets + 1 /\ s2.flows = s.flows /\ s2.workers = s.workers /\ s.tickets \in Nat
        /\ s2 = [tickets |-> s2.tickets, flows |-> s2.flows, workers |-> s2.workers]
    BY <1>1 DEF ServerOK
  <1>3. ServerOK(s2)
    BY <1>1, <1>2 DEF ServerOK
  <1>4. Later(s, s2)
    <2>1. s2.tickets >= s.tickets /\ Len(s.flows) \in Nat /\ Len(s.workers) \in Nat
      BY <1>1, <1>2 DEF ServerOK
    <2> QED
      BY <1>1, <1>2, <2>1, LaterTyped
  <1>5. PICK e : e = [type |-> "ticket", id |-> NoId]
    OBVIOUS
  <1>6. e \in EventSet /\ e.type = "ticket"
    BY <1>5 DEF EventSet, IdsN
  <1>7. \A k \in ListKeys : Alike(k, s, s2) \/ e.type = EventOf(k)
    BY <1>2, <1>6, VersionIs DEF ListKeys, Alike, EventOf
  <1>8. \A i \in un : StallKnown(i, u, rs, s2, es2)
    BY <1>1, <1>2 DEF StallsOK, StallKnown
  <1>9. Shown(s, s2, e) /\ es2 = es \cup {e}
    BY <1>3, <1>4, <1>5, <1>6, <1>7 DEF Shown
  <1> QED
    BY <1>1, <1>8, <1>9, ServerMoves

\* A worker starts or stops.
LEMMA WorkerServer ==
    ASSUME NEW u, NEW rs, NEW s, NEW es, NEW ex, NEW nw, NEW un, NEW wr, NEW di, NEW re, NEW ma,
           InvOf(u, rs, s, es, ex, nw, un, wr, di, re, ma),
           NEW W \in SUBSET Ids, NEW s2, s2 = [tickets |-> s.tickets, flows |-> s.flows, workers |-> Append(s.workers, W)], NEW i \in IdsN,
           NEW es2, es2 = es \cup {[type |-> "worker", id |-> i]}
    PROVE  InvOf(u, rs, s2, es2, ex, nw, un, wr, di, re, ma)
  <1>1. ServerOK(s) /\ StallsOK(u, rs, s, es, un) /\ un \in SUBSET Ids
    BY DEF InvOf, TypedAll, ObserversOK
  <1>2. s2.tickets = s.tickets /\ s2.flows = s.flows /\ s2.workers = Append(s.workers, W)
        /\ s2 = [tickets |-> s2.tickets, flows |-> s2.flows, workers |-> s2.workers]
    BY <1>1 DEF ServerOK
  <1>3. s2.workers \in Seq(SUBSET Ids) \ {<<>>} /\ Len(s2.workers) >= Len(s.workers)
    BY <1>1, <1>2 DEF ServerOK
  <1>4. ServerOK(s2)
    BY <1>1, <1>2, <1>3 DEF ServerOK
  <1>5. Later(s, s2)
    <2>1. s2.tickets >= s.tickets /\ Len(s.flows) \in Nat
      BY <1>1, <1>2 DEF ServerOK
    <2> QED
      BY <1>1, <1>2, <1>3, <2>1, LaterTyped
  <1>6. PICK e : e = [type |-> "worker", id |-> i]
    OBVIOUS
  <1>7. e \in EventSet /\ e.type = "worker"
    BY <1>6 DEF EventSet
  <1>8. \A k \in ListKeys : Alike(k, s, s2) \/ e.type = EventOf(k)
    BY <1>2, <1>7, VersionIs DEF ListKeys, Alike, EventOf
  <1>9. \A j \in un : StallKnown(j, u, rs, s2, es2)
    BY <1>1, <1>2 DEF StallsOK, StallKnown
  <1>10. Shown(s, s2, e) /\ es2 = es \cup {e}
    BY <1>2, <1>4, <1>5, <1>6, <1>7, <1>8 DEF Shown
  <1> QED
    BY <1>1, <1>9, <1>10, ServerMoves

\* A workflow stalls or goes on.  The stalls of the others remain to be told.
LEMMA FlowServer ==
    ASSUME NEW u, NEW rs, NEW s, NEW es, NEW ex, NEW nw, NEW un, NEW wr, NEW di, NEW re, NEW ma,
           InvOf(u, rs, s, es, ex, nw, un, wr, di, re, ma),
           NEW i \in Ids, NEW st \in Status, NEW f \in [Ids -> Status], f[i] = st, \A j \in Ids \ {i} : f[j] = Last(s.flows)[j],
           NEW s2, s2 = [tickets |-> s.tickets, flows |-> Append(s.flows, f), workers |-> s.workers],
           NEW es2, es2 = es \cup {[type |-> "workflow", id |-> i]},
           NEW un2 \in SUBSET (un \cup {i}),
           i \in un2 => st = "stalled" /\ u.known[i] = "going"
    PROVE  InvOf(u, rs, s2, es2, ex, nw, un2, wr, di, re, ma)
  <1>1. ServerOK(s) /\ StallsOK(u, rs, s, es, un) /\ un \in SUBSET Ids /\ RequestsOK(rs, s)
    BY DEF InvOf, TypedAll, ObserversOK
  <1>2. PICK F : F = s.flows
    OBVIOUS
  <1>3. F \in Seq([Ids -> Status]) /\ F # <<>>
    BY <1>1, <1>2 DEF ServerOK
  <1>4. PICK n \in Nat : n = Len(F) /\ n >= 1 /\ DOMAIN F = 1..n
    BY <1>3
  <1>5. Last(F) = F[n] /\ F[n] \in [Ids -> Status]
    BY <1>3, <1>4 DEF Last
  <1>6. f \in [Ids -> Status] /\ f[i] = st /\ \A j \in Ids \ {i} : f[j] = F[n][j]
    BY <1>2, <1>5
  <1>7. PICK F2 : F2 = Append(F, f)
    OBVIOUS
  <1>8. F2 \in Seq([Ids -> Status]) /\ F2 # <<>> /\ Len(F2) = n + 1 /\ F2[n + 1] = f /\ \A v \in 1..n : F2[v] = F[v]
    BY <1>3, <1>4, <1>6, <1>7
  <1>9. Last(F2) = f
    BY <1>8 DEF Last
  <1>10. s2.tickets = s.tickets /\ s2.flows = F2 /\ s2.workers = s.workers
         /\ s2 = [tickets |-> s2.tickets, flows |-> s2.flows, workers |-> s2.workers]
    BY <1>1, <1>2, <1>7 DEF ServerOK
  <1>11. ServerOK(s2)
    BY <1>1, <1>8, <1>10 DEF ServerOK
  <1>12. Later(s, s2)
    <2>1. s2.tickets >= s.tickets /\ Len(s.workers) \in Nat
      BY <1>1, <1>10 DEF ServerOK
    <2>2. Len(s2.flows) >= Len(s.flows) /\ Len(s2.workers) >= Len(s.workers)
      BY <1>2, <1>4, <1>8, <1>10, <2>1
    <2> QED
      BY <1>1, <2>1, <2>2, LaterTyped
  <1>13. PICK e : e = [type |-> "workflow", id |-> i]
    OBVIOUS
  <1>14. e \in EventSet /\ e.type = "workflow" /\ e.id = i
    BY <1>13 DEF EventSet
  <1>15. \A k \in ListKeys : Alike(k, s, s2) \/ e.type = EventOf(k)
    BY <1>10, <1>14, VersionIs DEF ListKeys, Alike, EventOf
  <1>16. ASSUME NEW j \in un2 PROVE StallKnown(j, u, rs, s2, es2)
    <2>1. CASE j = i
      BY <1>6, <1>9, <1>10, <1>13, <1>14, <1>16, <2>1 DEF StallKnown
    <2>2. CASE j # i
      <3>1. StallKnown(j, u, rs, s, es) /\ j \in Ids
        BY <1>1, <1>16, <2>2 DEF StallsOK
      <3>2. u.known[j] = "going" /\ F[n][j] = "stalled"
        BY <1>2, <1>5, <3>1 DEF StallKnown
      <3>3. f[j] = "stalled"
        BY <1>6, <2>2, <3>1, <3>2
      <3>4. ASSUME NEW r \in rs, \A v \in r.since..n : F[v][j] = "stalled", Tells(r, j)
            PROVE  \A v \in r.since..(n + 1) : F2[v][j] = "stalled"
        <4>1. r.since \in Nat /\ r.since >= 1
          BY <1>1, <3>4 DEF RequestsOK, Tells
        <4>2. \A v \in r.since..(n + 1) : v = n + 1 \/ (v \in r.since..n /\ v \in 1..n)
          BY <4>1
        <4> QED
          BY <1>8, <3>3, <3>4, <4>2
      <3>5. \/ j \in u.changed
            \/ \E x \in es : x.type = "workflow" /\ x.id = j
            \/ \E r \in rs : Tells(r, j) /\ \A v \in r.since..n : F[v][j] = "stalled"
        BY <1>2, <1>4, <3>1 DEF StallKnown
      <3>6. /\ \A x \in es : x \in es2
            /\ \A r \in rs : Tells(r, j) /\ (\A v \in r.since..n : F[v][j] = "stalled") =>
                   \A v \in r.since..Len(s2.flows) : s2.flows[v][j] = "stalled"
        <4>1. \A x \in es : x \in es2
          OBVIOUS
        <4>2. s2.flows = F2 /\ Len(s2.flows) = n + 1
          BY <1>8, <1>10
        <4> QED
          BY <3>4, <4>1, <4>2, Zenon
      <3>7. Last(s2.flows)[j] = "stalled"
        BY <1>9, <1>10, <3>3
      <3>8. \/ j \in u.changed
            \/ \E x \in es2 : x.type = "workflow" /\ x.id = j
            \/ \E r \in rs : Tells(r, j) /\ \A v \in r.since..Len(s2.flows) : s2.flows[v][j] = "stalled"
        BY <3>5, <3>6
      <3> QED
        BY <3>2, <3>7, <3>8 DEF StallKnown
    <2> QED
      BY <2>1, <2>2
  <1>17. es2 = es \cup {e} /\ un2 \in SUBSET Ids
    BY <1>1, <1>13
  <1>18. Shown(s, s2, e)
    BY <1>10, <1>11, <1>12, <1>14, <1>15 DEF Shown
  <1> QED
    BY <1>16, <1>17, <1>18, ServerMoves

\* A step that leaves the model and the requests alone.
LEMMA Unrun ==
    ASSUME UiInv, ui' = ui, requests' = requests,
           InvOf(ui, BagToSet(requests), server', events', excused', newest', unnoticed', written', discarded', dropped', made')
    PROVE  UiInv'
  <1>1. IsABag(requests) /\ ui.cmds = <<>>
    BY DEF UiInv
  <1> QED
    BY <1>1 DEF UiInv, IsABag, BagToSet

LEMMA ServerFacts ==
    ASSUME UiInv
    PROVE  /\ ServerOK(server) /\ RequestsOK(BagToSet(requests), server)
           /\ server = [tickets |-> server.tickets, flows |-> server.flows, workers |-> server.workers]
           /\ Flows \in [Ids -> Status] /\ RunningWorkers \in SUBSET Ids
           /\ written \subseteq Drafts /\ made \in [Drafts -> Nat] /\ events \subseteq EventSet
           /\ DraftsOK(ui, BagToSet(requests), written, discarded, dropped, made)
  <1>1. /\ ServerOK(server) /\ written \subseteq Drafts /\ made \in [Drafts -> Nat] /\ RequestsOK(BagToSet(requests), server)
        /\ DraftsOK(ui, BagToSet(requests), written, discarded, dropped, made) /\ events \subseteq EventSet
    BY UiFacts DEF InvOf, TypedAll, ObserversOK
  <1>2. Flows \in [Ids -> Status] /\ RunningWorkers \in SUBSET Ids
    BY <1>1 DEF ServerOK, Flows, RunningWorkers, Last
  <1> QED
    BY <1>1, <1>2 DEF ServerOK

LEMMA TicketChangesStep ==
    ASSUME UiInv, TicketChanges
    PROVE  UiInv'
  <1>1. PICK s2 : s2 = server'
    OBVIOUS
  <1>2. PICK es2 : es2 = events'
    OBVIOUS
  <1>3. /\ ui' = ui /\ requests' = requests /\ newest' = newest /\ excused' = excused /\ written' = written
        /\ discarded' = discarded /\ dropped' = dropped /\ made' = made /\ unnoticed' = unnoticed
    BY DEF TicketChanges, Changed
  <1>4. s2 = [tickets |-> server.tickets + 1, flows |-> server.flows, workers |-> server.workers]
    BY <1>1, ServerFacts DEF TicketChanges, ServerBecomes, TicketWritten
  <1>5. es2 = events \cup {[type |-> "ticket", id |-> NoId]}
    BY <1>2 DEF TicketChanges, ServerBecomes
  <1>6. InvOf(ui, BagToSet(requests), s2, es2, excused, newest, unnoticed, written, discarded, dropped, made)
    BY <1>4, <1>5, UiFacts, TicketServer
  <1> QED
    BY <1>1, <1>2, <1>3, <1>6, Unrun

LEMMA WorkerChangesStep ==
    ASSUME UiInv, NEW i \in Changing, WorkerChanges(i)
    PROVE  UiInv'
  <1>1. PICK s2 : s2 = server'
    OBVIOUS
  <1>2. PICK es2 : es2 = events'
    OBVIOUS
  <1>3. /\ ui' = ui /\ requests' = requests /\ newest' = newest /\ excused' = excused /\ written' = written
        /\ discarded' = discarded /\ dropped' = dropped /\ made' = made /\ unnoticed' = unnoticed
    BY DEF WorkerChanges, Changed
  <1>4. i \in Ids /\ i \in IdsN
    BY UruiAssumption DEF Ids, IdsN
  <1>5. PICK W : W = IF i \in RunningWorkers THEN RunningWorkers \ {i} ELSE RunningWorkers \cup {i}
    OBVIOUS
  <1>6. W \in SUBSET Ids
    BY <1>4, <1>5, ServerFacts
  <1>7. s2 = [tickets |-> server.tickets, flows |-> server.flows, workers |-> Append(server.workers, W)]
    BY <1>1, <1>5, ServerFacts DEF WorkerChanges, ServerBecomes, WorkersNow
  <1>8. es2 = events \cup {[type |-> "worker", id |-> i]}
    BY <1>2 DEF WorkerChanges, ServerBecomes
  <1>9. InvOf(ui, BagToSet(requests), s2, es2, excused, newest, unnoticed, written, discarded, dropped, made)
    BY <1>4, <1>6, <1>7, <1>8, UiFacts, WorkerServer
  <1> QED
    BY <1>1, <1>2, <1>3, <1>9, Unrun

LEMMA FlowChangesStep ==
    ASSUME UiInv, NEW i \in Changing, FlowChanges(i)
    PROVE  UiInv'
  <1>1. PICK s2 : s2 = server'
    OBVIOUS
  <1>2. PICK es2 : es2 = events'
    OBVIOUS
  <1>3. /\ ui' = ui /\ requests' = requests /\ newest' = newest /\ excused' = excused /\ written' = written
        /\ discarded' = discarded /\ dropped' = dropped /\ made' = made
    BY DEF FlowChanges, Changed
  <1>4. i \in Ids
    BY UruiAssumption DEF Ids
  <1>5. PICK st : st = IF Flows[i] = "going" THEN "stalled" ELSE "going"
    OBVIOUS
  <1>6. PICK f : f = [Flows EXCEPT ![i] = st]
    OBVIOUS
  <1>7. st \in Status /\ f \in [Ids -> Status] /\ f[i] = st /\ \A j \in Ids \ {i} : f[j] = Last(server.flows)[j]
    <2>1. st \in Status /\ Flows \in [Ids -> Status] /\ Flows = Last(server.flows)
      BY <1>5, ServerFacts DEF Status, Flows
    <2> QED
      BY <1>4, <1>6, <2>1
  <1>8. s2 = [tickets |-> server.tickets, flows |-> Append(server.flows, f), workers |-> server.workers]
    BY <1>1, <1>5, <1>6, ServerFacts DEF FlowChanges, ServerBecomes
  <1>9. es2 = events \cup {[type |-> "workflow", id |-> i]}
    BY <1>2 DEF FlowChanges, ServerBecomes
  <1>10. PICK un2 : un2 = unnoticed'
    OBVIOUS
  <1>11. un2 = IF Flows[i] = "going" /\ ui.known[i] = "going" THEN unnoticed \cup {i} ELSE unnoticed \ {i}
    BY <1>10 DEF FlowChanges
  <1>12. un2 \in SUBSET (unnoticed \cup {i}) /\ (i \in un2 => st = "stalled" /\ ui.known[i] = "going")
    BY <1>5, <1>11
  <1>13. InvOf(ui, BagToSet(requests), s2, es2, excused, newest, un2, written, discarded, dropped, made)
    BY <1>4, <1>7, <1>8, <1>9, <1>12, UiFacts, FlowServer
  <1> QED
    BY <1>1, <1>2, <1>3, <1>10, <1>13, Unrun

LEMMA CooldownEndsStep ==
    ASSUME UiInv, CooldownEnds
    PROVE  UiInv'
  <1>1. PICK v : v = [ui EXCEPT !.cooling = FALSE]
    OBVIOUS
  <1>2. Alters(ui, v, {"cooling"}) /\ v.cooling = FALSE
    BY <1>1, UiFacts DEF IsModel, Alters, Fields
  <1>3. NavTyped(v)
    BY <1>2, UiFacts, NavSame
  <1>4. DataTyped(v)
    BY <1>2, UiFacts DEF DataTyped, Alters, Fields
  <1>5. /\ v.tab = ui.tab /\ v.stacks = ui.stacks /\ v.handlers = ui.handlers /\ v.overlay = ui.overlay
        /\ v.dirty = ui.dirty /\ v.changed = ui.changed /\ v.known = ui.known /\ v.cmds = ui.cmds
        /\ v.detail = ui.detail /\ v.activities = ui.activities
        /\ \A k \in ListKeys : v[FieldOf(k)] = ui[FieldOf(k)]
    BY <1>2 DEF ListKeys, FieldOf, Alters, Fields
  <1>6. ModelOK(v) /\ Again(ui, v) /\ GotoOK(v)
    BY <1>3, <1>4, <1>5, UiFacts DEF ModelOK, Again, Asks, GotoOK
  <1>7. PICK rs : rs = BagToSet(requests)
    OBVIOUS
  <1>8. v.cmds = <<>> /\ DOMAIN v.cmds = {}
    BY <1>5, UiFacts
  <1>9. Follows(rs, {}, v.cmds, server, rs)
    BY <1>8 DEF Follows
  <1>10. InvOf(v, rs, server, events, excused, newest, unnoticed, written, discarded, dropped, made)
    BY <1>5, <1>6, <1>7, <1>9, UiFacts, KeyAgain
  <1>11. /\ ui' = v /\ requests' = requests /\ server' = server /\ events' = events /\ newest' = newest /\ excused' = excused
         /\ unnoticed' = unnoticed /\ written' = written /\ discarded' = discarded /\ dropped' = dropped /\ made' = made
    BY <1>1 DEF CooldownEnds, observers
  <1> QED
    BY <1>7, <1>8, <1>10, <1>11 DEF UiInv, IsABag, BagToSet

-----------------------------------------------------------------------------
(* Tickets are made and workers are stopped *)

LEMMA LoadRests ==
    ASSUME NEW u, ModelOK(u)
    PROVE  Again(u, u)
  BY DEF Again, Asks

\* A ticket is made: its menu may come back when the dispatch fails.
LEMMA CreatesStep ==
    ASSUME UiInv, NEW r \in BagToSet(requests), Creates(r)
    PROVE  UiInv'
  <1>1. PICK s2 : s2 = server'
    OBVIOUS
  <1>2. PICK es2 : es2 = events'
    OBVIOUS
  <1>3. /\ Runs(SetToBag({r}), ui) /\ r.cmd.what = "create" /\ newest' = newest /\ excused' = excused /\ written' = written
        /\ discarded' = discarded /\ dropped' = dropped /\ unnoticed' = unnoticed
    BY DEF Creates
  <1>4. s2 = [tickets |-> server.tickets + 1, flows |-> server.flows, workers |-> server.workers]
    BY <1>1, ServerFacts DEF Creates, ServerBecomes, TicketWritten
  <1>5. es2 = events \cup {[type |-> "ticket", id |-> NoId]}
    BY <1>2 DEF Creates, ServerBecomes
  <1>6. InvOf(ui, BagToSet(requests), s2, es2, excused, newest, unnoticed, written, discarded, dropped, made)
    BY <1>4, <1>5, UiFacts, TicketServer
  <1>7. PICK d : d = r.cmd.id
    OBVIOUS
  <1>8. d \in Drafts
    <2>1. r.cmd \in UiCommands
      BY ServerFacts DEF RequestsOK
    <2> QED
      BY <1>3, <1>7, <2>1, CommandWhat
  <1>9. PICK ma2 : ma2 = made'
    OBVIOUS
  <1>10. ma2 \in [Drafts -> Nat] /\ ma2[d] > 0 /\ \A x \in Drafts : made[x] > 0 => ma2[x] > 0
    <2>1. ma2 = [made EXCEPT ![d] = @ + 1]
      BY <1>7, <1>9 DEF Creates
    <2> QED
      BY <1>8, <2>1, ServerFacts
  <1>11. Ends({r}, ui)
    BY <1>3 DEF Ends
  <1>12. ASSUME NEW rs2, Follows(BagToSet(requests), {r}, ui.cmds, s2, rs2)
         PROVE  InvOf(ui, rs2, s2, es2, excused, newest, unnoticed, written, discarded, dropped, ma2)
    <2>1. DraftsOK(ui, rs2, written, discarded, dropped, ma2)
      <3>1. \A x \in BagToSet(requests) : x \in rs2 \/ x = r
        BY <1>12 DEF Follows
      <3>2. written \subseteq Drafts
        BY ServerFacts
      <3> QED
        BY <1>7, <1>10, <3>1, <3>2, ServerFacts DEF DraftsOK
    <2> QED
      BY <1>6, <1>10, <1>11, <1>12, <2>1, ServerFacts, UiFacts, LoadRests, DraftAgain
  <1>13. \A rs2 : Follows(BagToSet(requests), {r}, ui.cmds, server', rs2) =>
                      InvOf(ui, rs2, server', events', excused', newest', unnoticed', written', discarded', dropped', made')
    BY <1>1, <1>2, <1>3, <1>9, <1>12
  <1> QED
    BY <1>3, <1>13, UiFacts, Ran

\* The menu of draft d comes back.
Menu(u, v, d) ==
    /\ ModelOK(v) /\ Again(u, v) /\ v.handlers = u.handlers /\ v.changed = u.changed /\ v.known = u.known
    /\ v.overlay = [kind |-> "create", id |-> d]

LEMMA MenuBack ==
    ASSUME NEW u, NEW v, NEW rs, NEW s, NEW es, NEW ex, NEW nw, NEW un, NEW wr, NEW di, NEW re, NEW ma,
           InvOf(u, rs, s, es, ex, nw, un, wr, di, re, ma),
           NEW r \in rs, r.cmd.what = "create", Menu(u, v, r.cmd.id),
           NEW rs2, Follows(rs, {r}, v.cmds, s, rs2),
           NEW ma2 \in [Drafts -> Nat], \A x \in Drafts : ma[x] > 0 => ma2[x] > 0,
           NEW re2, re2 = re \cup IF u.overlay.kind = "create" /\ u.overlay.id # r.cmd.id THEN {u.overlay.id} ELSE {}
    PROVE  InvOf(v, rs2, s, es, ex, nw, un, wr, di, re2, ma2)
  <1>1. /\ DraftsOK(u, rs, wr, di, re, ma) /\ wr \subseteq Drafts
    BY DEF InvOf, TypedAll, ObserversOK
  <1>2. /\ ModelOK(v) /\ Again(u, v) /\ v.handlers = u.handlers /\ v.changed = u.changed /\ v.known = u.known
        /\ v.overlay = [kind |-> "create", id |-> r.cmd.id]
    BY DEF Menu
  <1>3. GotoOK(v) /\ Ends({r}, v)
    BY <1>2 DEF GotoOK, Ends
  <1>4. DraftsOK(v, rs2, wr, di, re2, ma2)
    <2>1. \A x \in rs : x \in rs2 \/ x = r
      BY DEF Follows
    <2>2. ASSUME NEW d \in wr \ re2
          PROVE  \/ ma2[d] > 0 \/ d \in di
                 \/ v.overlay = [kind |-> "create", id |-> d]
                 \/ \E x \in rs2 : x.cmd.what = "create" /\ x.cmd.id = d
      <3>1. \/ ma[d] > 0 \/ d \in di
            \/ u.overlay = [kind |-> "create", id |-> d]
            \/ \E x \in rs : x.cmd.what = "create" /\ x.cmd.id = d
        BY <1>1, <2>2 DEF DraftsOK
      <3>2. u.overlay = [kind |-> "create", id |-> d] => d = r.cmd.id
        <4>1. u.overlay = [kind |-> "create", id |-> d] => u.overlay.kind = "create" /\ u.overlay.id = d
          OBVIOUS
        <4> QED
          BY <2>2, <4>1
      <3>3. ma[d] > 0 => ma2[d] > 0
        BY <1>1, <2>2
      <3> QED
        BY <1>2, <2>1, <3>1, <3>2, <3>3
    <2> QED
      BY <2>2 DEF DraftsOK
  <1> QED
    BY <1>1, <1>2, <1>3, <1>4, DraftAgain

LEMMA CreateFailedMenu ==
    ASSUME UiInv, NEW r \in BagToSet(requests), r.cmd.what = "create", NEW v, v = CreateFailed(ui, r.cmd)
    PROVE  Menu(ui, v, r.cmd.id) /\ r.cmd.id \in Drafts
  <1>1. PICK d : d = r.cmd.id
    OBVIOUS
  <1>2. d \in Drafts
    <2>1. r.cmd \in UiCommands
      BY ServerFacts DEF RequestsOK
    <2> QED
      BY <1>1, <2>1, CommandWhat
  <1>3. PICK o : o = [kind |-> "create", id |-> d]
    OBVIOUS
  <1>4. o \in Overlays
    BY <1>2, <1>3 DEF Overlays
  <1>5. d # NoId
    BY <1>2, UruiAssumption DEF NoId
  <1>6. v = [ui EXCEPT !.overlay = o]
    BY <1>1, <1>3, <1>5 DEF CreateFailed, Preserved
  <1>7. /\ ModelOK(v) /\ Again(ui, v) /\ v.handlers = ui.handlers /\ v.changed = ui.changed /\ v.known = ui.known
        /\ v.overlay = o
    BY <1>4, <1>6, UiFacts, OverlayAgain
  <1> QED
    BY <1>1, <1>2, <1>3, <1>7 DEF Menu

LEMMA CreateRefusedStep ==
    ASSUME UiInv, NEW r \in BagToSet(requests), CreateRefused(r)
    PROVE  UiInv'
  <1>1. PICK v : v = CreateFailed(ui, r.cmd)
    OBVIOUS
  <1>2. /\ Runs(SetToBag({r}), v) /\ r.cmd.what = "create" /\ newest' = newest /\ excused' = excused /\ written' = written
        /\ discarded' = discarded /\ unnoticed' = unnoticed /\ server' = server /\ events' = events /\ made' = made
    BY <1>1 DEF CreateRefused
  <1>3. PICK re2 : re2 = dropped'
    OBVIOUS
  <1>4. re2 = dropped \cup IF ui.overlay.kind = "create" /\ ui.overlay.id # r.cmd.id THEN {ui.overlay.id} ELSE {}
    BY <1>3 DEF CreateRefused, Replaces
  <1>5. Menu(ui, v, r.cmd.id) /\ ModelOK(v)
    BY <1>1, <1>2, CreateFailedMenu DEF Menu
  <1>6. ASSUME NEW rs2, Follows(BagToSet(requests), {r}, v.cmds, server, rs2)
        PROVE  InvOf(v, rs2, server, events, excused, newest, unnoticed, written, discarded, re2, made)
    <2>1. /\ InvOf(ui, BagToSet(requests), server, events, excused, newest, unnoticed, written, discarded, dropped, made)
          /\ made \in [Drafts -> Nat] /\ \A x \in Drafts : made[x] > 0 => made[x] > 0
      BY ServerFacts, UiFacts
    <2> QED
      BY <1>2, <1>4, <1>5, <1>6, <2>1, MenuBack
  <1>7. \A rs2 : Follows(BagToSet(requests), {r}, v.cmds, server', rs2) =>
                      InvOf(v, rs2, server', events', excused', newest', unnoticed', written', discarded', dropped', made')
    BY <1>2, <1>3, <1>6
  <1> QED
    BY <1>2, <1>5, <1>7, Ran

LEMMA DispatchRefusedStep ==
    ASSUME UiInv, NEW r \in BagToSet(requests), DispatchRefused(r)
    PROVE  UiInv'
  <1>1. PICK v : v = CreateFailed(ui, r.cmd)
    OBVIOUS
  <1>2. /\ Runs(SetToBag({r}), v) /\ r.cmd.what = "create" /\ newest' = newest /\ excused' = excused /\ written' = written
        /\ discarded' = discarded /\ unnoticed' = unnoticed
    BY <1>1 DEF DispatchRefused
  <1>3. PICK re2 : re2 = dropped'
    OBVIOUS
  <1>4. re2 = dropped \cup IF ui.overlay.kind = "create" /\ ui.overlay.id # r.cmd.id THEN {ui.overlay.id} ELSE {}
    BY <1>3 DEF DispatchRefused, Replaces
  <1>5. Menu(ui, v, r.cmd.id) /\ ModelOK(v) /\ r.cmd.id \in Drafts
    BY <1>1, <1>2, CreateFailedMenu DEF Menu
  <1>6. PICK s2 : s2 = server'
    OBVIOUS
  <1>7. PICK es2 : es2 = events'
    OBVIOUS
  <1>8. s2 = [tickets |-> server.tickets + 1, flows |-> server.flows, workers |-> server.workers]
    BY <1>6, ServerFacts DEF DispatchRefused, ServerBecomes, TicketWritten
  <1>9. es2 = events \cup {[type |-> "ticket", id |-> NoId]}
    BY <1>7 DEF DispatchRefused, ServerBecomes
  <1>10. InvOf(ui, BagToSet(requests), s2, es2, excused, newest, unnoticed, written, discarded, dropped, made)
    BY <1>8, <1>9, UiFacts, TicketServer
  <1>11. PICK ma2 : ma2 = made'
    OBVIOUS
  <1>12. ma2 \in [Drafts -> Nat] /\ \A x \in Drafts : made[x] > 0 => ma2[x] > 0
    <2>1. ma2 = [made EXCEPT ![r.cmd.id] = @ + 1]
      BY <1>11 DEF DispatchRefused
    <2> QED
      BY <1>5, <2>1, ServerFacts
  <1>13. ASSUME NEW rs2, Follows(BagToSet(requests), {r}, v.cmds, s2, rs2)
         PROVE  InvOf(v, rs2, s2, es2, excused, newest, unnoticed, written, discarded, re2, ma2)
    BY <1>2, <1>4, <1>5, <1>10, <1>12, <1>13, MenuBack
  <1>14. \A rs2 : Follows(BagToSet(requests), {r}, v.cmds, server', rs2) =>
                      InvOf(v, rs2, server', events', excused', newest', unnoticed', written', discarded', dropped', made')
    BY <1>2, <1>3, <1>6, <1>7, <1>11, <1>13
  <1> QED
    BY <1>2, <1>5, <1>14, Ran

LEMMA StoppedAgain ==
    ASSUME NEW u, ModelOK(u), NEW v, v = Emit(u, <<FetchWorkers>>)
    PROVE  ModelOK(v) /\ Stays(u, v) /\ Again(u, v) /\ Sends(v, "workers", NoId)
  <1>1. PICK c \in UiCommands : c = FetchWorkers /\ c.what = "workers" /\ c.id = NoId
    BY FetchTyped
  <1>2. <<c>> \in Seq(UiCommands) /\ 1 \in DOMAIN <<c>> /\ <<c>>[1] = c
    OBVIOUS
  <1>3. Alters(u, v, {"cmds"}) /\ ModelOK(v) /\ Sends(v, "workers", NoId)
    BY <1>1, <1>2, EmitOK
  <1>4. Stays(u, v)
    BY <1>3, DataStays DEF DataFields
  <1>5. /\ \A k \in ListKeys : v[FieldOf(k)] = u[FieldOf(k)]
        /\ v.detail = u.detail /\ v.activities = u.activities
    BY <1>3 DEF ListKeys, FieldOf, Alters, Fields
  <1> QED
    BY <1>3, <1>4, <1>5 DEF Again, Stays, Asks

\* Whether the worker stops or not.
LEMMA StopStep ==
    ASSUME UiInv, NEW r \in BagToSet(requests), Stops(r) \/ StopFails(r)
    PROVE  UiInv'
  <1>1. PICK v : v = Emit(ui, <<FetchWorkers>>)
    OBVIOUS
  <1>2. /\ Runs(SetToBag({r}), v) /\ r.cmd.what = "stop" /\ newest' = newest /\ excused' = excused /\ written' = written
        /\ discarded' = discarded /\ unnoticed' = unnoticed /\ dropped' = dropped /\ made' = made
    BY <1>1 DEF Stops, StopFails, WorkerStopped, observers
  <1>3. PICK s2 : s2 = server'
    OBVIOUS
  <1>4. PICK es2 : es2 = events'
    OBVIOUS
  <1>5. InvOf(ui, BagToSet(requests), s2, es2, excused, newest, unnoticed, written, discarded, dropped, made)
    <2>1. CASE Stops(r)
      <3>1. PICK i \in IdsN : i = r.cmd.id
        <4>1. r.cmd \in UiCommands
          BY ServerFacts DEF RequestsOK
        <4> QED
          BY <1>2, <4>1, CommandWhat
      <3>2. PICK W : W = RunningWorkers \ {i}
        OBVIOUS
      <3>3. W \in SUBSET Ids
        BY <3>2, ServerFacts
      <3>4. s2 = [tickets |-> server.tickets, flows |-> server.flows, workers |-> Append(server.workers, W)]
        BY <1>3, <2>1, <3>1, <3>2, ServerFacts DEF Stops, ServerBecomes, WorkersNow
      <3>5. es2 = events \cup {[type |-> "worker", id |-> i]}
        BY <1>4, <2>1, <3>1 DEF Stops, ServerBecomes
      <3> QED
        BY <3>3, <3>4, <3>5, UiFacts, WorkerServer
    <2>2. CASE StopFails(r)
      BY <1>3, <1>4, <2>2, UiFacts DEF StopFails
    <2> QED
      BY <2>1, <2>2
  <1>6. ModelOK(v) /\ Stays(ui, v) /\ Again(ui, v) /\ Sends(v, "workers", NoId)
    BY <1>1, UiFacts, StoppedAgain
  <1>7. /\ Ends({r}, v) /\ v.handlers = ui.handlers /\ v.changed = ui.changed /\ v.known = ui.known
        /\ v.overlay = ui.overlay /\ GotoOK(v)
    BY <1>2, <1>6, UiFacts DEF Ends, Stays, GotoOK
  <1>8. ASSUME NEW rs2, Follows(BagToSet(requests), {r}, v.cmds, s2, rs2)
        PROVE  InvOf(v, rs2, s2, es2, excused, newest, unnoticed, written, discarded, dropped, made)
    <2>1. \A x \in BagToSet(requests) : x \in rs2 \/ x.cmd.what # "create"
      BY <1>2, <1>8 DEF Follows
    <2>2. DraftsOK(v, rs2, written, discarded, dropped, made)
      BY <1>7, <2>1, ServerFacts, DraftsKept
    <2> QED
      BY <1>5, <1>6, <1>7, <1>8, <2>2, ServerFacts, DraftAgain
  <1>9. \A rs2 : Follows(BagToSet(requests), {r}, v.cmds, server', rs2) =>
                      InvOf(v, rs2, server', events', excused', newest', unnoticed', written', discarded', dropped', made')
    BY <1>2, <1>3, <1>4, <1>8
  <1> QED
    BY <1>2, <1>6, <1>9, Ran

\* The events that are lost excuse the lists they were about.
LEMMA StreamLostStep ==
    ASSUME UiInv, StreamLost
    PROVE  UiInv'
  <1>1. PICK ex2 : ex2 = excused'
    OBVIOUS
  <1>2. PICK un2 : un2 = unnoticed'
    OBVIOUS
  <1>3. /\ ui' = ui /\ requests' = requests /\ server' = server /\ newest' = newest /\ written' = written
        /\ discarded' = discarded /\ dropped' = dropped /\ made' = made /\ events' = {}
    BY DEF StreamLost
  <1>4. PICK rs : rs = BagToSet(requests)
    OBVIOUS
  <1>5. /\ ServerOK(server) /\ RequestsOK(rs, server) /\ ModelOK(ui) /\ NavOK(ui) /\ GotoOK(ui)
        /\ ObserversOK(server, excused, newest, unnoticed, written, made) /\ FreshAll(ui, rs, server, events, excused, newest)
        /\ StallsOK(ui, rs, server, events, unnoticed) /\ DraftsOK(ui, rs, written, discarded, dropped, made)
    BY <1>4, UiFacts DEF InvOf, TypedAll
  <1>6. /\ ex2 \in SUBSET Lists /\ excused \subseteq ex2
        /\ \A e \in events : /\ e.type = "ticket" => "tickets" \in ex2 /\ "detail" \in ex2 /\ "activities" \in ex2
                             /\ e.type = "workflow" => "flows" \in ex2
                             /\ e.type = "worker" => "workers" \in ex2
    BY <1>1, <1>5 DEF StreamLost, ObserversOK, Lists
  <1>7. un2 \subseteq unnoticed /\ \A e \in events : e.id \notin un2
    BY <1>2 DEF StreamLost
  <1>8. ASSUME NEW k \in ListKeys PROVE ListFresh(k, ui, rs, server, {}, ex2, newest)
    <2>1. ListFresh(k, ui, rs, server, events, excused, newest)
      BY <1>5 DEF FreshAll
    <2>2. (\E e \in events : e.type = EventOf(k)) => k \in ex2
      BY <1>6 DEF ListKeys, EventOf
    <2> QED
      BY <1>6, <2>1, <2>2 DEF ListFresh
  <1>9. DetailFresh(ui, rs, server, {}, ex2, newest)
    <2>1. DetailFresh(ui, rs, server, events, excused, newest)
      BY <1>5 DEF FreshAll
    <2> QED
      BY <1>6, <2>1 DEF DetailFresh
  <1>13. ActivitiesFresh(ui, rs, server, {}, ex2, newest)
    <2>1. ActivitiesFresh(ui, rs, server, events, excused, newest)
      BY <1>5 DEF FreshAll
    <2> QED
      BY <1>6, <2>1 DEF ActivitiesFresh
  <1>10. StallsOK(ui, rs, server, {}, un2)
    BY <1>5, <1>7 DEF StallsOK, StallKnown
  <1>11. ObserversOK(server, ex2, newest, un2, written, made)
    BY <1>5, <1>6, <1>7 DEF ObserversOK
  <1>12. InvOf(ui, rs, server, {}, ex2, newest, un2, written, discarded, dropped, made)
    BY <1>5, <1>8, <1>9, <1>10, <1>11, <1>13 DEF InvOf, TypedAll, FreshAll
  <1> QED
    BY <1>1, <1>2, <1>3, <1>4, <1>12, Unrun

-----------------------------------------------------------------------------
(* Events and the throttle *)

LEMMA SetToSeqAll ==
    ASSUME NEW S, IsFiniteSet(S)
    PROVE  /\ Cardinality(S) \in Nat
           /\ \A k \in 1..Cardinality(S) : SetToSeq(S)[k] \in S
           /\ \A x \in S : \E k \in 1..Cardinality(S) : SetToSeq(S)[k] = x
  <1>1. PICK n \in Nat : n = Cardinality(S)
    BY FS_CardinalityType
  <1>2. PICK g : g \in Injection(1..n, S)
    BY <1>1, FS_CardinalityType DEF ExistsBijection, Bijection
  <1>3. g \in [1..n -> S] /\ IsInjective(g)
    BY <1>2 DEF Injection
  <1>4. PICK f : f = SetToSeq(S)
    OBVIOUS
  <1>5. f \in [1..n -> S] /\ IsInjective(f)
    <2>1. f = CHOOSE h \in [1..n -> S] : IsInjective(h)
      BY <1>1, <1>4 DEF SetToSeq
    <2> QED
      BY <1>3, <2>1, Zenon
  <1>6. f \in Injection(1..n, S)
    BY <1>5 DEF Injection
  <1>7. Cardinality(1..n) = n
    BY FS_Interval
  <1>8. f \in Surjection(1..n, S)
    BY <1>1, <1>6, <1>7, FS_Injection
  <1> QED
    BY <1>1, <1>4, <1>5, <1>8 DEF Surjection

\* A list is shown on its own tab only.
LEMMA PageTab ==
    ASSUME NEW u, NavTyped(u), StacksOK(u), NEW k \in ListKeys, CurrentPage(u).kind = KindOf(k)
    PROVE  u.tab = TabOf(k)
  <1>1. PICK n \in Nat : n = Len(u.stacks[u.tab]) /\ n >= 1 /\ CurrentPage(u) = u.stacks[u.tab][n]
    <2>1. Len(u.stacks[u.tab]) \in Nat
      BY DEF NavTyped
    <2> QED
      BY <2>1, CurrentTyped
  <1>2. u.tab \in Tabs
    BY DEF NavTyped
  <1>3. KindOf(k) \notin Inner
    BY DEF ListKeys, KindOf, Inner
  <1>4. n = 1
    <2>1. \A j \in 2..Len(u.stacks[u.tab]) : u.stacks[u.tab][j].kind \in Inner
      BY <1>2, Zenon DEF StacksOK
    <2>2. \A j \in 2..n : u.stacks[u.tab][j].kind \in Inner
      BY <1>1, <2>1
    <2>3. u.stacks[u.tab][n].kind = KindOf(k) /\ n >= 1
      BY <1>1
    <2>4. n = 1 \/ n \in 2..n
      BY <2>3
    <2> QED
      BY <1>3, <2>2, <2>3, <2>4
  <1>5. RootPage[u.tab].kind = KindOf(k)
    BY <1>1, <1>2, <1>4 DEF StacksOK
  <1> QED
    BY <1>2, <1>5, TabsTyped DEF RootPage, Page, ListKeys, KindOf, TabOf

\* The events of a batch are noted.
LEMMA MarkedInv ==
    ASSUME NEW u, NEW rs, NEW s, NEW es, NEW ex, NEW nw, NEW un, NEW wr, NEW di, NEW re, NEW ma,
           InvOf(u, rs, s, es, ex, nw, un, wr, di, re, ma), NEW D, NEW C, NEW v, Alters(u, v, {"dirty", "changed"}),
           v.dirty = u.dirty \cup D, v.changed = u.changed \cup C,
           D = UNION {DirtyTabs(e) : e \in es}, C = {e.id : e \in {f \in es : f.type = "workflow"}}
    PROVE  InvOf(v, rs, s, {}, ex, nw, un, wr, di, re, ma)
  <1>1. /\ ModelOK(u) /\ ServerOK(s) /\ RequestsOK(rs, s) /\ es \subseteq EventSet
        /\ ObserversOK(s, ex, nw, un, wr, ma) /\ FreshAll(u, rs, s, es, ex, nw)
        /\ StallsOK(u, rs, s, es, un) /\ NavOK(u) /\ GotoOK(u) /\ DraftsOK(u, rs, wr, di, re, ma)
    BY DEF InvOf, TypedAll
  <1>2. /\ v.tab = u.tab /\ v.stacks = u.stacks /\ v.handlers = u.handlers /\ v.overlay = u.overlay
        /\ v.known = u.known /\ v.cmds = u.cmds /\ v.detail = u.detail /\ v.activities = u.activities
        /\ \A k \in ListKeys : v[FieldOf(k)] = u[FieldOf(k)]
    BY DEF ListKeys, FieldOf, Alters, Fields
  <1>3. ASSUME NEW e \in es
        PROVE  /\ e.type \in {"ticket", "workflow", "worker"} /\ DirtyTabs(e) \subseteq {"Tickets", "Flows", "Workers"}
               /\ DirtyTabs(e) \subseteq D /\ DirtyTabs(e) \subseteq v.dirty
               /\ e.type = "ticket" => DirtyTabs(e) = {"Tickets", "Flows"}
               /\ e.type = "workflow" => DirtyTabs(e) = {"Flows"} /\ e.id \in C /\ e.id \in v.changed /\ e.id \in Ids
               /\ e.type = "worker" => DirtyTabs(e) = {"Workers"}
    <2>1. e \in EventSet
      BY <1>1
    <2>2. e.type \in {"ticket", "workflow", "worker"} /\ (e.type = "workflow" => e.id \in Ids)
      BY <2>1 DEF EventSet
    <2>3. /\ e.type = "ticket" => DirtyTabs(e) = {"Tickets", "Flows"}
          /\ e.type = "workflow" => DirtyTabs(e) = {"Flows"}
          /\ e.type = "worker" => DirtyTabs(e) = {"Workers"}
      BY DEF DirtyTabs
    <2>4. DirtyTabs(e) \subseteq D /\ (e.type = "workflow" => e.id \in C)
      OBVIOUS
    <2> QED
      BY <2>2, <2>3, <2>4
  <1>4. /\ D \subseteq {"Tickets", "Flows", "Workers"} /\ C \subseteq Ids
        /\ C # {} => "Flows" \in D
    <2>1. \A x \in D : \E e \in es : x \in DirtyTabs(e)
      OBVIOUS
    <2>2. \A x \in C : \E e \in es : x = e.id /\ e.type = "workflow"
      OBVIOUS
    <2> QED
      BY <1>3, <2>1, <2>2
  <1>5. ModelOK(v)
    <2>1. NavTyped(v)
      BY <1>1, NavSame DEF ModelOK
    <2>2. DataTyped(v)
      BY <1>1, <1>4 DEF ModelOK, DataTyped, Alters, Fields
    <2> QED
      BY <1>1, <1>2, <2>1, <2>2 DEF ModelOK
  <1>6. CurrentPage(v) = CurrentPage(u)
    BY <1>2 DEF CurrentPage
  <1>7. NavOK(v) /\ GotoOK(v)
    BY <1>1, <1>2, <1>6 DEF NavOK, GotoOK, StacksOK, HandlersOK, OnTop, Owed, Owes
  <1>8. ASSUME NEW k \in ListKeys PROVE ListFresh(k, v, rs, s, {}, ex, nw)
    <2>1. ListFresh(k, u, rs, s, es, ex, nw)
      BY <1>1 DEF FreshAll
    <2>2. (\E e \in es : e.type = EventOf(k)) => TabOf(k) \in v.dirty
      BY <1>3 DEF ListKeys, EventOf, TabOf
    <2> QED
      BY <1>2, <1>6, <2>1, <2>2 DEF ListFresh
  <1>9. DetailFresh(v, rs, s, {}, ex, nw)
    <2>1. DetailFresh(u, rs, s, es, ex, nw)
      BY <1>1 DEF FreshAll
    <2>2. (\E e \in es : e.type = "ticket") => "Tickets" \in v.dirty
      BY <1>3
    <2> QED
      BY <1>2, <1>6, <2>1, <2>2 DEF DetailFresh
  <1>10. ActivitiesFresh(v, rs, s, {}, ex, nw)
    <2>1. ActivitiesFresh(u, rs, s, es, ex, nw)
      BY <1>1 DEF FreshAll
    <2>2. (\E e \in es : e.type = "ticket") => "Tickets" \in v.dirty
      BY <1>3
    <2>3. Tracked(v) = Tracked(u) /\ u.dirty \subseteq v.dirty
      BY <1>2 DEF Tracked
    <2> QED
      BY <1>2, <1>6, <2>1, <2>2, <2>3 DEF ActivitiesFresh
  <1>11. StallsOK(v, rs, s, {}, un)
    <2>1. v.changed # {} => "Flows" \in v.dirty
      BY <1>1, <1>4 DEF StallsOK
    <2>2. ASSUME NEW i \in un PROVE StallKnown(i, v, rs, s, {})
      <3>1. StallKnown(i, u, rs, s, es)
        BY <1>1 DEF StallsOK
      <3>2. (\E e \in es : e.type = "workflow" /\ e.id = i) => i \in v.changed
        BY <1>3
      <3> QED
        BY <1>2, <3>1, <3>2 DEF StallKnown
    <2> QED
      BY <2>1, <2>2 DEF StallsOK
  <1>12. DraftsOK(v, rs, wr, di, re, ma)
    BY <1>1, <1>2 DEF DraftsOK
  <1> QED
    BY <1>1, <1>5, <1>7, <1>8, <1>9, <1>10, <1>11, <1>12 DEF InvOf, TypedAll, FreshAll

\* The second element of a sequence put together from two of one element.
LEMMA SecondOf ==
    ASSUME NEW S, NEW s \in Seq(S), NEW t \in Seq(S), Len(s) = 1, Len(t) = 1, NEW r, r = s \o t
    PROVE  r \in Seq(S) /\ Len(r) = 2 /\ r[2] = t[1]
  <1>1. s \o t \in Seq(S) /\ Len(s \o t) = Len(s) + Len(t)
    BY ConcatProperties
  <1>2. \A i \in 1..(Len(s) + Len(t)) : (s \o t)[i] = IF i <= Len(s) THEN s[i] ELSE t[i - Len(s)]
    BY ConcatProperties
  <1> QED
    BY <1>1, <1>2

\* What flush_throttle asks for.
LEMMA TabFetchesTyped ==
    ASSUME NEW u, ModelOK(u), NEW k \in ListKeys
    PROVE  /\ TabFetches(u, TabOf(k)) \in Seq(UiCommands)
           /\ \E n \in DOMAIN TabFetches(u, TabOf(k)) :
                  TabFetches(u, TabOf(k))[n].what = k /\ TabFetches(u, TabOf(k))[n].id = NoId
           /\ (k = "tickets" /\ u.detail # NoDetail) =>
                  \E n \in DOMAIN TabFetches(u, TabOf(k)) :
                      TabFetches(u, TabOf(k))[n].what = "detail" /\ TabFetches(u, TabOf(k))[n].id = u.detail.id
           /\ (k = "tickets" /\ u.detail # NoDetail /\ u.activities.id = u.detail.id) =>
                  \E n \in DOMAIN TabFetches(u, TabOf(k)) :
                      TabFetches(u, TabOf(k))[n].what = "activities" /\ TabFetches(u, TabOf(k))[n].id = u.detail.id
  <1>1. PICK cs : cs = TabFetches(u, TabOf(k))
    OBVIOUS
  <1>2. CASE k = "tickets"
    <2>1. PICK c \in UiCommands : c = FetchTickets /\ c.what = "tickets" /\ c.id = NoId
      BY FetchTyped
    <2>2. <<c>> \in Seq(UiCommands) /\ Len(<<c>>) = 1 /\ <<c>>[1] = c
      OBVIOUS
    <2>3. CASE u.detail = NoDetail
      <3>1. cs = <<c>> \o <<>>
        BY <1>1, <1>2, <2>1, <2>3 DEF TabFetches, TabOf
      <3>2. cs \in Seq(UiCommands) /\ 1 \in DOMAIN cs /\ cs[1] = c
        BY <2>2, <3>1
      <3> QED
        BY <1>1, <1>2, <2>1, <2>3, <3>2
    <2>4. CASE u.detail # NoDetail
      <3>1. u.detail.id \in IdsN
        BY DEF ModelOK, DataTyped
      <3>2. PICK b \in UiCommands : b = Fetch("detail", u.detail.id, 0) /\ b.what = "detail" /\ b.id = u.detail.id
        BY <3>1, FetchTyped
      <3>3. PICK p \in Seq(UiCommands) : p = Preview(u)
        BY DetailFetchesTyped DEF ModelOK
      <3>4. cs = <<c>> \o (<<b>> \o p)
        BY <1>1, <1>2, <2>1, <2>4, <3>2, <3>3 DEF TabFetches, TabOf
      <3>5. <<b>> \o p \in Seq(UiCommands) /\ 1 \in DOMAIN (<<b>> \o p) /\ (<<b>> \o p)[1] = b
        OBVIOUS
      <3>6. cs \in Seq(UiCommands) /\ 1 \in DOMAIN cs /\ cs[1] = c /\ 2 \in DOMAIN cs /\ cs[2] = b
        <4>1. PICK q \in Seq(UiCommands) : q = <<b>> \o p /\ 1 \in DOMAIN q /\ q[1] = b
          BY <3>5
        <4>2. cs = <<c>> \o q
          BY <3>4, <4>1
        <4>3. Len(q) \in Nat /\ Len(q) >= 1
          BY <4>1
        <4> QED
          BY <2>2, <4>1, <4>2, <4>3
      <3>7. PICK a \in UiCommands : a = Fetch("activities", u.detail.id, 0) /\ a.what = "activities" /\ a.id = u.detail.id
        BY <3>1, FetchTyped
      <3>8. u.activities.id = u.detail.id => 3 \in DOMAIN cs /\ cs[3] = a
        <4>1. SUFFICES ASSUME u.activities.id = u.detail.id PROVE 3 \in DOMAIN cs /\ cs[3] = a
          OBVIOUS
        <4>2. p = <<a>>
          BY <3>3, <3>7, <4>1 DEF Preview
        <4>5. Len(p) = 1 /\ p[1] = a
          BY <4>2
        <4>7. <<b>> \in Seq(UiCommands) /\ Len(<<b>>) = 1
          OBVIOUS
        <4>6. PICK o \in Seq(UiCommands) : o = <<b>> /\ Len(o) = 1
          BY <4>7, Zenon
        <4>3. PICK q \in Seq(UiCommands) : q = <<b>> \o p /\ Len(q) = 2 /\ q[2] = a
          <5>1. PICK q : q = o \o p
            OBVIOUS
          <5>2. q \in Seq(UiCommands) /\ Len(q) = 2 /\ q[2] = p[1]
            BY ONLY <4>5, <4>6, <5>1, p \in Seq(UiCommands), o \in Seq(UiCommands), SecondOf
          <5> QED
            BY <4>5, <4>6, <5>1, <5>2
        <4>4. cs = <<c>> \o q
          BY <3>4, <4>3
        <4> QED
          BY <2>2, <4>3, <4>4
      <3> QED
        BY <1>1, <1>2, <2>1, <3>2, <3>6, <3>7, <3>8
    <2> QED
      BY <2>3, <2>4
  <1>3. CASE k = "flows"
    <2>1. u.flowPage + 1 \in Nat
      BY DEF ModelOK, DataTyped
    <2>2. PICK c \in UiCommands : c = Fetch("flows", NoId, u.flowPage + 1) /\ c.what = "flows" /\ c.id = NoId
      BY <2>1, FetchTyped
    <2>3. cs = <<c>>
      BY <1>1, <1>3, <2>2 DEF TabFetches, TabOf, FlowPageFetch
    <2>4. <<c>> \in Seq(UiCommands) /\ 1 \in DOMAIN <<c>> /\ <<c>>[1] = c
      OBVIOUS
    <2> QED
      BY <1>1, <1>3, <2>2, <2>3, <2>4
  <1>4. CASE k = "workers"
    <2>1. PICK c \in UiCommands : c = FetchWorkers /\ c.what = "workers" /\ c.id = NoId
      BY FetchTyped
    <2>2. cs = <<c>>
      BY <1>1, <1>4, <2>1 DEF TabFetches, TabOf
    <2>3. <<c>> \in Seq(UiCommands) /\ 1 \in DOMAIN <<c>> /\ <<c>>[1] = c
      OBVIOUS
    <2> QED
      BY <1>1, <1>4, <2>1, <2>2, <2>3
  <1> QED
    BY <1>2, <1>3, <1>4 DEF ListKeys

\* What is said of the model v after flush_throttle in u.
Flushed(u, v) ==
    /\ ModelOK(v) /\ Alters(u, v, {"ticketList", "flowList", "workerList", "dirty", "changed", "cooling", "cmds"})
    /\ v.dirty = {} /\ v.changed = {}
    /\ \A k \in ListKeys : u.tab = TabOf(k) \/ TabOf(k) \notin u.dirty => v[FieldOf(k)] = u[FieldOf(k)]
    /\ \A k \in ListKeys : u.tab = TabOf(k) /\ TabOf(k) \in u.dirty => Sends(v, k, NoId)
    /\ u.tab = "Tickets" /\ "Tickets" \in u.dirty /\ u.detail # NoDetail => Sends(v, "detail", u.detail.id)
    /\ u.tab = "Tickets" /\ "Tickets" \in u.dirty /\ u.detail # NoDetail /\ u.activities.id = u.detail.id =>
           Sends(v, "activities", u.detail.id)
    /\ u.tab # "Flows" /\ "Flows" \in u.dirty => \A i \in u.changed : Sends(v, "notify", i)

LEMMA FlushFlushed ==
    ASSUME NEW u, ModelOK(u), NEW v, v = FlushThrottle(u)
    PROVE  Flushed(u, v)
  <1>1. /\ u.tab \in Tabs /\ u.dirty \subseteq {"Tickets", "Flows", "Workers"} /\ u.changed \subseteq Ids
        /\ u.cmds \in Seq(UiCommands) /\ IsModel(u)
    BY DEF ModelOK, NavTyped, DataTyped
  <1>2. IsFiniteSet(u.changed)
    <2>1. Workflows \in Int /\ 1 \in Int
      BY UruiAssumption
    <2>2. IsFiniteSet(Ids)
      BY <2>1, FS_Interval DEF Ids
    <2> QED
      BY <1>1, <2>2, FS_Subset
  <1>3. PICK T : T = u.dirty \ {u.tab}
    OBVIOUS
  <1>4. PICK shown : shown = IF u.tab \in u.dirty THEN TabFetches(u, u.tab) ELSE <<>>
    OBVIOUS
  <1>5. /\ shown \in Seq(UiCommands)
        /\ \A k \in ListKeys : u.tab = TabOf(k) /\ TabOf(k) \in u.dirty =>
               \E n \in DOMAIN shown : shown[n].what = k /\ shown[n].id = NoId
        /\ u.tab = "Tickets" /\ "Tickets" \in u.dirty /\ u.detail # NoDetail =>
               \E n \in DOMAIN shown : shown[n].what = "detail" /\ shown[n].id = u.detail.id
        /\ u.tab = "Tickets" /\ "Tickets" \in u.dirty /\ u.detail # NoDetail /\ u.activities.id = u.detail.id =>
               \E n \in DOMAIN shown : shown[n].what = "activities" /\ shown[n].id = u.detail.id
    <2>1. CASE u.tab \in u.dirty
      <3>1. PICK k \in ListKeys : u.tab = TabOf(k)
        <4>1. u.tab \in {"Tickets", "Flows", "Workers"}
          BY <1>1, <2>1
        <4> QED
          BY <4>1 DEF ListKeys, TabOf
      <3>2. shown = TabFetches(u, TabOf(k))
        BY <1>4, <2>1, <3>1
      <3>3. \A j \in ListKeys : TabOf(j) = TabOf(k) => j = k
        BY DEF ListKeys, TabOf
      <3>4. TabOf(k) = "Tickets" => k = "tickets"
        BY DEF ListKeys, TabOf
      <3> QED
        BY <3>1, <3>2, <3>3, <3>4, TabFetchesTyped
    <2>2. CASE u.tab \notin u.dirty
      <3>1. shown = <<>>
        BY <1>4, <2>2
      <3> QED
        BY <2>2, <3>1
    <2> QED
      BY <2>1, <2>2
  <1>6. PICK unseen : unseen = IF "Flows" \in T
                  THEN [k \in 1..Cardinality(u.changed) |-> Fetch("notify", SetToSeq(u.changed)[k], 0)]
                  ELSE <<>>
    OBVIOUS
  <1>7. /\ unseen \in Seq(UiCommands)
        /\ u.tab # "Flows" /\ "Flows" \in u.dirty =>
               \A i \in u.changed : \E n \in DOMAIN unseen : unseen[n].what = "notify" /\ unseen[n].id = i
    <2>1. CASE "Flows" \in T
      <3>1. PICK n \in Nat : n = Cardinality(u.changed)
        BY <1>2, SetToSeqAll
      <3>2. PICK f : f = SetToSeq(u.changed)
        OBVIOUS
      <3>3. (\A k \in 1..n : f[k] \in u.changed) /\ \A x \in u.changed : \E k \in 1..n : f[k] = x
        BY <1>2, <3>1, <3>2, SetToSeqAll
      <3>4. unseen = [k \in 1..n |-> Fetch("notify", f[k], 0)]
        BY <1>6, <2>1, <3>1, <3>2, Zenon
      <3>5. \A k \in 1..n : Fetch("notify", f[k], 0) \in UiCommands
        BY <1>1, <3>3, FetchTyped DEF IdsN
      <3>6. unseen \in Seq(UiCommands) /\ DOMAIN unseen = 1..n
        BY <3>4, <3>5
      <3>7. \A k \in 1..n : unseen[k].what = "notify" /\ unseen[k].id = f[k]
        BY <3>4, FetchTyped
      <3> QED
        BY <3>3, <3>6, <3>7
    <2>2. CASE "Flows" \notin T
      <3>1. unseen = <<>>
        BY <1>6, <2>2
      <3> QED
        BY <1>3, <2>2, <3>1
    <2> QED
      BY <2>1, <2>2
  <1>8. PICK w : w = [InvalidateTabs(u, T) EXCEPT !.dirty = {}, !.changed = {}, !.cooling = TRUE]
    OBVIOUS
  <1>9. v = Emit(w, shown \o unseen)
    BY <1>3, <1>4, <1>6, <1>8 DEF FlushThrottle
  <1>10. /\ Alters(u, w, {"ticketList", "flowList", "workerList", "dirty", "changed", "cooling"})
         /\ w.dirty = {} /\ w.changed = {} /\ w.cooling = TRUE
         /\ w.ticketList = IF "Tickets" \in T THEN NotLoaded ELSE u.ticketList
         /\ w.flowList = IF "Flows" \in T THEN NotLoaded ELSE u.flowList
         /\ w.workerList = IF "Workers" \in T THEN NotLoaded ELSE u.workerList
    BY <1>1, <1>8 DEF IsModel, Alters, Fields, InvalidateTabs
  <1>11. ModelOK(w)
    <2>1. NavTyped(w)
      BY <1>10, NavSame DEF ModelOK
    <2>2. DataTyped(w)
      <3>1. w.ticketList \in Load(Nat) /\ w.flowList \in Load(FlowMaps) /\ w.workerList \in Load(SUBSET Ids)
        <4>1. u.ticketList \in Load(Nat) /\ u.flowList \in Load(FlowMaps) /\ u.workerList \in Load(SUBSET Ids)
          BY DEF ModelOK, DataTyped
        <4>2. NotLoaded \in Load(Nat) /\ NotLoaded \in Load(FlowMaps) /\ NotLoaded \in Load(SUBSET Ids)
          BY LoadTyped
        <4> QED
          BY <1>10, <4>1, <4>2
      <3> QED
        BY <1>10, <3>1 DEF ModelOK, DataTyped, Alters, Fields
    <2>3. w.cmds = u.cmds
      BY <1>10 DEF Alters, Fields
    <2> QED
      BY <1>1, <2>1, <2>2, <2>3 DEF ModelOK
  <1>12. PICK cs : cs = shown \o unseen
    OBVIOUS
  <1>13. /\ cs \in Seq(UiCommands)
         /\ \A n \in DOMAIN shown : n \in DOMAIN cs /\ cs[n] = shown[n]
         /\ \A n \in DOMAIN unseen : Len(shown) + n \in DOMAIN cs /\ cs[Len(shown) + n] = unseen[n]
    BY <1>5, <1>7, <1>12
  <1>14. /\ Alters(w, v, {"cmds"}) /\ ModelOK(v)
         /\ \A n \in DOMAIN cs : Sends(v, cs[n].what, cs[n].id)
    BY <1>9, <1>11, <1>12, <1>13, EmitOK
  <1>15. \A what, id : (\E n \in DOMAIN shown : shown[n].what = what /\ shown[n].id = id)
                       \/ (\E n \in DOMAIN unseen : unseen[n].what = what /\ unseen[n].id = id) => Sends(v, what, id)
    BY <1>13, <1>14
  <1>16. /\ Alters(u, v, {"ticketList", "flowList", "workerList", "dirty", "changed", "cooling", "cmds"})
         /\ v.dirty = {} /\ v.changed = {} /\ v.ticketList = w.ticketList /\ v.flowList = w.flowList /\ v.workerList = w.workerList
    BY <1>10, <1>14 DEF Alters, Fields
  <1>17. \A k \in ListKeys : u.tab = TabOf(k) \/ TabOf(k) \notin u.dirty => v[FieldOf(k)] = u[FieldOf(k)]
    BY <1>3, <1>10, <1>16 DEF ListKeys, TabOf, FieldOf
  <1> QED
    BY <1>5, <1>7, <1>14, <1>15, <1>16, <1>17 DEF Flushed

LEMMA FlushInv ==
    ASSUME NEW u, NEW rs, NEW s, NEW es, NEW ex, NEW nw, NEW un, NEW wr, NEW di, NEW re, NEW ma,
           InvOf(u, rs, s, es, ex, nw, un, wr, di, re, ma), NEW v, Flushed(u, v),
           NEW rs2, Follows(rs, {}, v.cmds, s, rs2)
    PROVE  InvOf(v, rs2, s, es, ex, nw, un, wr, di, re, ma)
  <1>1. /\ ModelOK(u) /\ ServerOK(s) /\ RequestsOK(rs, s) /\ es \subseteq EventSet
        /\ ObserversOK(s, ex, nw, un, wr, ma) /\ FreshAll(u, rs, s, es, ex, nw)
        /\ StallsOK(u, rs, s, es, un) /\ NavOK(u) /\ GotoOK(u) /\ DraftsOK(u, rs, wr, di, re, ma)
    BY DEF InvOf, TypedAll
  <1>2. ModelOK(v) /\ v.cmds \in Seq(UiCommands) /\ v.dirty = {} /\ v.changed = {}
    BY DEF Flushed, ModelOK
  <1>3. /\ v.tab = u.tab /\ v.stacks = u.stacks /\ v.handlers = u.handlers /\ v.overlay = u.overlay
        /\ v.known = u.known /\ v.detail = u.detail /\ v.activities = u.activities
    BY DEF Flushed, Alters, Fields
  <1>4. CurrentPage(v) = CurrentPage(u)
    BY <1>3 DEF CurrentPage
  <1>5. NavOK(v) /\ GotoOK(v)
    BY <1>1, <1>3, <1>4 DEF NavOK, GotoOK, StacksOK, HandlersOK, OnTop, Owed, Owes
  <1>6. Launched(v, s, rs2) /\ \A r \in rs : r \in rs2
    BY DEF Follows, Launched
  <1>7. RequestsOK(rs2, s)
    <2>1. Later(s, s)
      BY <1>1, VersionTyped DEF Later
    <2> QED
      BY <1>1, <1>2, <2>1, RequestsStep
  <1>8. ASSUME NEW k \in ListKeys PROVE ListFresh(k, v, rs2, s, es, ex, nw)
    <2>1. SUFFICES ASSUME CurrentPage(u).kind = KindOf(k) PROVE ListFresh(k, v, rs2, s, es, ex, nw)
      BY <1>4 DEF ListFresh
    <2>2. u.tab = TabOf(k)
      BY <1>1, <2>1, PageTab DEF ModelOK, NavOK
    <2>3. CASE TabOf(k) \in u.dirty
      <3>1. Sends(v, k, NoId)
        BY <2>2, <2>3 DEF Flushed
      <3>2. Asked(k, NoId, s, rs2)
        BY <1>6, <3>1, SentAsked
      <3> QED
        BY <3>2 DEF Asked, ListFresh
    <2>4. CASE TabOf(k) \notin u.dirty
      <3>1. v[FieldOf(k)] = u[FieldOf(k)]
        BY <2>4 DEF Flushed
      <3>2. ListFresh(k, u, rs, s, es, ex, nw)
        BY <1>1 DEF FreshAll
      <3> QED
        BY <1>4, <1>6, <2>4, <3>1, <3>2 DEF ListFresh
    <2> QED
      BY <2>3, <2>4
  <1>9. DetailFresh(v, rs2, s, es, ex, nw)
    <2>1. DetailFresh(u, rs, s, es, ex, nw)
      BY <1>1 DEF FreshAll
    <2>2. SUFFICES ASSUME CurrentPage(u).kind = "TicketDetail" PROVE DetailFresh(v, rs2, s, es, ex, nw)
      BY <1>4 DEF DetailFresh
    <2>3. CASE u.tab = "Tickets" /\ "Tickets" \in u.dirty
      <3>1. u.detail # NoDetail /\ u.detail.id = CurrentPage(u).id /\ u.detail.data # NotLoaded
        BY <2>1, <2>2 DEF DetailFresh, NoDetail
      <3>2. Sends(v, "detail", u.detail.id)
        BY <2>3, <3>1 DEF Flushed
      <3>3. Asked("detail", u.detail.id, s, rs2)
        BY <1>6, <3>2, SentAsked
      <3>4. \E r \in rs2 : r.cmd.what = "detail" /\ r.cmd.id = v.detail.id /\ r.since = s.tickets
        BY <1>3, <3>3, VersionIs DEF Asked
      <3> QED
        BY <1>3, <1>4, <3>1, <3>4 DEF DetailFresh
    <2>4. CASE ~(u.tab = "Tickets" /\ "Tickets" \in u.dirty)
      BY <1>3, <1>4, <1>6, <2>1, <2>4 DEF DetailFresh
    <2> QED
      BY <2>3, <2>4
  <1>10. ActivitiesFresh(v, rs2, s, es, ex, nw)
    <2>1. ActivitiesFresh(u, rs, s, es, ex, nw)
      BY <1>1 DEF FreshAll
    <2>2. SUFFICES ASSUME CurrentPage(u).kind = "TicketActivities" PROVE ActivitiesFresh(v, rs2, s, es, ex, nw)
      BY <1>4 DEF ActivitiesFresh
    <2>3. Tracked(v) = Tracked(u) /\ u.activities.id = CurrentPage(u).id /\ u.activities.data # NotLoaded
      BY <1>3, <2>1, <2>2 DEF Tracked, ActivitiesFresh
    <2>4. CASE Tracked(u) /\ "Tickets" \in u.dirty
      <3>1. u.detail # NoDetail /\ u.tab = "Tickets" /\ u.activities.id = u.detail.id
        BY <2>4 DEF Tracked, NoDetail
      <3>2. Sends(v, "activities", u.detail.id)
        BY <2>4, <3>1 DEF Flushed
      <3>3. Asked("activities", u.detail.id, s, rs2)
        BY <1>6, <3>2, SentAsked
      <3>4. \E r \in rs2 : r.cmd.what = "activities" /\ r.cmd.id = v.activities.id /\ r.since = s.tickets
        BY <1>3, <3>1, <3>3, VersionIs DEF Asked
      <3> QED
        BY <1>3, <1>4, <2>3, <3>4 DEF ActivitiesFresh
    <2>5. CASE ~(Tracked(u) /\ "Tickets" \in u.dirty)
      BY <1>3, <1>4, <1>6, <2>1, <2>2, <2>3, <2>5 DEF ActivitiesFresh
    <2> QED
      BY <2>4, <2>5
  <1>11. StallsOK(v, rs2, s, es, un)
    <2>1. ASSUME NEW i \in un PROVE StallKnown(i, v, rs2, s, es)
      <3>1. StallKnown(i, u, rs, s, es)
        BY <1>1 DEF StallsOK
      <3>2. CASE i \in u.changed
        <4>1. "Flows" \in u.dirty
          BY <1>1, <3>2 DEF StallsOK
        <4>2. \E r \in rs2 : Tells(r, i) /\ r.since = Len(s.flows)
          <5>1. CASE u.tab = "Flows"
            <6>1. Sends(v, "flows", NoId)
              BY <4>1, <5>1 DEF Flushed, ListKeys, TabOf
            <6>2. Asked("flows", NoId, s, rs2)
              BY <1>6, <6>1, SentAsked
            <6> QED
              BY <6>2, VersionIs DEF Asked, Tells
          <5>2. CASE u.tab # "Flows"
            <6>1. Sends(v, "notify", i)
              BY <3>2, <4>1, <5>2 DEF Flushed
            <6>2. Asked("notify", i, s, rs2)
              BY <1>6, <6>1, SentAsked
            <6> QED
              BY <6>2, VersionIs DEF Asked, Tells
          <5> QED
            BY <5>1, <5>2
        <4>3. PICK n \in Nat : n = Len(s.flows) /\ Last(s.flows) = s.flows[n]
          BY <1>1 DEF ServerOK, Last
        <4>4. \A x \in n..n : x = n
          OBVIOUS
        <4>5. u.known[i] = "going" /\ s.flows[n][i] = "stalled"
          BY <3>1, <4>3 DEF StallKnown
        <4>6. \E r \in rs2 : Tells(r, i) /\ \A x \in r.since..Len(s.flows) : s.flows[x][i] = "stalled"
          BY <4>2, <4>3, <4>4, <4>5
        <4> QED
          BY <1>3, <3>1, <4>6 DEF StallKnown
      <3>3. CASE i \notin u.changed
        BY <1>3, <1>6, <3>1, <3>3 DEF StallKnown
      <3> QED
        BY <3>2, <3>3
    <2> QED
      BY <1>2, <2>1 DEF StallsOK
  <1>12. DraftsOK(v, rs2, wr, di, re, ma)
    BY <1>1, <1>3, <1>6, DraftsKept
  <1> QED
    BY <1>1, <1>2, <1>5, <1>7, <1>8, <1>9, <1>10, <1>11, <1>12 DEF InvOf, TypedAll, FreshAll

LEMMA UiEventStep ==
    ASSUME UiInv, UiEvent
    PROVE  UiInv'
  <1>1. PICK D : D = UNION {DirtyTabs(e) : e \in events}
    OBVIOUS
  <1>2. PICK C : C = {e.id : e \in {f \in events : f.type = "workflow"}}
    OBVIOUS
  <1>3. PICK w : w = [ui EXCEPT !.dirty = @ \cup D, !.changed = @ \cup C]
    OBVIOUS
  <1>4. Alters(ui, w, {"dirty", "changed"}) /\ w.dirty = ui.dirty \cup D /\ w.changed = ui.changed \cup C /\ w.cmds = ui.cmds
    BY <1>3, UiFacts DEF IsModel, Alters, Fields
  <1>5. PICK rs : rs = BagToSet(requests)
    OBVIOUS
  <1>6. InvOf(w, rs, server, {}, excused, newest, unnoticed, written, discarded, dropped, made)
    BY <1>1, <1>2, <1>4, <1>5, UiFacts, MarkedInv
  <1>7. ModelOK(w) /\ w.cmds = <<>>
    BY <1>4, <1>6, UiFacts DEF InvOf, TypedAll
  <1>8. PICK v : v = Marked(ui, events)
    OBVIOUS
  <1>9. v = IF ShouldFlush(w) THEN FlushThrottle(w) ELSE w
    BY <1>1, <1>2, <1>3, <1>8 DEF Marked
  <1>10. /\ Runs(SetToBag({}), v) /\ server' = server /\ events' = {} /\ excused' = excused /\ newest' = newest
         /\ unnoticed' = unnoticed /\ written' = written /\ discarded' = discarded /\ dropped' = dropped /\ made' = made
    BY <1>8 DEF UiEvent, observers, EmptyBag
  <1>11. /\ ModelOK(v)
         /\ \A rs2 : Follows(rs, {}, v.cmds, server, rs2) =>
                InvOf(v, rs2, server, {}, excused, newest, unnoticed, written, discarded, dropped, made)
    <2>1. CASE ShouldFlush(w)
      <3>1. Flushed(w, v)
        BY <1>7, <1>9, <2>1, FlushFlushed
      <3>2. ModelOK(v)
        BY <3>1 DEF Flushed
      <3> QED
        BY <1>6, <3>1, <3>2, FlushInv
    <2>2. CASE ~ShouldFlush(w)
      <3>1. v = w
        BY <1>9, <2>2
      <3>2. ASSUME NEW rs2, Follows(rs, {}, v.cmds, server, rs2) PROVE rs2 = rs
        <4>1. DOMAIN v.cmds = {}
          BY <1>7, <3>1
        <4> QED
          BY <3>2, <4>1 DEF Follows
      <3> QED
        BY <1>6, <1>7, <3>1, <3>2
    <2> QED
      BY <2>1, <2>2
  <1>12. \A rs2 : Follows(BagToSet(requests), {}, v.cmds, server', rs2) =>
                      InvOf(v, rs2, server', events', excused', newest', unnoticed', written', discarded', dropped', made')
    BY <1>5, <1>10, <1>11
  <1> QED
    BY <1>10, <1>11, <1>12, Ran

LEMMA TickStep ==
    ASSUME UiInv, Tick
    PROVE  UiInv'
  <1>1. PICK v : v = FlushThrottle(ui)
    OBVIOUS
  <1>2. Ticked(ui) = v
    BY <1>1 DEF Tick, Ticked
  <1>3. /\ Runs(SetToBag({}), v) /\ server' = server /\ events' = events /\ excused' = excused /\ newest' = newest
        /\ unnoticed' = unnoticed /\ written' = written /\ discarded' = discarded /\ dropped' = dropped /\ made' = made
    BY <1>2 DEF Tick, observers, EmptyBag
  <1>4. Flushed(ui, v)
    BY <1>1, UiFacts, FlushFlushed
  <1>5. ModelOK(v)
    BY <1>4 DEF Flushed
  <1>6. ASSUME NEW rs2, Follows(BagToSet(requests), {}, v.cmds, server, rs2)
        PROVE  InvOf(v, rs2, server, events, excused, newest, unnoticed, written, discarded, dropped, made)
    BY <1>4, <1>6, UiFacts, FlushInv
  <1>7. \A rs2 : Follows(BagToSet(requests), {}, v.cmds, server', rs2) =>
                      InvOf(v, rs2, server', events', excused', newest', unnoticed', written', discarded', dropped', made')
    BY <1>3, <1>6
  <1> QED
    BY <1>3, <1>5, <1>7, Ran

-----------------------------------------------------------------------------
(* Answers *)

\* The fields an answer may change, and what it leaves alone.
AnswerFields == {"ticketList", "rows", "detail", "activities", "flowList", "flowDetail", "workerList", "known"}
Same(u, v) ==
    /\ v.tab = u.tab /\ v.stacks = u.stacks /\ v.handlers = u.handlers /\ v.overlay = u.overlay
    /\ v.dirty = u.dirty /\ v.changed = u.changed /\ v.cmds = u.cmds

\* The answer c, read from version n of the server s, or an error with n the
\* current version, turns the model u into v.
Applied(u, v, c, n, s) ==
    /\ ModelOK(v) /\ Same(u, v)
    /\ \A k \in ListKeys : k # c.what => v[FieldOf(k)] = u[FieldOf(k)]
    /\ \A k \in ListKeys : k = c.what /\ n = Version(s, k) => UpToDate(k, v[FieldOf(k)], s)
    /\ c.what # "detail" => v.detail = u.detail
    /\ c.what = "detail" =>
           /\ v.detail.id = u.detail.id
           /\ \/ u.detail = NoDetail
              \/ v.detail.data = Failed
              \/ IsLoaded(v.detail.data) /\ v.detail.data.data.id = c.id /\ v.detail.data.data.rev = n
    /\ c.what # "activities" \/ c.id # u.activities.id => v.activities = u.activities
    /\ c.what = "activities" /\ c.id = u.activities.id =>
           /\ v.activities.id = u.activities.id
           /\ v.activities.data = Failed \/ (IsLoaded(v.activities.data) /\ v.activities.data.data.rev = n)

LEMMA Updated ==
    ASSUME NEW u, ModelOK(u), NEW v, NEW F, Alters(u, v, F), F \subseteq AnswerFields, DataTyped(v)
    PROVE  ModelOK(v) /\ Same(u, v)
  <1>1. NavTyped(v)
    BY NavSame DEF ModelOK, AnswerFields
  <1>2. Same(u, v)
    BY DEF Same, Alters, Fields, AnswerFields
  <1> QED
    BY <1>1, <1>2 DEF ModelOK, Same

\* A list is replaced.
LEMMA ListApplied ==
    ASSUME NEW u, ModelOK(u), NEW c, NEW n, NEW s, c.what \in ListKeys,
           NEW v, Alters(u, v, {FieldOf(c.what), "rows", "known", "flowDetail"}), DataTyped(v),
           n = Version(s, c.what) => UpToDate(c.what, v[FieldOf(c.what)], s)
    PROVE  Applied(u, v, c, n, s)
  <1>1. PICK k \in ListKeys : k = c.what
    OBVIOUS
  <1>2. PICK F : F = {FieldOf(k), "rows", "known", "flowDetail"}
    OBVIOUS
  <1>3. F \subseteq AnswerFields /\ "detail" \notin F /\ "activities" \notin F
        /\ \A x \in ListKeys : FieldOf(x) \in Fields /\ (x = k \/ FieldOf(x) \notin F)
    BY <1>2 DEF ListKeys, FieldOf, AnswerFields, Fields
  <1>4. Alters(u, v, F)
    BY <1>1, <1>2
  <1>5. ModelOK(v) /\ Same(u, v)
    BY <1>3, <1>4, Updated
  <1>6. v.detail = u.detail /\ v.activities = u.activities /\ \A x \in ListKeys : x = k \/ v[FieldOf(x)] = u[FieldOf(x)]
    BY <1>3, <1>4 DEF Alters, Fields
  <1>7. k # "detail" /\ k # "activities"
    BY DEF ListKeys
  <1> QED
    BY <1>1, <1>5, <1>6, <1>7 DEF Applied

\* The open ticket, the activities and the rest.
LEMMA DetailApplied ==
    ASSUME NEW u, ModelOK(u), NEW c, NEW n, NEW s, c.what = "detail",
           NEW v, Alters(u, v, {"detail"}),
           NEW d \in Load(DetailData), v.detail.data = d, v.detail.id = u.detail.id, v.detail.closed = u.detail.closed,
           v.detail = [id |-> v.detail.id, data |-> v.detail.data, closed |-> v.detail.closed, rows |-> v.detail.rows],
           v.detail.rows \in BOOLEAN,
           d = Failed \/ (IsLoaded(d) /\ d.data.id = c.id /\ d.data.rev = n)
    PROVE  Applied(u, v, c, n, s)
  <1>1. DataTyped(v)
    <2>1. v.detail \in [id : IdsN, data : Load(DetailData), closed : BOOLEAN, rows : BOOLEAN]
      BY DEF ModelOK, DataTyped
    <2> QED
      BY <2>1 DEF ModelOK, DataTyped, Alters, Fields
  <1>2. ModelOK(v) /\ Same(u, v)
    BY <1>1, Updated DEF AnswerFields
  <1>3. v.activities = u.activities /\ \A k \in ListKeys : v[FieldOf(k)] = u[FieldOf(k)] /\ k # c.what
    BY DEF Alters, Fields, ListKeys, FieldOf
  <1> QED
    BY <1>2, <1>3 DEF Applied

LEMMA ActivitiesApplied ==
    ASSUME NEW u, ModelOK(u), NEW c, NEW n, NEW s, c.what = "activities", c.id = u.activities.id,
           NEW v, Alters(u, v, {"activities"}),
           v.activities \in [id : IdsN, data : Load(ActivityData), authors : BOOLEAN, author : {0, 1}],
           v.activities.id = u.activities.id,
           v.activities.data = Failed \/ (IsLoaded(v.activities.data) /\ v.activities.data.data.rev = n)
    PROVE  Applied(u, v, c, n, s)
  <1>1. DataTyped(v)
    BY DEF ModelOK, DataTyped, Alters, Fields
  <1>2. ModelOK(v) /\ Same(u, v)
    BY <1>1, Updated DEF AnswerFields
  <1>3. v.detail = u.detail /\ \A k \in ListKeys : v[FieldOf(k)] = u[FieldOf(k)] /\ k # c.what
    BY DEF Alters, Fields, ListKeys, FieldOf
  <1> QED
    BY <1>2, <1>3 DEF Applied

LEMMA OtherApplied ==
    ASSUME NEW u, ModelOK(u), NEW c, NEW n, NEW s, c.what \in {"flow", "notify"} \/ (c.what = "detail" /\ u.detail = NoDetail)
                  \/ (c.what = "activities" /\ c.id # u.activities.id),
           NEW v, Alters(u, v, {"flowDetail", "known"}), DataTyped(v)
    PROVE  Applied(u, v, c, n, s)
  <1>2. ModelOK(v) /\ Same(u, v)
    BY Updated DEF AnswerFields
  <1>3. v.detail = u.detail /\ v.activities = u.activities /\ \A k \in ListKeys : v[FieldOf(k)] = u[FieldOf(k)] /\ k # c.what
    BY DEF Alters, Fields, ListKeys, FieldOf
  <1> QED
    BY <1>2, <1>3 DEF Applied

\* What the observers make of it.
Counts(c, u) == c.what \in Lists /\ (c.what = "activities" => u.activities.id = c.id)
Observing(c, n, u, ex, nw, ex2, nw2) ==
    /\ nw2 = IF Counts(c, u) /\ n > nw[c.what] THEN [nw EXCEPT ![c.what] = n] ELSE nw
    /\ ex2 = IF Counts(c, u) /\ (n < nw[c.what] \/ (c.what = "detail" /\ u.detail.id # c.id)) THEN ex \cup {c.what} ELSE ex

\* The stalls that remain to be told were not in the answer.
Heard(r, n, v, s, un, un2) ==
    /\ un2 \subseteq un
    /\ \A i \in un2 : /\ v.known[i] = "going"
                      /\ Tells(r, i) => n \in r.since..Len(s.flows) /\ s.flows[n][i] # "stalled"

Noted(c, n, u, ex, nw, ex2, nw2) ==
    /\ ex \subseteq ex2 /\ \A k \in Lists : k # c.what => nw2[k] = nw[k]
    /\ Counts(c, u) => nw[c.what] \in Nat /\ (c.what \in ex2 \/ (n >= nw[c.what] /\ nw2[c.what] = n))
    /\ Counts(c, u) \/ nw2 = nw
    /\ c.what = "detail" => "detail" \in ex2 \/ u.detail.id = c.id
Fits(n, c, s) == n \in Nat /\ n <= Version(s, c.what) /\ c.what \in Whats

LEMMA ObservedTyped ==
    ASSUME NEW c, NEW u, NEW s, NEW ex, NEW nw, NEW un, NEW wr, NEW ma, ServerOK(s), ObserversOK(s, ex, nw, un, wr, ma),
           NEW n, Fits(n, c, s),
           NEW ex2, NEW nw2, Observing(c, n, u, ex, nw, ex2, nw2), NEW un2, un2 \subseteq un
    PROVE  ObserversOK(s, ex2, nw2, un2, wr, ma) /\ Noted(c, n, u, ex, nw, ex2, nw2)
  <1>1. nw \in [Lists -> Nat] /\ (\A k \in Lists : nw[k] <= Version(s, k)) /\ ex \subseteq Lists /\ un \subseteq Ids
        /\ wr \subseteq Drafts /\ ma \in [Drafts -> Nat] /\ n \in Nat /\ n <= Version(s, c.what)
    BY DEF ObserversOK, Fits
  <1>2. CASE ~Counts(c, u)
    <2>1. nw2 = nw /\ ex2 = ex /\ c.what # "detail"
      BY <1>2 DEF Observing, Counts, Lists
    <2> QED
      BY <1>1, <1>2, <2>1 DEF ObserversOK, Noted
  <1>3. CASE Counts(c, u)
    <2>1. PICK k \in Lists : k = c.what
      BY <1>3 DEF Counts
    <2>2. nw2 \in [Lists -> Nat] /\ (\A x \in Lists : x # k => nw2[x] = nw[x]) /\ nw2[k] = (IF n > nw[k] THEN n ELSE nw[k])
      BY <1>1, <1>3, <2>1 DEF Observing
    <2>3. ex2 \subseteq Lists /\ ex \subseteq ex2 /\ (n < nw[k] => k \in ex2) /\ (k = "detail" => "detail" \in ex2 \/ u.detail.id = c.id)
      BY <1>1, <1>3, <2>1 DEF Observing
    <2>4. nw[k] \in Nat
      BY <1>1
    <2>5. nw2[k] <= Version(s, k)
      BY <1>1, <2>1, <2>2, <2>4
    <2>6. \A x \in Lists : nw2[x] <= Version(s, x)
      BY <1>1, <2>2, <2>5
    <2>7. k \in ex2 \/ (n >= nw[k] /\ nw2[k] = n)
      BY <1>1, <2>2, <2>3, <2>4
    <2> QED
      BY <1>1, <1>3, <2>1, <2>2, <2>3, <2>4, <2>6, <2>7 DEF ObserversOK, Noted
  <1> QED
    BY <1>2, <1>3

\* The request r is over.
LEMMA AnswerInv ==
    ASSUME NEW u, NEW rs, NEW s, NEW es, NEW ex, NEW nw, NEW un, NEW wr, NEW di, NEW re, NEW ma,
           InvOf(u, rs, s, es, ex, nw, un, wr, di, re, ma),
           NEW r \in rs, r.cmd.what \notin {"create", "stop"},
           NEW n \in Nat, r.since <= n, n <= Version(s, r.cmd.what),
           NEW v, Applied(u, v, r.cmd, n, s),
           NEW ex2, NEW nw2, Observing(r.cmd, n, u, ex, nw, ex2, nw2),
           NEW un2, Heard(r, n, v, s, un, un2),
           NEW rs2, Follows(rs, {r}, v.cmds, s, rs2)
    PROVE  InvOf(v, rs2, s, es, ex2, nw2, un2, wr, di, re, ma)
  <1>1. /\ ModelOK(u) /\ ServerOK(s) /\ RequestsOK(rs, s) /\ es \subseteq EventSet
        /\ ObserversOK(s, ex, nw, un, wr, ma) /\ FreshAll(u, rs, s, es, ex, nw)
        /\ StallsOK(u, rs, s, es, un) /\ NavOK(u) /\ GotoOK(u) /\ DraftsOK(u, rs, wr, di, re, ma)
    BY DEF InvOf, TypedAll
  <1>2. ModelOK(v) /\ Same(u, v) /\ v.cmds \in Seq(UiCommands)
    BY DEF Applied, ModelOK
  <1>3. PICK what \in Whats : what = r.cmd.what
    BY <1>1, CommandWhat DEF RequestsOK
  <1>4. Version(s, what) \in Nat /\ r.since \in Nat
    BY <1>1, <1>3, VersionTyped DEF RequestsOK
  <1>5. /\ v.tab = u.tab /\ v.stacks = u.stacks /\ v.handlers = u.handlers /\ v.overlay = u.overlay
        /\ v.dirty = u.dirty /\ v.changed = u.changed
    BY <1>2 DEF Same
  <1>6. CurrentPage(v) = CurrentPage(u)
    BY <1>5 DEF CurrentPage
  <1>7. NavOK(v) /\ GotoOK(v)
    BY <1>1, <1>5, <1>6 DEF NavOK, GotoOK, StacksOK, HandlersOK, OnTop, Owed, Owes
  <1>8. \A x \in rs : x \in rs2 \/ x = r
    BY DEF Follows
  <1>9. RequestsOK(rs2, s)
    <2>1. Later(s, s)
      BY <1>1, VersionTyped DEF Later
    <2> QED
      BY <1>1, <1>2, <2>1, RequestsStep
  <1>10. /\ ObserversOK(s, ex2, nw2, un2, wr, ma) /\ ex \subseteq ex2
         /\ \A k \in Lists : k # what => nw2[k] = nw[k]
         /\ Counts(r.cmd, u) => nw[what] \in Nat /\ (what \in ex2 \/ (n >= nw[what] /\ nw2[what] = n))
         /\ Counts(r.cmd, u) \/ nw2 = nw
         /\ what = "detail" => "detail" \in ex2 \/ u.detail.id = r.cmd.id
    <2>1. un2 \subseteq un
      BY DEF Heard
    <2>2. PICK c : c = r.cmd
      OBVIOUS
    <2>3. Fits(n, c, s) /\ Observing(c, n, u, ex, nw, ex2, nw2)
      BY <1>3, <2>2 DEF Fits
    <2>4. ObserversOK(s, ex2, nw2, un2, wr, ma) /\ Noted(c, n, u, ex, nw, ex2, nw2)
      BY <1>1, <2>1, <2>3, ObservedTyped
    <2> QED
      BY <1>3, <2>2, <2>4 DEF Noted
  <1>11. ASSUME NEW k \in ListKeys PROVE ListFresh(k, v, rs2, s, es, ex2, nw2)
    <2>1. ListFresh(k, u, rs, s, es, ex, nw)
      BY <1>1 DEF FreshAll
    <2>2. k \in Lists /\ (k = what => Counts(r.cmd, u))
      BY <1>3 DEF ListKeys, Lists, Counts
    <2>3. CASE k # what
      <3>1. v[FieldOf(k)] = u[FieldOf(k)] /\ nw2[k] = nw[k]
        BY <1>3, <1>10, <2>2, <2>3 DEF Applied
      <3>2. Alike(k, s, s)
        BY DEF Alike
      <3>3. \A x \in rs : x \in rs2 \/ (x.cmd.what # k /\ (k = "workers" => x.cmd.what # "stop"))
        BY <1>3, <1>8, <2>3
      <3> QED
        BY <1>5, <1>10, <2>1, <3>1, <3>2, <3>3, ListKept
    <2>4. CASE k = what /\ k \in ex2
      BY <2>4 DEF ListFresh
    <2>5. CASE k = what /\ n >= nw[k] /\ nw2[k] = n /\ n = Version(s, k)
      <3>1. UpToDate(k, v[FieldOf(k)], s)
        BY <1>3, <2>5 DEF Applied
      <3> QED
        BY <2>5, <3>1 DEF ListFresh
    <2>6. CASE k = what /\ n >= nw[k] /\ nw2[k] = n /\ n # Version(s, k)
      <3>1. nw[k] \in Nat /\ Version(s, k) \in Nat /\ n < Version(s, k)
        BY <1>3, <1>4, <1>10, <2>2, <2>6
      <3>2. r.since # Version(s, k) /\ nw[k] # Version(s, k)
        BY <1>4, <2>6, <3>1
      <3>3. r.cmd.what # "stop"
        OBVIOUS
      <3> QED
        BY <1>5, <1>6, <1>8, <1>10, <2>1, <3>2, <3>3 DEF ListFresh
    <2> QED
      BY <1>10, <2>2, <2>3, <2>4, <2>5, <2>6
  <1>12. DetailFresh(v, rs2, s, es, ex2, nw2)
    <2>1. DetailFresh(u, rs, s, es, ex, nw)
      BY <1>1 DEF FreshAll
    <2>2. CASE what # "detail"
      <3>1. v.detail = u.detail /\ nw2["detail"] = nw["detail"]
        BY <1>3, <1>10, <2>2 DEF Applied, Lists
      <3>2. \A x \in rs : x \in rs2 \/ x.cmd.what # "detail"
        BY <1>3, <1>8, <2>2
      <3> QED
        BY <1>5, <1>10, <2>1, <3>1, <3>2, DetailKept
    <2>3. CASE what = "detail" /\ CurrentPage(u).kind = "TicketDetail"
      <3>1. u.detail.id = CurrentPage(u).id /\ u.detail # NoDetail
        BY <2>1, <2>3 DEF DetailFresh, NoDetail
      <3>2. /\ v.detail.id = u.detail.id
            /\ \/ v.detail.data = Failed
               \/ IsLoaded(v.detail.data) /\ v.detail.data.data.id = r.cmd.id /\ v.detail.data.data.rev = n
        BY <1>3, <2>3, <3>1 DEF Applied
      <3>3. v.detail.data # NotLoaded
        BY <3>2, LoadTyped
      <3>4. CASE "detail" \in ex2
        BY <1>6, <3>1, <3>2, <3>3, <3>4 DEF DetailFresh
      <3>5. CASE "detail" \notin ex2
        <4>1. u.detail.id = r.cmd.id /\ n >= nw["detail"] /\ nw2["detail"] = n /\ nw["detail"] \in Nat
          BY <1>3, <1>10, <2>3, <3>5 DEF Lists, Counts
        <4>2. CASE u.tab # "Tickets" \/ n = s.tickets
          BY <1>5, <1>6, <3>1, <3>2, <3>3, <4>1, <4>2 DEF DetailFresh
        <4>3. CASE u.tab = "Tickets" /\ n # s.tickets
          <5>1. s.tickets \in Nat /\ n < s.tickets
            BY <1>3, <1>4, <2>3, <4>3, VersionIs
          <5>2. r.since # s.tickets /\ nw["detail"] # s.tickets
            BY <1>4, <4>1, <5>1
          <5>3. "detail" \notin ex
            BY <1>10, <3>5
          <5>4. \/ "Tickets" \in u.dirty \/ \E e \in es : e.type = "ticket"
                \/ \E x \in rs : x.cmd.what = "detail" /\ x.cmd.id = u.detail.id /\ x.since = s.tickets
            BY <2>1, <2>3, <4>3, <5>2, <5>3 DEF DetailFresh
          <5>5. \A x \in rs : x.since = s.tickets => x \in rs2
            BY <1>8, <5>2
          <5> QED
            BY <1>5, <1>6, <3>1, <3>2, <3>3, <4>3, <5>4, <5>5 DEF DetailFresh
        <4> QED
          BY <4>2, <4>3
      <3> QED
        BY <3>4, <3>5
    <2>4. CASE CurrentPage(u).kind # "TicketDetail"
      BY <1>6, <2>4 DEF DetailFresh
    <2> QED
      BY <2>2, <2>3, <2>4
  <1>13. ActivitiesFresh(v, rs2, s, es, ex2, nw2)
    <2>1. ActivitiesFresh(u, rs, s, es, ex, nw)
      BY <1>1 DEF FreshAll
    <2>2. v.detail.id = u.detail.id
      BY DEF Applied
    <2>3. CASE what # "activities" \/ r.cmd.id # u.activities.id
      <3>1. v.activities = u.activities
        BY <1>3, <2>3 DEF Applied
      <3>2. nw2["activities"] = nw["activities"]
        BY <1>3, <1>10, <2>3 DEF Counts, Lists
      <3>3. "activities" \in ex => "activities" \in ex2
        BY <1>10
      <3>4. \A x \in rs : x \in rs2 \/ x.cmd.what # "activities" \/ x.cmd.id # u.activities.id
        BY <1>3, <1>8, <2>3
      <3>5. Tracked(v) = Tracked(u)
        BY <1>5, <2>2, <3>1 DEF Tracked
      <3> QED
        BY <1>5, <1>6, <2>1, <3>1, <3>2, <3>3, <3>4, <3>5 DEF ActivitiesFresh
    <2>4. CASE what = "activities" /\ r.cmd.id = u.activities.id /\ CurrentPage(u).kind = "TicketActivities"
      <3>1. u.activities.id = CurrentPage(u).id
        BY <2>1, <2>4 DEF ActivitiesFresh
      <3>2. /\ v.activities.id = u.activities.id
            /\ v.activities.data = Failed \/ (IsLoaded(v.activities.data) /\ v.activities.data.data.rev = n)
        BY <1>3, <2>4 DEF Applied
      <3>3. v.activities.data # NotLoaded
        BY <3>2, LoadTyped
      <3>4. Tracked(v) = Tracked(u)
        BY <1>5, <2>2, <3>2 DEF Tracked
      <3>5. CASE "activities" \in ex2
        BY <1>6, <3>1, <3>2, <3>3, <3>5 DEF ActivitiesFresh
      <3>6. CASE "activities" \notin ex2
        <4>1. n >= nw["activities"] /\ nw2["activities"] = n /\ nw["activities"] \in Nat
          BY <1>3, <1>10, <2>4, <3>6 DEF Lists, Counts
        <4>2. CASE ~Tracked(u) \/ n = s.tickets
          BY <1>6, <3>1, <3>2, <3>3, <3>4, <4>1, <4>2 DEF ActivitiesFresh
        <4>3. CASE Tracked(u) /\ n # s.tickets
          <5>1. s.tickets \in Nat /\ n < s.tickets
            BY <1>3, <1>4, <2>4, <4>3, VersionIs
          <5>2. r.since # s.tickets /\ nw["activities"] # s.tickets
            BY <1>4, <4>1, <5>1
          <5>3. "activities" \notin ex
            BY <1>10, <3>6
          <5>4. \/ "Tickets" \in u.dirty \/ \E e \in es : e.type = "ticket"
                \/ \E x \in rs : x.cmd.what = "activities" /\ x.cmd.id = u.activities.id /\ x.since = s.tickets
            BY <2>1, <2>4, <4>3, <5>2, <5>3 DEF ActivitiesFresh
          <5>5. \A x \in rs : x.since = s.tickets => x \in rs2
            BY <1>8, <5>2
          <5> QED
            BY <1>5, <1>6, <3>1, <3>2, <3>3, <3>4, <4>3, <5>4, <5>5 DEF ActivitiesFresh
        <4> QED
          BY <4>2, <4>3
      <3> QED
        BY <3>5, <3>6
    <2>5. CASE CurrentPage(u).kind # "TicketActivities"
      BY <1>6, <2>5 DEF ActivitiesFresh
    <2> QED
      BY <2>3, <2>4, <2>5
  <1>14. StallsOK(v, rs2, s, es, un2)
    <2>1. v.changed # {} => "Flows" \in v.dirty
      BY <1>1, <1>5 DEF StallsOK
    <2>2. ASSUME NEW i \in un2 PROVE StallKnown(i, v, rs2, s, es)
      <3>1. v.known[i] = "going" /\ (Tells(r, i) => n \in r.since..Len(s.flows) /\ s.flows[n][i] # "stalled") /\ i \in un
        BY DEF Heard
      <3>2. StallKnown(i, u, rs, s, es)
        BY <1>1, <3>1 DEF StallsOK
      <3>3. \A x \in rs : Tells(x, i) /\ (\A m \in x.since..Len(s.flows) : s.flows[m][i] = "stalled") => x \in rs2
        BY <1>8, <3>1
      <3> QED
        BY <1>5, <3>1, <3>2, <3>3 DEF StallKnown
    <2> QED
      BY <2>1, <2>2 DEF StallsOK
  <1>15. DraftsOK(v, rs2, wr, di, re, ma)
    <2>1. \A x \in rs : x \in rs2 \/ x.cmd.what # "create"
      BY <1>8
    <2> QED
      BY <1>1, <1>5, <2>1, DraftsKept
  <1> QED
    BY <1>1, <1>2, <1>7, <1>9, <1>10, <1>11, <1>12, <1>13, <1>14, <1>15 DEF InvOf, TypedAll, FreshAll

\* What the model then knows of the workflows.
Knows(u, v, c, n, s) ==
    \A i \in Ids : v.known[i] = IF (c.what = "flows" /\ i \in OnPage(c.arg)) \/ (c.what = "notify" /\ i = c.id)
                                THEN s.flows[n][i] ELSE u.known[i]

\* process_flow_updates.
LEMMA FollowedTyped ==
    ASSUME NEW u, ModelOK(u), NEW F, \A i \in Ids : i \in DOMAIN F => F[i] \in Status, NEW v, v = Followed(u, F)
    PROVE  /\ Alters(u, v, {"known"}) /\ DataTyped(v) /\ v.cmds = u.cmds
           /\ \A i \in Ids : v.known[i] = IF i \in DOMAIN F THEN F[i] ELSE u.known[i]
  <1>1. u.known \in [Ids -> Status \cup {"unseen"}] /\ IsModel(u)
    BY DEF ModelOK, NavTyped, DataTyped
  <1>2. PICK K : K = [i \in Ids |-> IF i \in DOMAIN F THEN F[i] ELSE u.known[i]]
    OBVIOUS
  <1>3. K \in [Ids -> Status \cup {"unseen"}]
    BY <1>1, <1>2
  <1>4. v = [u EXCEPT !.known = K]
    BY <1>2 DEF Followed
  <1>5. Alters(u, v, {"known"}) /\ v.known = K
    BY <1>1, <1>4 DEF IsModel, Alters, Fields
  <1>6. DataTyped(v)
    BY <1>3, <1>5 DEF ModelOK, DataTyped, Alters, Fields
  <1> QED
    BY <1>2, <1>5, <1>6 DEF Alters, Fields

LEMMA FlowsTyped ==
    ASSUME NEW s, ServerOK(s), NEW n \in 1..Len(s.flows)
    PROVE  s.flows[n] \in [Ids -> Status] /\ (n = Len(s.flows) => s.flows[n] = Last(s.flows))
  BY DEF ServerOK, Last

\* FlowsLoaded.
LEMMA FlowsLoadedTyped ==
    ASSUME NEW u, ModelOK(u), NEW P \in SUBSET Ids, NEW F \in [P -> Status], NEW v, v = FlowsLoaded(u, F)
    PROVE  /\ Alters(u, v, {"flowList", "rows", "known", "flowDetail"}) /\ DataTyped(v) /\ v.flowList = Loaded(F)
           /\ \A i \in Ids : v.known[i] = IF i \in P THEN F[i] ELSE u.known[i]
  <1>1. DOMAIN F = P /\ (\A i \in Ids : i \in P => F[i] \in Status) /\ F \in FlowMaps
    BY DEF FlowMaps
  <1>2. PICK w : w = Followed(u, F)
    OBVIOUS
  <1>3. /\ Alters(u, w, {"known"}) /\ DataTyped(w) /\ w.cmds = u.cmds
        /\ \A i \in Ids : w.known[i] = IF i \in P THEN F[i] ELSE u.known[i]
    BY <1>1, <1>2, FollowedTyped
  <1>4. PICK x : x = [w EXCEPT !.flowList = Loaded(F)]
    OBVIOUS
  <1>5. Alters(w, x, {"flowList"}) /\ x.flowList = Loaded(F)
    BY <1>3, <1>4 DEF Alters, IsModel, Fields
  <1>6. DataTyped(x)
    <2>1. Loaded(F) \in Load(FlowMaps)
      BY <1>1, LoadTyped
    <2> QED
      BY <1>3, <1>5, <2>1 DEF DataTyped, Alters, Fields
  <1>7. Alters(u, x, {"flowList", "known"}) /\ x.known = w.known /\ x.cmds = u.cmds
    BY <1>3, <1>5 DEF Alters, Fields
  <1>8. ModelOK(x)
    BY <1>6, <1>7, Updated DEF AnswerFields
  <1>9. CASE x.flowDetail = NoFlow
    <2>1. v = x
      BY <1>2, <1>4, <1>9 DEF FlowsLoaded
    <2> QED
      BY <1>3, <1>5, <1>6, <1>7, <2>1 DEF Alters, Fields
  <1>10. CASE x.flowDetail # NoFlow
    <2>1. PICK i \in IdsN : i = x.flowDetail.id
      BY <1>6 DEF DataTyped
    <2>2. PICK y : y = InitFlowDetail(x, i)
      OBVIOUS
    <2>3. Alters(x, y, {"flowDetail", "cmds"}) /\ ModelOK(y)
      BY <1>8, <2>2, InitFlowDetailOnly
    <2>4. v = [y EXCEPT !.cmds = u.cmds]
      BY <1>2, <1>4, <1>10, <2>1, <2>2 DEF FlowsLoaded
    <2>5. Alters(y, v, {"cmds"}) /\ v.cmds = u.cmds
      BY <2>3, <2>4 DEF Alters, IsModel, Fields
    <2>6. Alters(x, v, {"flowDetail", "cmds"}) /\ v.flowDetail = y.flowDetail
      BY <2>3, <2>5 DEF Alters, Fields
    <2>7. DataTyped(v)
      BY <2>3, <2>5 DEF ModelOK, DataTyped, Alters, Fields
    <2>8. Alters(u, v, {"flowList", "known", "flowDetail"}) /\ v.flowList = x.flowList /\ v.known = x.known
      BY <1>7, <2>5, <2>6 DEF Alters, Fields
    <2> QED
      BY <1>3, <1>5, <1>7, <2>7, <2>8 DEF Alters, Fields
  <1> QED
    BY <1>9, <1>10

LEMMA AnsweredApplied ==
    ASSUME UiInv, NEW c \in UiCommands, c.what \notin {"create", "stop"}, NEW n \in Nat, n <= Version(server, c.what),
           c.what \in {"flows", "flow", "notify", "workers"} => n >= 1, NEW v, v = Answered(ui, c, n)
    PROVE  Applied(ui, v, c, n, server) /\ Knows(ui, v, c, n, server)
  <1>1. PICK u : u = ui
    OBVIOUS
  <1>2. PICK s : s = server
    OBVIOUS
  <1>3. ModelOK(u) /\ DataTyped(u) /\ IsModel(u) /\ ServerOK(s)
    BY <1>1, <1>2, UiFacts, ServerFacts
  <1>4. c.what \in Whats /\ c.id \in IdsN /\ c.arg \in Nat
    BY CommandWhat
  <1>5. ASSUME NEW F, Alters(u, v, F), "known" \notin F, c.what \notin {"flows", "notify"} PROVE Knows(u, v, c, n, s)
    <2>1. v.known = u.known
      BY <1>5 DEF Alters, Fields
    <2> QED
      BY <1>5, <2>1 DEF Knows
  <1>6. CASE c.what = "tickets"
    <2>1. v = [u EXCEPT !.ticketList = Loaded(n), !.rows = TRUE]
      BY <1>1, <1>6 DEF Answered
    <2>2. Alters(u, v, {"ticketList", "rows"}) /\ v.ticketList = Loaded(n)
      BY <1>3, <2>1 DEF IsModel, Alters, Fields
    <2>3. Loaded(n) \in Load(Nat) /\ IsLoaded(Loaded(n)) /\ Loaded(n).data = n
      BY LoadTyped
    <2>4. DataTyped(v)
      BY <1>3, <2>2, <2>3 DEF DataTyped, Alters, Fields
    <2>5. c.what \in ListKeys /\ FieldOf(c.what) = "ticketList"
      BY <1>6 DEF ListKeys, FieldOf
    <2>6. n = Version(s, c.what) => UpToDate(c.what, v[FieldOf(c.what)], s)
      BY <1>6, <2>2, <2>3, <2>5, VersionIs DEF UpToDate
    <2>7. Alters(u, v, {FieldOf(c.what), "rows", "known", "flowDetail"})
      BY <2>2, <2>5 DEF Alters
    <2>8. Applied(u, v, c, n, s)
      BY <1>3, <2>4, <2>5, <2>6, <2>7, ListApplied
    <2> QED
      BY <1>1, <1>2, <1>5, <1>6, <2>2, <2>8
  <1>7. CASE c.what = "workers"
    <2>1. PICK W : W = s.workers[n]
      OBVIOUS
    <2>2. n \in 1..Len(s.workers)
      BY <1>2, <1>3, <1>7, VersionIs DEF ServerOK
    <2>3. W \in SUBSET Ids /\ (n = Len(s.workers) => W = Last(s.workers))
      BY <1>3, <2>1, <2>2 DEF ServerOK, Last
    <2>4. v = [u EXCEPT !.workerList = Loaded(W)]
      BY <1>1, <1>2, <1>7, <2>1 DEF Answered
    <2>5. Alters(u, v, {"workerList"}) /\ v.workerList = Loaded(W)
      BY <1>3, <2>4 DEF IsModel, Alters, Fields
    <2>6. Loaded(W) \in Load(SUBSET Ids) /\ IsLoaded(Loaded(W)) /\ Loaded(W).data = W
      BY <2>3, LoadTyped
    <2>7. DataTyped(v)
      BY <1>3, <2>5, <2>6 DEF DataTyped, Alters, Fields
    <2>8. c.what \in ListKeys /\ FieldOf(c.what) = "workerList"
      BY <1>7 DEF ListKeys, FieldOf
    <2>9. n = Version(s, c.what) => UpToDate(c.what, v[FieldOf(c.what)], s)
      BY <1>7, <2>3, <2>5, <2>6, <2>8, VersionIs DEF UpToDate
    <2>10. Alters(u, v, {FieldOf(c.what), "rows", "known", "flowDetail"})
      BY <2>5, <2>8 DEF Alters
    <2>11. Applied(u, v, c, n, s)
      BY <1>3, <2>7, <2>8, <2>9, <2>10, ListApplied
    <2> QED
      BY <1>1, <1>2, <1>5, <1>7, <2>5, <2>11
  <1>8. CASE c.what = "flows"
    <2>1. n \in 1..Len(s.flows)
      BY <1>2, <1>3, <1>8, VersionIs DEF ServerOK
    <2>2. s.flows[n] \in [Ids -> Status] /\ (n = Len(s.flows) => s.flows[n] = Last(s.flows))
      BY <1>3, <2>1, FlowsTyped
    <2>3. PICK P \in SUBSET Ids : P = OnPage(c.arg)
      BY DEF OnPage
    <2>4. PICK F : F = [i \in P |-> s.flows[n][i]]
      OBVIOUS
    <2>5. F \in [P -> Status]
      BY <2>2, <2>4
    <2>6. v = FlowsLoaded(u, F)
      BY <1>1, <1>2, <1>8, <2>3, <2>4 DEF Answered, AnsweredFlows
    <2>7. /\ Alters(u, v, {"flowList", "rows", "known", "flowDetail"}) /\ DataTyped(v) /\ v.flowList = Loaded(F)
          /\ \A i \in Ids : v.known[i] = IF i \in P THEN F[i] ELSE u.known[i]
      BY <1>3, <2>5, <2>6, FlowsLoadedTyped
    <2>8. c.what \in ListKeys /\ FieldOf(c.what) = "flowList"
      BY <1>8 DEF ListKeys, FieldOf
    <2>9. n = Version(s, c.what) => UpToDate(c.what, v[FieldOf(c.what)], s)
      <3>1. SUFFICES ASSUME n = Len(s.flows) PROVE UpToDate(c.what, v[FieldOf(c.what)], s)
        BY <1>8, VersionIs
      <3>2. IsLoaded(Loaded(F)) /\ Loaded(F).data = F
        BY <2>5, LoadTyped
      <3>3. F = Restrict(Last(s.flows), DOMAIN F)
        BY <2>2, <2>4, <3>1 DEF Restrict
      <3> QED
        BY <1>8, <2>7, <2>8, <3>2, <3>3 DEF UpToDate
    <2>10. Applied(u, v, c, n, s)
      BY <1>3, <2>7, <2>8, <2>9, ListApplied
    <2>11. Knows(u, v, c, n, s)
      BY <1>8, <2>3, <2>4, <2>7 DEF Knows
    <2> QED
      BY <1>1, <1>2, <2>10, <2>11
  <1>9. CASE c.what = "notify"
    <2>1. n \in 1..Len(s.flows)
      BY <1>2, <1>3, <1>9, VersionIs DEF ServerOK
    <2>2. s.flows[n] \in [Ids -> Status]
      BY <1>3, <2>1, FlowsTyped
    <2>3. PICK F : F = [i \in {c.id} |-> s.flows[n][i]]
      OBVIOUS
    <2>4. DOMAIN F = {c.id} /\ \A i \in Ids : i \in DOMAIN F => F[i] = s.flows[n][i] /\ F[i] \in Status
      BY <2>2, <2>3
    <2>5. v = Followed(u, F)
      BY <1>1, <1>2, <1>9, <2>3 DEF Answered, AnsweredFlow
    <2>6. /\ Alters(u, v, {"known"}) /\ DataTyped(v)
          /\ \A i \in Ids : v.known[i] = IF i \in DOMAIN F THEN F[i] ELSE u.known[i]
      BY <1>3, <2>4, <2>5, FollowedTyped
    <2>7. Alters(u, v, {"flowDetail", "known"})
      BY <2>6 DEF Alters
    <2>8. Applied(u, v, c, n, s)
      BY <1>3, <1>9, <2>6, <2>7, OtherApplied
    <2>9. Knows(u, v, c, n, s)
      BY <1>9, <2>4, <2>6 DEF Knows
    <2> QED
      BY <1>1, <1>2, <2>8, <2>9
  <1>10. CASE c.what = "flow"
    <2>1. PICK d : d = [id |-> c.id, status |-> s.flows[n][c.id]]
      OBVIOUS
    <2>2. v = [u EXCEPT !.flowDetail = d]
      BY <1>1, <1>2, <1>10, <2>1 DEF Answered
    <2>3. Alters(u, v, {"flowDetail"}) /\ v.flowDetail = d
      BY <1>3, <2>2 DEF IsModel, Alters, Fields
    <2>4. DataTyped(v)
      BY <1>3, <1>4, <2>1, <2>3 DEF DataTyped, Alters, Fields
    <2>5. Alters(u, v, {"flowDetail", "known"})
      BY <2>3 DEF Alters
    <2>6. Applied(u, v, c, n, s)
      BY <1>3, <1>10, <2>4, <2>5, OtherApplied
    <2> QED
      BY <1>1, <1>2, <1>5, <1>10, <2>3, <2>6
  <1>11. CASE c.what = "detail"
    <2>1. v = DetailLoaded(u, c, n)
      BY <1>1, <1>11 DEF Answered
    <2>2. CASE u.detail = NoDetail
      <3>1. v = u
        BY <2>1, <2>2 DEF DetailLoaded
      <3>2. Alters(u, v, {}) /\ Alters(u, v, {"flowDetail", "known"})
        BY <1>3, <3>1 DEF Alters
      <3>3. Applied(u, v, c, n, s)
        BY <1>3, <1>11, <2>2, <3>1, <3>2, OtherApplied
      <3> QED
        BY <1>1, <1>2, <1>5, <1>11, <3>2, <3>3
    <2>3. CASE u.detail # NoDetail
      <3>1. PICK x : x = [id |-> c.id, rev |-> n, arg |-> c.arg]
        OBVIOUS
      <3>2. x \in DetailData /\ x.id = c.id /\ x.rev = n
        BY <1>4, <3>1 DEF DetailData
      <3>3. PICK d : d = Loaded(x)
        OBVIOUS
      <3>4. d \in Load(DetailData) /\ IsLoaded(d) /\ d.data = x
        BY <3>2, <3>3, LoadTyped
      <3>5. PICK e : e = [u.detail EXCEPT !.data = d, !.rows = TRUE]
        OBVIOUS
      <3>6. v = [u EXCEPT !.detail.data = d, !.detail.rows = TRUE]
        BY <2>1, <2>3, <3>1, <3>3 DEF DetailLoaded
      <3>7. u.detail \in [id : IdsN, data : Load(DetailData), closed : BOOLEAN, rows : BOOLEAN]
        BY <1>3 DEF DataTyped
      <3>8. Alters(u, v, {"detail"}) /\ v.detail = e
        BY <1>3, <3>5, <3>6 DEF IsModel, Alters, Fields
      <3>9. /\ e = [id |-> e.id, data |-> e.data, closed |-> e.closed, rows |-> e.rows]
            /\ e.id = u.detail.id /\ e.data = d /\ e.closed = u.detail.closed /\ e.rows = TRUE
        BY <3>5, <3>7
      <3>10. Applied(u, v, c, n, s)
        BY <1>3, <1>11, <3>2, <3>4, <3>8, <3>9, DetailApplied
      <3> QED
        BY <1>1, <1>2, <1>5, <1>11, <3>8, <3>10
    <2> QED
      BY <2>2, <2>3
  <1>12. CASE c.what = "activities"
    <2>1. v = ActivitiesLoaded(u, c, n)
      BY <1>1, <1>12 DEF Answered
    <2>2. CASE u.activities.id # c.id
      <3>1. v = u
        BY <2>1, <2>2 DEF ActivitiesLoaded
      <3>2. Alters(u, v, {}) /\ Alters(u, v, {"flowDetail", "known"})
        BY <1>3, <3>1 DEF Alters
      <3>3. Applied(u, v, c, n, s)
        BY <1>3, <1>12, <2>2, <3>1, <3>2, OtherApplied
      <3> QED
        BY <1>1, <1>2, <1>5, <1>12, <3>2, <3>3
    <2>3. CASE u.activities.id = c.id
      <3>1. PICK x : x = [rev |-> n, arg |-> c.arg]
        OBVIOUS
      <3>2. x \in ActivityData
        BY <1>4, <3>1 DEF ActivityData
      <3>3. PICK d : d = Loaded(x)
        OBVIOUS
      <3>4. d \in Load(ActivityData) /\ IsLoaded(d) /\ d.data.rev = n
        BY <3>1, <3>2, <3>3, LoadTyped DEF Loaded
      <3>5. PICK b : b = (u.activities.authors \/ u.activities.author = 0)
        OBVIOUS
      <3>6. PICK e : e = [u.activities EXCEPT !.data = d, !.authors = b]
        OBVIOUS
      <3>7. v = [u EXCEPT !.activities.data = d, !.activities.authors = b]
        BY <2>1, <2>3, <3>1, <3>3, <3>5, Zenon DEF ActivitiesLoaded
      <3>8. u.activities \in [id : IdsN, data : Load(ActivityData), authors : BOOLEAN, author : {0, 1}]
        BY <1>3 DEF DataTyped
      <3>9. b \in BOOLEAN
        BY <3>5, <3>8
      <3>10. Alters(u, v, {"activities"}) /\ v.activities = e
        BY <1>3, <3>6, <3>7 DEF IsModel, Alters, Fields
      <3>11. e \in [id : IdsN, data : Load(ActivityData), authors : BOOLEAN, author : {0, 1}] /\ e.data = d /\ e.id = u.activities.id
        BY <3>4, <3>6, <3>8, <3>9
      <3>12. Applied(u, v, c, n, s)
        BY <1>3, <1>12, <2>3, <3>4, <3>10, <3>11, ActivitiesApplied
      <3> QED
        BY <1>1, <1>2, <1>5, <1>12, <3>10, <3>12
    <2> QED
      BY <2>2, <2>3
  <1> QED
    BY <1>4, <1>6, <1>7, <1>8, <1>9, <1>10, <1>11, <1>12 DEF Whats

\* An error.
LEMMA RefusedApplied ==
    ASSUME NEW u, ModelOK(u), NEW c \in UiCommands, c.what \notin {"create", "stop"}, NEW n, NEW s,
           NEW v, v = Refused(u, c)
    PROVE  Applied(u, v, c, n, s) /\ v.known = u.known
  <1>1. DataTyped(u) /\ IsModel(u) /\ c.what \in Whats
    BY CommandWhat DEF ModelOK, NavTyped
  <1>2. \A D : Failed \in Load(D) /\ Failed # Loading
    BY LoadTyped
  <1>3. ASSUME c.what \in ListKeys PROVE Applied(u, v, c, n, s) /\ v.known = u.known
    <2>1. PICK f \in {"ticketList", "flowList", "workerList"} : f = FieldOf(c.what)
      BY <1>3 DEF ListKeys, FieldOf
    <2>2. v = [u EXCEPT ![f] = Failed]
      BY <1>3, <2>1 DEF Refused, ListKeys, FieldOf
    <2>3. Alters(u, v, {f}) /\ v[f] = Failed
      BY <1>1, <2>2 DEF IsModel, Alters, Fields
    <2>4. DataTyped(v)
      BY <1>1, <1>2, <2>3 DEF DataTyped, Alters, Fields
    <2>5. Alters(u, v, {FieldOf(c.what), "rows", "known", "flowDetail"})
      BY <2>1, <2>3 DEF Alters
    <2>6. UpToDate(c.what, v[FieldOf(c.what)], s)
      BY <2>1, <2>3 DEF UpToDate
    <2>7. Applied(u, v, c, n, s)
      BY <1>3, <2>4, <2>5, <2>6, ListApplied
    <2> QED
      BY <2>3, <2>7 DEF Alters, Fields
  <1>4. ASSUME v = u, c.what \in {"flow", "notify"} \/ (c.what = "detail" /\ u.detail = NoDetail)
                  \/ (c.what = "activities" /\ c.id # u.activities.id)
        PROVE  Applied(u, v, c, n, s) /\ v.known = u.known
    <2>1. Alters(u, v, {"flowDetail", "known"}) /\ DataTyped(v)
      BY <1>1, <1>4 DEF Alters
    <2> QED
      BY <1>4, <2>1, OtherApplied
  <1>5. CASE c.what \in {"flow", "notify"}
    BY <1>4, <1>5 DEF Refused
  <1>6. CASE c.what = "detail"
    <2>1. CASE u.detail = NoDetail
      BY <1>4, <1>6, <2>1 DEF Refused
    <2>2. CASE u.detail # NoDetail
      <3>1. PICK e : e = [u.detail EXCEPT !.data = Failed]
        OBVIOUS
      <3>2. v = [u EXCEPT !.detail.data = Failed]
        BY <1>6, <2>2 DEF Refused
      <3>3. u.detail \in [id : IdsN, data : Load(DetailData), closed : BOOLEAN, rows : BOOLEAN]
        BY <1>1 DEF DataTyped
      <3>4. Alters(u, v, {"detail"}) /\ v.detail = e
        BY <1>1, <3>1, <3>2 DEF IsModel, Alters, Fields
      <3>5. /\ e = [id |-> e.id, data |-> e.data, closed |-> e.closed, rows |-> e.rows]
            /\ e.id = u.detail.id /\ e.data = Failed /\ e.closed = u.detail.closed /\ e.rows \in BOOLEAN
        BY <3>1, <3>3
      <3>6. Applied(u, v, c, n, s)
        BY <1>2, <1>6, <3>4, <3>5, DetailApplied
      <3> QED
        BY <3>4, <3>6 DEF Alters, Fields
    <2> QED
      BY <2>1, <2>2
  <1>7. CASE c.what = "activities"
    <2>1. CASE u.activities.id # c.id
      BY <1>4, <1>7, <2>1 DEF Refused
    <2>2. CASE u.activities.id = c.id
      <3>1. PICK e : e = [u.activities EXCEPT !.data = Failed]
        OBVIOUS
      <3>2. v = [u EXCEPT !.activities.data = Failed]
        BY <1>7, <2>2 DEF Refused
      <3>3. u.activities \in [id : IdsN, data : Load(ActivityData), authors : BOOLEAN, author : {0, 1}]
        BY <1>1 DEF DataTyped
      <3>4. Alters(u, v, {"activities"}) /\ v.activities = e
        BY <1>1, <3>1, <3>2 DEF IsModel, Alters, Fields
      <3>5. e \in [id : IdsN, data : Load(ActivityData), authors : BOOLEAN, author : {0, 1}] /\ e.data = Failed /\ e.id = u.activities.id
        BY <1>2, <3>1, <3>3
      <3>6. Applied(u, v, c, n, s)
        BY <1>2, <1>7, <2>2, <3>4, <3>5, ActivitiesApplied
      <3> QED
        BY <3>4, <3>6 DEF Alters, Fields
    <2> QED
      BY <2>1, <2>2
  <1> QED
    BY <1>1, <1>3, <1>5, <1>6, <1>7 DEF Whats, ListKeys

LEMMA ObservedNoted ==
    ASSUME NEW r, NEW n, Observed(r, n), NEW ex2, ex2 = excused', NEW nw2, nw2 = newest'
    PROVE  Observing(r.cmd, n, ui, excused, newest, ex2, nw2)
  <1>1. CASE ~Counts(r.cmd, ui)
    BY <1>1 DEF Observed, Observing, Counts
  <1>2. CASE Counts(r.cmd, ui)
    BY <1>2 DEF Observed, Observing, Counts
  <1> QED
    BY <1>1, <1>2

LEMMA StallFacts ==
    ASSUME UiInv, NEW i \in unnoticed
    PROVE  i \in Ids /\ ui.known[i] = "going"
  BY UiFacts DEF InvOf, TypedAll, ObserversOK, StallsOK, StallKnown

LEMMA AnswerStep ==
    ASSUME UiInv, NEW r \in Fetches, Answer(r)
    PROVE  UiInv'
  <1>1. r \in BagToSet(requests) /\ r.cmd.what \notin {"create", "stop"}
    BY DEF Fetches
  <1>2. PICK c \in UiCommands : c = r.cmd
    BY <1>1, ServerFacts DEF RequestsOK
  <1>3. /\ r.since \in Nat /\ c.what \in Whats /\ Version(server, c.what) \in Nat
        /\ c.what \in {"flows", "flow", "notify", "workers"} => r.since >= 1
    BY <1>1, <1>2, ServerFacts, CommandWhat, VersionTyped DEF RequestsOK
  <1>4. PICK n \in r.since..Version(server, r.cmd.what) :
            LET flows == CASE r.cmd.what = "flows" -> AnsweredFlows(n, r.cmd.arg)
                           [] r.cmd.what = "notify" -> AnsweredFlow(n, r.cmd.id)
                           [] OTHER -> <<>>
            IN  /\ UNCHANGED server
                /\ Runs(SetToBag({r}), Answered(ui, r.cmd, n))
                /\ Observed(r, n)
                /\ unnoticed' = unnoticed \ (Announced(ui, flows) \cup
                                  {i \in Ids : r.cmd.what = "flows" /\ i \notin DOMAIN flows})
                /\ UNCHANGED <<events, budget, written, discarded, dropped, made>>
    BY DEF Answer
  <1>5. n \in Nat /\ r.since <= n /\ n <= Version(server, c.what)
        /\ (c.what \in {"flows", "flow", "notify", "workers"} => n >= 1)
    BY <1>2, <1>3
  <1>6. PICK v : v = Answered(ui, c, n)
    OBVIOUS
  <1>7. Applied(ui, v, c, n, server) /\ Knows(ui, v, c, n, server)
    BY <1>1, <1>2, <1>5, <1>6, AnsweredApplied
  <1>8. PICK flows : flows = CASE c.what = "flows" -> AnsweredFlows(n, c.arg)
                               [] c.what = "notify" -> AnsweredFlow(n, c.id)
                               [] OTHER -> <<>>
    OBVIOUS
  <1>9. /\ Runs(SetToBag({r}), v) /\ server' = server /\ events' = events /\ written' = written /\ discarded' = discarded
        /\ dropped' = dropped /\ made' = made /\ Observed(r, n)
        /\ unnoticed' = unnoticed \ (Announced(ui, flows) \cup {i \in Ids : c.what = "flows" /\ i \notin DOMAIN flows})
    BY <1>2, <1>4, <1>6, <1>8
  <1>10. PICK un2 : un2 = unnoticed'
    OBVIOUS
  <1>11. Heard(r, n, v, server, unnoticed, un2)
    <2>1. un2 \subseteq unnoticed
      BY <1>9, <1>10
    <2>2. ASSUME NEW i \in un2
          PROVE  v.known[i] = "going" /\ (Tells(r, i) => n \in r.since..Len(server.flows) /\ server.flows[n][i] # "stalled")
      <3>1. i \in Ids /\ ui.known[i] = "going" /\ i \notin Announced(ui, flows) /\ (c.what = "flows" => i \in DOMAIN flows)
        BY <1>9, <1>10, <2>1, StallFacts
      <3>2. ASSUME NEW P, flows = [j \in P |-> server.flows[n][j]], i \in P, c.what \in {"flows", "notify"}
            PROVE  server.flows[n][i] = "going" /\ n \in r.since..Len(server.flows)
        <4>1. n \in 1..Len(server.flows)
          BY <1>5, <3>2, ServerFacts, VersionIs DEF ServerOK
        <4>2. server.flows[n] \in [Ids -> Status]
          BY <4>1, ServerFacts, FlowsTyped
        <4>3. flows[i] = server.flows[n][i] /\ i \in DOMAIN flows
          BY <3>2
        <4>4. flows[i] # "stalled"
          BY <3>1, <4>3 DEF Announced
        <4>5. n \in r.since..Len(server.flows)
          BY <1>3, <1>5, <4>1
        <4> QED
          BY <3>1, <4>2, <4>3, <4>4, <4>5 DEF Status
      <3>3. CASE c.what = "flows"
        <4>1. flows = [j \in OnPage(c.arg) |-> server.flows[n][j]]
          BY <1>8, <3>3 DEF AnsweredFlows
        <4>2. i \in OnPage(c.arg)
          BY <3>1, <3>3, <4>1
        <4>3. server.flows[n][i] = "going" /\ n \in r.since..Len(server.flows)
          BY <3>2, <3>3, <4>1, <4>2
        <4> QED
          BY <1>7, <3>1, <3>3, <4>2, <4>3 DEF Knows
      <3>4. CASE c.what = "notify" /\ i = c.id
        <4>1. flows = [j \in {c.id} |-> server.flows[n][j]]
          BY <1>8, <3>4 DEF AnsweredFlow
        <4>2. server.flows[n][i] = "going" /\ n \in r.since..Len(server.flows)
          BY <3>2, <3>4, <4>1
        <4> QED
          BY <1>7, <3>1, <3>4, <4>2 DEF Knows
      <3>5. CASE c.what # "flows" /\ ~(c.what = "notify" /\ i = c.id)
        BY <1>2, <1>7, <3>1, <3>5 DEF Knows, Tells
      <3> QED
        BY <3>3, <3>4, <3>5
    <2> QED
      BY <2>1, <2>2 DEF Heard
  <1>12. PICK ex2 : ex2 = excused'
    OBVIOUS
  <1>13. PICK nw2 : nw2 = newest'
    OBVIOUS
  <1>14. Observing(r.cmd, n, ui, excused, newest, ex2, nw2)
    BY <1>9, <1>12, <1>13, ObservedNoted
  <1>15. ASSUME NEW rs2, Follows(BagToSet(requests), {r}, v.cmds, server, rs2)
         PROVE  InvOf(v, rs2, server, events, ex2, nw2, un2, written, discarded, dropped, made)
    <2>1. Applied(ui, v, r.cmd, n, server) /\ n <= Version(server, r.cmd.what)
      BY <1>2, <1>5, <1>7
    <2> QED
      BY <1>1, <1>5, <1>11, <1>14, <1>15, <2>1, UiFacts, AnswerInv
  <1>16. ModelOK(v)
    BY <1>7 DEF Applied
  <1>17. \A rs2 : Follows(BagToSet(requests), {r}, v.cmds, server', rs2) =>
                      InvOf(v, rs2, server', events', excused', newest', unnoticed', written', discarded', dropped', made')
    BY <1>9, <1>10, <1>12, <1>13, <1>15
  <1> QED
    BY <1>9, <1>16, <1>17, Ran

LEMMA FetchFailsStep ==
    ASSUME UiInv, NEW r \in Fetches, FetchFails(r)
    PROVE  UiInv'
  <1>1. r \in BagToSet(requests) /\ r.cmd.what \notin {"create", "stop"}
    BY DEF Fetches
  <1>2. PICK c \in UiCommands : c = r.cmd
    BY <1>1, ServerFacts DEF RequestsOK
  <1>3. c.what \in Whats /\ Version(server, c.what) \in Nat /\ r.since <= Version(server, c.what)
    BY <1>1, <1>2, ServerFacts, CommandWhat, VersionTyped DEF RequestsOK
  <1>4. PICK n \in Nat : n = Version(server, c.what)
    BY <1>3
  <1>5. PICK v : v = Refused(ui, c)
    OBVIOUS
  <1>6. Applied(ui, v, c, n, server) /\ v.known = ui.known
    BY <1>1, <1>2, <1>5, UiFacts, RefusedApplied
  <1>7. /\ Runs(SetToBag({r}), v) /\ server' = server /\ events' = events /\ written' = written /\ discarded' = discarded
        /\ dropped' = dropped /\ made' = made /\ Observed(r, n)
        /\ unnoticed' = CASE c.what = "flows" -> {}
                          [] c.what = "notify" -> unnoticed \ {c.id}
                          [] OTHER -> unnoticed
    BY <1>2, <1>4, <1>5 DEF FetchFails
  <1>8. PICK un2 : un2 = unnoticed'
    OBVIOUS
  <1>9. Heard(r, n, v, server, unnoticed, un2)
    <2>1. un2 \subseteq unnoticed /\ \A i \in un2 : ~Tells(r, i)
      BY <1>2, <1>7, <1>8 DEF Tells
    <2> QED
      BY <1>6, <2>1, StallFacts DEF Heard
  <1>10. PICK ex2 : ex2 = excused'
    OBVIOUS
  <1>11. PICK nw2 : nw2 = newest'
    OBVIOUS
  <1>12. Observing(r.cmd, n, ui, excused, newest, ex2, nw2)
    BY <1>7, <1>10, <1>11, ObservedNoted
  <1>13. ASSUME NEW rs2, Follows(BagToSet(requests), {r}, v.cmds, server, rs2)
         PROVE  InvOf(v, rs2, server, events, ex2, nw2, un2, written, discarded, dropped, made)
    <2>1. Applied(ui, v, r.cmd, n, server) /\ n <= Version(server, r.cmd.what) /\ r.since <= n
      BY <1>2, <1>3, <1>4, <1>6
    <2> QED
      BY <1>1, <1>9, <1>12, <1>13, <2>1, UiFacts, AnswerInv
  <1>14. ModelOK(v)
    BY <1>6 DEF Applied
  <1>15. \A rs2 : Follows(BagToSet(requests), {r}, v.cmds, server', rs2) =>
                      InvOf(v, rs2, server', events', excused', newest', unnoticed', written', discarded', dropped', made')
    BY <1>7, <1>8, <1>10, <1>11, <1>13
  <1> QED
    BY <1>7, <1>14, <1>15, Ran

-----------------------------------------------------------------------------
(* The invariant *)

LEMMA UiInvStep ==
    ASSUME UiInv, [UiNext]_uiVars
    PROVE  UiInv'
  <1>1. CASE UNCHANGED uiVars
    BY <1>1 DEF uiVars, observers, UiInv
  <1>2. CASE UiNext
    <2>1. ASSUME NEW tab \in Tabs, TabKey(tab) PROVE UiInv'
      BY <2>1, TabKeyStep
    <2>2. CASE TabNext
      <3>1. PICK tab : tab = NextTab(ui.tab)
        OBVIOUS
      <3>2. tab \in Tabs
        BY <3>1, UiFacts, NextTabTyped DEF NavTyped
      <3> QED
        BY <2>2, <3>1, <3>2, TabKeyStep
    <2>3. CASE Back
      BY <2>3, BackStep
    <2>4. CASE ToggleClosed
      BY <2>4, ToggleClosedStep
    <2>5. CASE Refresh
      BY <2>5, RefreshStep
    <2>6. CASE CycleFilter
      BY <2>6, CycleFilterStep
    <2>7. ASSUME NEW i \in Ids, SelectTicket(i) \/ SelectChild(i) \/ SelectFlow(i) PROVE UiInv'
      BY <2>7, OpenPageStep
    <2>8. ASSUME NEW i \in Ids, KillWorker(i) PROVE UiInv'
      BY <2>8, KillWorkerStep
    <2>9. ASSUME NEW i \in Ids, OpenGoto(i) PROVE UiInv'
      BY <2>9, OpenGotoStep
    <2>10. ASSUME NEW i \in Changing, FlowChanges(i) PROVE UiInv'
      BY <2>10, FlowChangesStep
    <2>11. ASSUME NEW i \in Changing, WorkerChanges(i) PROVE UiInv'
      BY <2>11, WorkerChangesStep
    <2>12. ASSUME NEW kind \in {"TicketActivities", "TicketBody"}, OpenTicketPage(kind) PROVE UiInv'
      BY <2>12, OpenTicketPageStep
    <2>13. ASSUME NEW page \in 0..Workflows, TurnFlowPage(page) PROVE UiInv'
      BY <2>13, TurnFlowPageStep
    <2>14. ASSUME NEW screen \in {"ticket", "flow", "worker"}, SelectGoto(screen) PROVE UiInv'
      BY <2>14, SelectGotoStep
    <2>15. CASE CancelGoto
      BY <2>15, CancelGotoStep
    <2>16. CASE Abandon
      BY <2>16, AbandonStep
    <2>25. CASE Edit
      BY <2>25, EditStep
    <2>26. CASE RefuseLocal
      BY <2>26, RefuseLocalStep
    <2>17. ASSUME NEW d \in Drafts, Compose(d) PROVE UiInv'
      BY <2>17, ComposeStep
    <2>18. ASSUME NEW dispatch \in {0, 1}, Create(dispatch) PROVE UiInv'
      BY <2>18, CreateStep
    <2>19. CASE TicketChanges
      BY <2>19, TicketChangesStep
    <2>20. CASE UiEvent
      BY <2>20, UiEventStep
    <2>21. CASE StreamLost
      BY <2>21, StreamLostStep
    <2>22. CASE CooldownEnds
      BY <2>22, CooldownEndsStep
    <2>23. CASE Tick
      BY <2>23, TickStep
    <2>24. CASE Deliver
      <3>1. ASSUME NEW r \in Fetches, Answer(r) PROVE UiInv'
        BY <3>1, AnswerStep
      <3>2. ASSUME NEW r \in Fetches, FetchFails(r) PROVE UiInv'
        BY <3>2, FetchFailsStep
      <3>3. ASSUME NEW r \in BagToSet(requests), Creates(r) PROVE UiInv'
        BY <3>3, CreatesStep
      <3>4. ASSUME NEW r \in BagToSet(requests), CreateRefused(r) PROVE UiInv'
        BY <3>4, CreateRefusedStep
      <3>5. ASSUME NEW r \in BagToSet(requests), DispatchRefused(r) PROVE UiInv'
        BY <3>5, DispatchRefusedStep
      <3>6. ASSUME NEW r \in BagToSet(requests), Stops(r) \/ StopFails(r) PROVE UiInv'
        BY <3>6, StopStep
      <3> QED
        BY <2>24, <3>1, <3>2, <3>3, <3>4, <3>5, <3>6 DEF Deliver
    <2> QED
      BY <1>2, <2>1, <2>2, <2>3, <2>4, <2>5, <2>6, <2>7, <2>8, <2>9, <2>10, <2>11, <2>12, <2>13,
         <2>14, <2>15, <2>16, <2>17, <2>18, <2>19, <2>20, <2>21, <2>22, <2>23, <2>24, <2>25, <2>26 DEF UiNext
  <1> QED
    BY <1>1, <1>2

-----------------------------------------------------------------------------
(* What it means for the properties *)

LEMMA InvOnTop ==
    ASSUME UiInv
    PROVE  OwnHandlerOnTop
  <1>1. PICK hs \in Seq(Handlers) : hs = ui.handlers
    BY UiFacts DEF NavTyped
  <1>2. PICK own : own = PageHandlers(CurrentPage(ui))
    OBVIOUS
  <1>3. Len(hs) >= 1 /\ hs[1] = "global" /\ (own = <<>> \/ own[1] = hs[Len(hs)])
    BY <1>1, <1>2, UiFacts DEF NavOK, HandlersOK, OnTop
  <1>4. hs # <<>> /\ Head(hs) = "global" /\ Last(hs) = hs[Len(hs)]
    BY <1>3 DEF Last
  <1> QED
    BY <1>1, <1>2, <1>3, <1>4 DEF OwnHandlerOnTop

LEMMA QuietMeans ==
    ASSUME Quiet
    PROVE  BagToSet(requests) = {} /\ events = {} /\ ui.dirty = {}
  BY DEF Quiet, BagToSet, EmptyBag, SetToBag

LEMMA InvFresh ==
    ASSUME UiInv
    PROVE  FreshWhenQuiet
  <1> SUFFICES ASSUME Quiet PROVE FreshWhenQuiet
    BY DEF FreshWhenQuiet
  <1>1. BagToSet(requests) = {} /\ events = {} /\ ui.dirty = {}
    BY QuietMeans
  <1>2. FreshAll(ui, {}, server, {}, excused, newest)
    BY <1>1, UiFacts DEF InvOf
  <1>3. PICK page \in Pages : page = CurrentPage(ui)
    BY UiFacts, CurrentTyped
  <1>4. ASSUME NEW k \in ListKeys, page.kind = KindOf(k)
        PROVE  k \in excused \/ UpToDate(k, ui[FieldOf(k)], server)
    <2>1. ListFresh(k, ui, {}, server, {}, excused, newest)
      BY <1>2 DEF FreshAll
    <2> QED
      BY <1>1, <1>3, <1>4, <2>1 DEF ListFresh
  <1>5. page.kind = "TicketList" => "tickets" \in excused \/ UpToDate("tickets", ui.ticketList, server)
    BY <1>4 DEF ListKeys, KindOf, FieldOf
  <1>6. page.kind = "FlowList" => "flows" \in excused \/ UpToDate("flows", ui.flowList, server)
    BY <1>4 DEF ListKeys, KindOf, FieldOf
  <1>7. page.kind = "WorkerList" => "workers" \in excused \/ UpToDate("workers", ui.workerList, server)
    BY <1>4 DEF ListKeys, KindOf, FieldOf
  <1> QED
    <2>1. CASE page.kind = "TicketList"
      <3>1. UpToDate("tickets", ui.ticketList, server) => ui.ticketList \in {Failed, Loaded(server.tickets)}
        BY UiFacts, LoadTyped DEF UpToDate, DataTyped, IsLoaded, Loaded, NotLoaded, Loading, Failed, Load
      <3> QED
        BY <1>3, <1>5, <2>1, <3>1 DEF FreshWhenQuiet
    <2>2. CASE page.kind = "FlowList"
      BY <1>3, <1>6, <2>2 DEF FreshWhenQuiet, UpToDate, Flows
    <2>3. CASE page.kind = "WorkerList"
      <3>1. UpToDate("workers", ui.workerList, server) => ui.workerList \in {Failed, Loaded(RunningWorkers)}
        BY UiFacts DEF UpToDate, DataTyped, IsLoaded, Loaded, NotLoaded, Loading, Failed, Load, RunningWorkers
      <3> QED
        BY <1>3, <1>7, <2>3, <3>1 DEF FreshWhenQuiet
    <2>4. CASE page.kind = "TicketDetail"
      BY <1>1, <1>2, <1>3, <2>4 DEF FreshWhenQuiet, FreshAll, DetailFresh
    <2>5. CASE page.kind = "TicketActivities"
      <3>1. ActivitiesFresh(ui, {}, server, {}, excused, newest)
        BY <1>2 DEF FreshAll
      <3>2. /\ ui.activities.id = page.id
            /\ \/ "activities" \in excused \/ ui.activities.data = Failed
               \/ /\ IsLoaded(ui.activities.data)
                  /\ Tracked(ui) => ui.activities.data.data.rev = server.tickets
        BY <1>1, <1>3, <2>5, <3>1 DEF ActivitiesFresh
      <3> QED
        BY <1>3, <2>5, <3>2 DEF FreshWhenQuiet, Tracked
    <2>6. CASE page.kind \notin {"TicketList", "FlowList", "WorkerList", "TicketDetail", "TicketActivities"}
      BY <1>3, <2>6 DEF FreshWhenQuiet
    <2> QED
      BY <2>1, <2>2, <2>3, <2>4, <2>5, <2>6

LEMMA InvStalls ==
    ASSUME UiInv
    PROVE  StallAnnounced
  <1> SUFFICES ASSUME Quiet PROVE unnoticed = {}
    BY DEF StallAnnounced
  <1>1. BagToSet(requests) = {} /\ events = {} /\ ui.dirty = {}
    BY QuietMeans
  <1>2. StallsOK(ui, {}, server, {}, unnoticed)
    BY <1>1, UiFacts DEF InvOf
  <1>3. ui.changed = {}
    BY <1>1, <1>2 DEF StallsOK
  <1>4. \A i \in unnoticed : FALSE
    BY <1>2, <1>3 DEF StallsOK, StallKnown
  <1> QED
    BY <1>4

LEMMA InvDrafts ==
    ASSUME UiInv
    PROVE  DraftKept
  <1>1. DraftsOK(ui, BagToSet(requests), written, discarded, dropped, made)
    BY UiFacts DEF InvOf
  <1> QED
    BY <1>1 DEF DraftKept, Kept, DraftsOK

LEMMA UiInvInit ==
    ASSUME UiInit
    PROVE  UiInv
  <1>1. PICK start : start = [tab |-> "Tickets", stacks |-> [t \in Tabs |-> <<RootPage[t]>>],
                  handlers |-> <<"global">>, ticketList |-> NotLoaded, rows |-> FALSE,
                  detail |-> NoDetail, activities |-> NoActivities, flowList |-> NotLoaded,
                  flowPage |-> 0, flowDetail |-> NoFlow, workerList |-> NotLoaded,
                  dirty |-> {}, changed |-> {}, cooling |-> FALSE,
                  known |-> [i \in Ids |-> "unseen"], overlay |-> NoOverlay, cmds |-> <<>>]
    OBVIOUS
  <1>2. PICK v : v = InitPage(start)
    OBVIOUS
  <1>3. PICK r : r = [cmd |-> FetchTickets, since |-> 0]
    OBVIOUS
  <1>4. /\ ui = [v EXCEPT !.cmds = <<>>]
        /\ requests = SetToBag({r})
        /\ server = [tickets |-> 0, flows |-> <<[i \in Ids |-> "going"]>>, workers |-> <<Ids>>]
        /\ events = {}
        /\ newest = [k \in Lists |-> 0]
        /\ excused = {} /\ unnoticed = {} /\ written = {}
        /\ made = [d \in Drafts |-> 0]
    BY <1>1, <1>2, <1>3 DEF UiInit
  <1>5. IsModel(start)
    BY <1>1 DEF IsModel, Fields
  <1>6. NavTyped(start)
    <2>1. \A t \in Tabs : <<RootPage[t]>> \in Seq(Pages) \ {<<>>}
      BY PagesTyped
    <2>2. start.stacks \in [Tabs -> Seq(Pages) \ {<<>>}]
      BY <1>1, <2>1
    <2>3. start.tab \in Tabs /\ start.handlers \in Seq(Handlers) /\ start.overlay \in Overlays
      BY <1>1, TabsTyped DEF Handlers, Overlays
    <2> QED
      BY <1>5, <2>2, <2>3 DEF NavTyped
  <1>7. DataTyped(start)
    <2>1. start.ticketList \in Load(Nat) /\ start.workerList \in Load(SUBSET Ids) /\ start.flowList \in Load(FlowMaps)
      BY <1>1 DEF Load
    <2>2. start.detail \in [id : IdsN, data : Load(DetailData), closed : BOOLEAN, rows : BOOLEAN]
      BY <1>1 DEF NoDetail, Load, IdsN
    <2>3. start.activities \in [id : IdsN, data : Load(ActivityData), authors : BOOLEAN, author : {0, 1}]
      BY <1>1 DEF NoActivities, Load, IdsN
    <2>4. /\ start.flowPage \in Nat /\ start.dirty = {} /\ start.changed = {} /\ start.cooling \in BOOLEAN
          /\ start.known \in [Ids -> Status \cup {"unseen"}] /\ start.flowDetail.id \in IdsN
      BY <1>1 DEF NoFlow, IdsN
    <2> QED
      BY <2>1, <2>2, <2>3, <2>4 DEF DataTyped
  <1>8. ModelOK(start)
    <2>1. start.cmds \in Seq(UiCommands)
      BY <1>1
    <2> QED
      BY <1>6, <1>7, <2>1 DEF ModelOK
  <1>9. StacksOK(start)
    <2>1. \A t \in Tabs : start.stacks[t] = <<RootPage[t]>>
      BY <1>1
    <2>2. \A t \in Tabs : start.stacks[t][1] = RootPage[t] /\ Len(start.stacks[t]) = 1
      BY <2>1
    <2> QED
      BY <2>2, TabsTyped DEF StacksOK
  <1>10. PICK page \in Pages : page = CurrentPage(start) /\ page.kind = "TicketList"
    <2>1. start.stacks["Tickets"] = <<RootPage["Tickets"]>> /\ start.tab = "Tickets"
      BY <1>1, TabsTyped
    <2>2. CurrentPage(start) = RootPage["Tickets"]
      <3>1. PICK root : root = RootPage["Tickets"]
        OBVIOUS
      <3>2. PICK pages : pages = <<root>>
        OBVIOUS
      <3>3. pages[Len(pages)] = root
        BY <3>2
      <3>4. Last(pages) = root
        BY <3>3 DEF Last
      <3> QED
        BY <2>1, <3>1, <3>2, <3>4 DEF CurrentPage
    <2>3. RootPage["Tickets"].kind = "TicketList"
      BY DEF RootPage, Page
    <2> QED
      BY <2>2, <2>3, PagesTyped, TabsTyped
  <1>11. HandlersOK(start, Len(PageHandlers(page)))
    <2>1. \A t \in Tabs : start.stacks[t] = <<RootPage[t]>>
      BY <1>1
    <2>2. ASSUME NEW t \in Tabs PROVE Owes(start, t) = 0
      <3>1. start.tab # "Help"
        BY <1>1
      <3>2. PICK pages : pages = start.stacks[t]
        OBVIOUS
      <3>3. Handled(pages) = IF t = "Help" THEN 1 ELSE 0
        BY <2>1, <3>2, RootHandled
      <3> QED
        BY <3>1, <3>2, <3>3 DEF Owes
    <2>3. Owed(start) = 0
      BY <2>2, TabsTyped DEF Owed
    <2>4. Len(PageHandlers(page)) = 0
      BY <1>10 DEF PageHandlers
    <2>5. Len(start.handlers) = 1 /\ start.handlers[1] = "global"
      BY <1>1
    <2> QED
      BY <2>3, <2>4, <2>5 DEF HandlersOK
  <1>12. /\ Alters(start, v, InitFields) /\ ModelOK(v) /\ Wants(v, page)
         /\ page.kind = "TicketActivities" \/ v.activities = start.activities
    BY <1>2, <1>8, <1>10, InitPageOnly
  <1>13. NavOK(v)
    BY <1>2, <1>8, <1>9, <1>10, <1>11, InitNav
  <1>14. Alters(v, ui, {"cmds"}) /\ ui.cmds = <<>>
    BY <1>4, <1>12 DEF ModelOK, NavTyped, IsModel, Alters, Fields
  <1>15. CurrentPage(v) = page /\ v.overlay = NoOverlay /\ v.changed = {} /\ v.activities = NoActivities
    <2>1. v["tab"] = start["tab"] /\ v["stacks"] = start["stacks"] /\ v["overlay"] = start["overlay"] /\ v["changed"] = start["changed"]
      BY <1>12 DEF Alters, Fields, InitFields
    <2>2. start.overlay = NoOverlay /\ start.changed = {} /\ start.activities = NoActivities
      BY <1>1
    <2> QED
      BY <1>10, <1>12, <2>1, <2>2 DEF CurrentPage
  <1>16. PICK s : s = server
    OBVIOUS
  <1>17. /\ s = [tickets |-> 0, flows |-> <<[i \in Ids |-> "going"]>>, workers |-> <<Ids>>]
         /\ s.tickets = 0 /\ s.flows = <<[i \in Ids |-> "going"]>> /\ s.workers = <<Ids>>
    BY <1>4, <1>16
  <1>18. ServerOK(s)
    <2>1. [i \in Ids |-> "going"] \in [Ids -> Status]
      BY DEF Status
    <2>2. s.flows \in Seq([Ids -> Status]) \ {<<>>}
      BY <1>17, <2>1
    <2>3. s.workers \in Seq(SUBSET Ids) \ {<<>>}
      BY <1>17
    <2>4. s = [tickets |-> s.tickets, flows |-> s.flows, workers |-> s.workers] /\ s.tickets \in Nat
      BY <1>17
    <2> QED
      BY <2>2, <2>3, <2>4 DEF ServerOK
  <1>19. RequestsOK({r}, s)
    <2>1. r.cmd = Fetch("tickets", NoId, 0) /\ r.since = 0 /\ r = [cmd |-> r.cmd, since |-> r.since]
      BY <1>3 DEF FetchTickets
    <2>2. r.cmd \in UiCommands /\ r.cmd.what = "tickets"
      BY <2>1 DEF UiCommands, Fetch, IdsN
    <2>3. Version(s, "tickets") = 0
      BY <1>17, VersionIs
    <2> QED
      BY <2>1, <2>2, <2>3 DEF RequestsOK
  <1>20. ObserversOK(s, {}, newest, {}, {}, made)
    <2>1. \A k \in Lists : Version(s, k) \in Nat
      BY <1>18, VersionTyped DEF Lists, Whats
    <2>2. newest \in [Lists -> Nat] /\ \A k \in Lists : newest[k] = 0
      BY <1>4
    <2>3. made \in [Drafts -> Nat]
      BY <1>4
    <2> QED
      BY <2>1, <2>2, <2>3 DEF ObserversOK
  <1>21. FreshAll(v, {r}, s, {}, {}, newest)
    <2>1. r.cmd.what = "tickets" /\ r.since = Version(s, "tickets")
      BY <1>3, <1>17, VersionIs DEF FetchTickets, Fetch
    <2>2. \A k \in ListKeys : ListFresh(k, v, {r}, s, {}, {}, newest)
      BY <1>10, <1>15, <2>1 DEF ListKeys, KindOf, ListFresh
    <2>3. DetailFresh(v, {r}, s, {}, {}, newest)
      BY <1>10, <1>15 DEF DetailFresh
    <2>4. ActivitiesFresh(v, {r}, s, {}, {}, newest)
      BY <1>10, <1>15 DEF ActivitiesFresh
    <2> QED
      BY <2>2, <2>3, <2>4 DEF FreshAll
  <1>22. StallsOK(v, {r}, s, {}, {}) /\ GotoOK(v)
    BY <1>15 DEF StallsOK, GotoOK, NoOverlay
  <1>23. DraftsOK(v, {r}, {}, discarded, dropped, made)
    BY DEF DraftsOK
  <1>24. TypedAll(v, {r}, s, {}, {}, newest, {}, {}, made)
    BY <1>12, <1>18, <1>19, <1>20 DEF TypedAll
  <1>25. InvOf(v, {r}, s, {}, {}, newest, {}, {}, discarded, dropped, made)
    BY <1>13, <1>21, <1>22, <1>23, <1>24 DEF InvOf
  <1>26. InvOf(ui, {r}, s, {}, {}, newest, {}, {}, discarded, dropped, made)
    BY <1>14, <1>25, Settled
  <1>27. IsABag(requests) /\ BagToSet(requests) = {r}
    BY <1>4 DEF IsABag, SetToBag, BagToSet
  <1> QED
    BY <1>4, <1>14, <1>16, <1>26, <1>27 DEF UiInv

\* The invariant: the pages of every tab find their handlers, and what is shown,
\* announced or written is up to date or has something on its way that brings it
\* there.
THEOREM UiInvCorrect == UiSpec => []UiInv
  <1>1. UiInit => UiInv
    BY UiInvInit
  <1>2. UiInv /\ [UiNext]_uiVars => UiInv'
    BY UiInvStep
  <1> QED
    BY <1>1, <1>2, PTL DEF UiSpec

\* However tabs are switched and pages opened and left, the global handler stays
\* at the bottom of the input stack and a page that has a handler of its own
\* finds it on top (init_page, teardown_page).
THEOREM OwnHandlerOnTopCorrect == UiSpec => []OwnHandlerOnTop
  <1>1. UiInv => OwnHandlerOnTop
    BY InvOnTop
  <1> QED
    BY <1>1, UiInvCorrect, PTL

\* Once every event was handled and every answer applied, a list, a ticket or the
\* activities on the screen show the current state of the server or an error,
\* but for the exceptions that FreshWhenQuiet names (flush_throttle, handle_tick,
\* init_page).  Nothing is said of the page of a workflow.
THEOREM FreshWhenQuietCorrect == UiSpec => []FreshWhenQuiet
  <1>1. UiInv => FreshWhenQuiet
    BY InvFresh
  <1> QED
    BY <1>1, UiInvCorrect, PTL

\* A workflow that stalls after the interface first saw it is announced whatever
\* tab is shown and however events and answers are ordered
\* (process_flow_updates).
THEOREM StallAnnouncedCorrect == UiSpec => []StallAnnounced
  <1>1. UiInv => StallAnnounced
    BY InvStalls
  <1> QED
    BY <1>1, UiInvCorrect, PTL

\* A ticket the user wrote is made, being made, on the screen or abandoned,
\* unless the error of another one took the place of its menu
\* (handle_ticket_op_result) or its dispatch was refused because its project is
\* local (handle_create_action).
THEOREM DraftKeptCorrect == UiSpec => []DraftKept
  <1>1. UiInv => DraftKept
    BY InvDrafts
  <1> QED
    BY <1>1, UiInvCorrect, PTL
=============================================================================
