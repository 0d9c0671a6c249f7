------------------------------ MODULE HostStack ------------------------------
(***************************************************************************)
(* The host side of ur: the invocations of `ur server start | stop |      *)
(* restart | redeploy` and `ur db backup`, each a process of its own, over *)
(* what they share: builderd with its PID file and its lock file, the      *)
(* compose project with the server in it, the worker containers, and the   *)
(* directory with the dumps of one database.  The server dumps that        *)
(* database on a timer.                                                    *)
(***************************************************************************)
EXTENDS Integers, Sequences, FiniteSets

CONSTANTS
    Commands,     \* invocations of ur that may run at the same time
    Pids,         \* process ids of the host
    Workers,      \* worker containers
    Retain,       \* retain_count of the backup configuration
    MaxRuns,      \* bound: commands given
    MaxDumps,     \* bound: dumps begun
    MaxTroubles   \* bound: failing calls, crashes, interrupted commands, reused pids

ASSUME RetainAssumption == Retain \in Nat

\* The host has process ids, and "none" is neither one nor a command.
ASSUME NamesAssumption == Pids # {} /\ "none" \notin Pids \cup Commands

VARIABLES
    proc,      \* the process with each id: builderd (starting, serving, dying), another one, or none
    port,      \* the process that holds builderd's port
    pidFile,   \* builderd.pid
    lock,      \* the command that holds builderd.lock
    compose,   \* the compose file exists; the server and its database run
    workers,   \* the worker containers that run
    cmd,       \* the commands under way
    dumps,     \* the files of the backup directory in the order of their timestamps
    auto,      \* the dump the server's backup task waits for, 0 if none
    runs, troubles,
    raced,     \* observer: a stop and a start of builderd overlapped, or a start was cut short
    outgoing,  \* observer: a start met a builderd told to end, in the PID file or at its port
    good       \* observer: a dump has been completed

None == "none"
daemon == <<proc, port, pidFile, lock, outgoing>>
stack == <<compose, workers>>
backups == <<dumps, auto, good>>
vars == <<daemon, stack, backups, cmd, runs, troubles, raced>>

\* What each command does, in order.
Phases(op) ==
    CASE op = "start"    -> <<"start", "up">>
      [] op = "stop"     -> <<"stop", "stopBuilderd">>
      [] op = "restart"  -> <<"stop", "stopBuilderd", "start", "up">>
      [] op = "builderd" -> <<"stopBuilderd", "start">>
      [] op = "server"   -> <<"recreate">>
      [] op = "all"      -> <<"stopBuilderd", "start", "recreate">>
      [] op = "backup"   -> <<"dump">>
Ops == {"start", "stop", "restart", "builderd", "server", "all", "backup"}

FirstStep(phase) ==
    CASE phase = "start" -> "lock" [] phase = "up" -> "down" [] phase = "stop" -> "list"
      [] phase = "stopBuilderd" -> "exists" [] OTHER -> phase

NoCommand == [todo |-> <<>>, pc |-> "idle", pid |-> None, seen |-> {}, dump |-> 0]
At(c, pc) == cmd[c].pc = pc

Starting(r) == r.pc \in {"check", "stale", "spawn", "write"}
Stopping(r) == r.pc \in {"read", "kill", "remove"}
Overlap(r, s) == Starting(r) /\ Stopping(s)

\* The commands after c's step; a start and a stop of builderd that overlap are noted.
Becomes(c, r) ==
    /\ cmd' = [cmd EXCEPT ![c] = r]
    /\ raced' = (raced \/ \E d \in Commands \ {c} : Overlap(r, cmd[d]) \/ Overlap(cmd[d], r))
Goto(c, pc) == Becomes(c, [cmd[c] EXCEPT !.pc = pc])

\* The phase is over and the next one begins; the command ends after the last.
After(r, todo) ==
    IF todo = <<>> THEN NoCommand
    ELSE [r EXCEPT !.todo = Tail(todo), !.pc = FirstStep(Head(todo)), !.pid = None, !.seen = {}]
Done(c) == Becomes(c, After(cmd[c], cmd[c].todo))

\* An error ends the command, whatever was left to do; its file lock goes with it.
Fails(c) == Becomes(c, NoCommand)
Released(c) == lock' = IF lock = c THEN None ELSE lock

\* The command ends anywhere: a start may have spawned builderd and not written its pid.
CutShort(c) ==
    /\ cmd' = [cmd EXCEPT ![c] = NoCommand]
    /\ raced' = (raced \/ At(c, "write"))

Trouble == troubles < MaxTroubles /\ troubles' = troubles + 1
NoTrouble == UNCHANGED <<runs, troubles>>

Invoke(c, op) ==
    /\ cmd[c] = NoCommand /\ runs < MaxRuns
    /\ runs' = runs + 1
    /\ Becomes(c, After(NoCommand, Phases(op)))
    /\ UNCHANGED <<daemon, stack, backups, troubles>>

\* Ctrl-C, or the end of the terminal: nothing is undone but the file lock.
Interrupted(c) ==
    /\ cmd[c] # NoCommand
    /\ Trouble
    /\ CutShort(c)
    /\ Released(c)
    /\ UNCHANGED <<proc, port, pidFile, outgoing, stack, backups, runs>>

-----------------------------------------------------------------------------
(* start_builderd                                                          *)

\* Mutant: kill -0.
PidExists(p) == proc[p] # None

\* is_builderd_running: a process that merely has the pid does not count.
IsBuilderdRunning(p) == proc[p] \in {"starting", "serving", "dying"}

\* Mutant: the lock file is opened but not locked.
TakeNoLock(c) ==
    /\ At(c, "lock")
    /\ Goto(c, "check")
    /\ UNCHANGED <<daemon, stack, backups>> /\ NoTrouble

TakeLock(c) ==
    /\ At(c, "lock") /\ lock = None
    /\ lock' = c
    /\ Goto(c, "check")
    /\ UNCHANGED <<proc, port, pidFile, outgoing, stack, backups>> /\ NoTrouble

CheckPidFile(c) ==
    /\ At(c, "check")
    /\ \/ /\ pidFile = None
          /\ Goto(c, "spawn") /\ UNCHANGED <<lock, outgoing>>
       \/ /\ pidFile # None /\ IsBuilderdRunning(pidFile)
          /\ outgoing' = (outgoing \/ proc[pidFile] = "dying")
          /\ Done(c) /\ Released(c)
       \/ /\ pidFile # None /\ ~IsBuilderdRunning(pidFile)
          /\ Goto(c, "stale") /\ UNCHANGED <<lock, outgoing>>
    /\ UNCHANGED <<proc, port, pidFile, stack, backups>> /\ NoTrouble

\* remove_file fails when a stop has removed the file since.
RemoveStale(c) ==
    /\ At(c, "stale")
    /\ \/ pidFile # None /\ pidFile' = None /\ Goto(c, "spawn") /\ UNCHANGED lock
       \/ pidFile = None /\ UNCHANGED pidFile /\ Fails(c) /\ Released(c)
    /\ UNCHANGED <<proc, port, outgoing, stack, backups>> /\ NoTrouble

Spawn(c) ==
    /\ At(c, "spawn")
    /\ \/ /\ \E p \in Pids :
                /\ proc[p] = None
                /\ proc' = [proc EXCEPT ![p] = "starting"]
                /\ Becomes(c, [cmd[c] EXCEPT !.pc = "write", !.pid = p])
          /\ UNCHANGED lock /\ NoTrouble
       \/ /\ Fails(c) /\ Released(c)
          /\ Trouble /\ UNCHANGED <<proc, runs>>
    /\ UNCHANGED <<port, pidFile, outgoing, stack, backups>>

\* A write that fails ends the command; the builderd it has spawned stays.
WritePidFile(c) ==
    /\ At(c, "write")
    /\ \/ pidFile' = cmd[c].pid /\ Done(c) /\ NoTrouble
       \/ UNCHANGED pidFile /\ CutShort(c) /\ Trouble /\ UNCHANGED runs
    /\ Released(c)
    /\ UNCHANGED <<proc, port, outgoing, stack, backups>>

-----------------------------------------------------------------------------
(* stop_builderd: it takes no lock and looks at no name                    *)

PidFileExists(c) ==
    /\ At(c, "exists")
    /\ IF pidFile = None THEN Done(c) ELSE Goto(c, "read")
    /\ UNCHANGED <<daemon, stack, backups>> /\ NoTrouble

ReadPid(c) ==
    /\ At(c, "read")
    /\ IF pidFile = None THEN Fails(c)
       ELSE Becomes(c, [cmd[c] EXCEPT !.pc = "kill", !.pid = pidFile])
    /\ UNCHANGED <<daemon, stack, backups>> /\ NoTrouble

\* SIGTERM ends whatever has the pid; an error of kill is a warning.
Kill(c) ==
    /\ At(c, "kill")
    /\ proc' = [proc EXCEPT ![cmd[c].pid] = CASE @ \in {"starting", "serving"} -> "dying"
                                              [] @ = "other" -> None
                                              [] OTHER -> @]
    /\ Goto(c, "remove")
    /\ UNCHANGED <<port, pidFile, lock, outgoing, stack, backups>> /\ NoTrouble

RemovePidFile(c) ==
    /\ At(c, "remove")
    /\ IF pidFile = None THEN UNCHANGED pidFile /\ Fails(c)
       ELSE pidFile' = None /\ Done(c)
    /\ UNCHANGED <<proc, port, lock, outgoing, stack, backups>> /\ NoTrouble

-----------------------------------------------------------------------------
(* The compose project                                                     *)

\* Server and database end: a pg_dump under way leaves a file that is not complete.
Down ==
    /\ dumps' = [t \in DOMAIN dumps |-> IF dumps[t].state = "writing" THEN [dumps[t] EXCEPT !.state = "partial"]
                                                                     ELSE dumps[t]]
    /\ auto' = 0
    /\ UNCHANGED good

\* compose.up: the file is written and `down` run first, its result ignored.
PreUpDown(c) ==
    /\ At(c, "down")
    /\ \/ compose' = [file |-> TRUE, up |-> FALSE] /\ Down /\ NoTrouble
       \/ compose' = [compose EXCEPT !.file = TRUE] /\ Trouble /\ UNCHANGED <<backups, runs>>
    /\ Goto(c, "up")
    /\ UNCHANGED <<daemon, workers>>

\* up --wait fails, too, when a container it has started does not get healthy.
ComposeUp(c) ==
    LET running == [compose EXCEPT !.up = TRUE]
    IN  /\ At(c, "up")
        /\ \/ compose' = running /\ Done(c) /\ NoTrouble
           \/ compose' \in {compose, running} /\ Fails(c) /\ Trouble /\ UNCHANGED runs
        /\ UNCHANGED <<daemon, workers, backups>>

\* stop_server: the channel of try_connect is lazy and always there, so the
\* workers are asked of the server, reachable or not.
ListWorkers(c) ==
    /\ At(c, "list")
    /\ \/ /\ compose.up
          /\ Becomes(c, [cmd[c] EXCEPT !.pc = "stopWorkers", !.seen = workers]) /\ NoTrouble
       \/ ~compose.up /\ Goto(c, "running") /\ NoTrouble
       \/ compose.up /\ Goto(c, "running") /\ Trouble /\ UNCHANGED runs
    /\ UNCHANGED <<daemon, stack, backups>>

\* stop_workers_via_grpc: a worker that cannot be stopped is a warning.
StopWorkers(c) ==
    /\ At(c, "stopWorkers")
    /\ \/ compose.up /\ workers' = workers \ cmd[c].seen /\ NoTrouble
       \/ ~compose.up /\ UNCHANGED workers /\ NoTrouble
       \/ compose.up /\ UNCHANGED workers /\ Trouble /\ UNCHANGED runs
    /\ Goto(c, "running")
    /\ UNCHANGED <<daemon, compose, backups>>

\* "server is not running": stop_server returns, and builderd is left alone.
\* So it does when `compose ps` fails; a docker that cannot be run ends the command.
IsRunning(c) ==
    LET nothingToStop == Becomes(c, After(cmd[c], Tail(cmd[c].todo)))
        running       == compose.file /\ compose.up
    IN  /\ At(c, "running")
        /\ \/ running /\ Goto(c, "composeDown") /\ NoTrouble
           \/ ~running /\ nothingToStop /\ NoTrouble
           \/ running /\ nothingToStop /\ Trouble /\ UNCHANGED runs
           \/ compose.file /\ Fails(c) /\ Trouble /\ UNCHANGED runs
        /\ UNCHANGED <<daemon, stack, backups>>

ComposeDown(c) ==
    /\ At(c, "composeDown")
    /\ \/ compose.file /\ compose' = [file |-> FALSE, up |-> FALSE] /\ Down /\ Done(c) /\ NoTrouble
       \/ ~compose.file /\ Fails(c) /\ UNCHANGED <<compose, backups>> /\ NoTrouble
       \/ compose.file /\ Fails(c) /\ Trouble /\ UNCHANGED <<compose, backups, runs>>
    /\ UNCHANGED <<daemon, workers>>

\* recreate_service("ur-server"): the database stays, and so does a pg_dump in it.
Recreate(c) ==
    /\ At(c, "recreate")
    /\ \/ compose' = [file |-> TRUE, up |-> TRUE] /\ auto' = 0 /\ Done(c) /\ NoTrouble
       \/ compose' = [compose EXCEPT !.file = TRUE] /\ Fails(c) /\ Trouble /\ UNCHANGED <<auto, runs>>
    /\ UNCHANGED <<daemon, workers, dumps, good>>

-----------------------------------------------------------------------------
(* Backups                                                                 *)

Present(t) == dumps[t].state \in {"writing", "complete", "partial"}

\* clean_old_backups: automatic dumps beyond the newest Retain are removed,
\* complete or not, but for the current one.
CleanOldBackups(t) ==
    LET autos == {i \in DOMAIN dumps : ~dumps[i].manual /\ Present(i)}
        kept  == {i \in autos : Cardinality({j \in autos : j > i}) < Retain}
    IN  [i \in DOMAIN dumps |-> IF i \in autos \ (kept \cup {t}) THEN [dumps[i] EXCEPT !.state = "removed"]
                                                                ELSE dumps[i]]

\* Mutant: old dumps are removed after a failure, too.
DumpReturnsAlways(t) ==
    dumps[t].state # "writing" /\ dumps' = CleanOldBackups(t) /\ NoTrouble

\* The caller of pg_dump goes on: a success is followed by the clean-up, which
\* reports what it could not remove, a failure by nothing.
DumpReturns(t) ==
    \/ dumps[t].state \in {"complete", "removed"} /\ dumps' = CleanOldBackups(t) /\ NoTrouble
    \/ dumps[t].state = "complete" /\ UNCHANGED <<dumps, runs>> /\ Trouble
    \/ dumps[t].state = "partial" /\ UNCHANGED dumps /\ NoTrouble

\* The timestamp in a dump's name is taken to be its own.
NewDump(manual) ==
    /\ Len(dumps) < MaxDumps
    /\ dumps' = Append(dumps, [manual |-> manual, state |-> "writing"])

\* backup_loop: the interval is over; run_backup.
AutoDump ==
    /\ compose.up /\ auto = 0
    /\ NewDump(FALSE) /\ auto' = Len(dumps')
    /\ UNCHANGED <<daemon, stack, cmd, raced, good>> /\ NoTrouble

AutoDumpReturns ==
    /\ auto # 0 /\ DumpReturns(auto)
    /\ auto' = 0
    /\ UNCHANGED <<daemon, stack, cmd, raced, good>>

\* ur db backup: backup_one.
ManualDump(c) ==
    /\ At(c, "dump")
    /\ \/ compose.up /\ NewDump(TRUE) /\ Becomes(c, [cmd[c] EXCEPT !.pc = "dumping", !.dump = Len(dumps')])
       \/ ~compose.up /\ Fails(c) /\ UNCHANGED dumps
    /\ UNCHANGED <<daemon, stack, auto, good>> /\ NoTrouble

ManualDumpReturns(c) ==
    /\ At(c, "dumping") /\ DumpReturns(cmd[c].dump)
    /\ Becomes(c, NoCommand)
    /\ UNCHANGED <<daemon, stack, auto, good>>

\* pg_dump ends in the database's container; a failure leaves what it wrote.
PgDumpEnds(t) ==
    /\ dumps[t].state = "writing"
    /\ \/ dumps' = [dumps EXCEPT ![t].state = "complete"] /\ good' = TRUE /\ NoTrouble
       \/ dumps' = [dumps EXCEPT ![t].state = "partial"] /\ UNCHANGED <<good, runs>> /\ Trouble
    /\ UNCHANGED <<daemon, stack, auto, cmd, raced>>

-----------------------------------------------------------------------------
(* builderd, other processes, workers                                      *)

\* builderd's main binds its port once; when it cannot, it ends.
Bind(p) ==
    /\ proc[p] = "starting"
    /\ \/ port = None /\ port' = p /\ proc' = [proc EXCEPT ![p] = "serving"] /\ UNCHANGED outgoing
       \/ /\ port # None /\ UNCHANGED port /\ proc' = [proc EXCEPT ![p] = None]
          /\ outgoing' = (outgoing \/ proc[port] = "dying")
    /\ UNCHANGED <<pidFile, lock, stack, backups, cmd, raced>> /\ NoTrouble

Gone(p) ==
    /\ proc' = [proc EXCEPT ![p] = None]
    /\ port' = IF port = p THEN None ELSE port
    /\ UNCHANGED <<pidFile, lock, outgoing, stack, backups, cmd, raced>>

Dies(p) == proc[p] = "dying" /\ Gone(p) /\ NoTrouble

Crashes(p) == proc[p] \in {"starting", "serving"} /\ Gone(p) /\ Trouble /\ UNCHANGED runs

\* The pid of the PID file is given to another process; there is one such at most.
Reused(p) ==
    /\ proc[p] = None /\ pidFile = p
    /\ \A q \in Pids : proc[q] # "other"
    /\ Trouble
    /\ proc' = [proc EXCEPT ![p] = "other"]
    /\ UNCHANGED <<port, pidFile, lock, outgoing, stack, backups, cmd, runs, raced>>

\* The server launches workers through builderd.
Launch(w) ==
    /\ w \notin workers /\ compose.up /\ port # None /\ proc[port] = "serving"
    /\ workers' = workers \cup {w}
    /\ UNCHANGED <<daemon, compose, backups, cmd, raced>> /\ NoTrouble

-----------------------------------------------------------------------------
\* Process ids are interchangeable: one stands for that of an earlier builderd.
FirstPid == CHOOSE p \in Pids : TRUE
Only(s) == [p \in Pids |-> IF p = FirstPid THEN s ELSE None]

\* The stack is down, an earlier start has brought it up, or it was up when
\* the host was rebooted and the pid of its PID file may be another process's.
Init ==
    /\ \/ /\ proc = Only(None) /\ port = None /\ pidFile = None
          /\ compose = [file |-> FALSE, up |-> FALSE]
       \/ /\ proc = Only("serving") /\ port = FirstPid /\ pidFile = FirstPid
          /\ compose = [file |-> TRUE, up |-> TRUE]
       \/ /\ \E s \in {None, "other"} : proc = Only(s)
          /\ port = None /\ pidFile = FirstPid
          /\ compose = [file |-> TRUE, up |-> FALSE]
    /\ workers = {} /\ lock = None
    /\ cmd = [c \in Commands |-> NoCommand]
    /\ dumps = <<>> /\ auto = 0
    /\ runs = 0 /\ troubles = 0
    /\ raced = FALSE /\ outgoing = FALSE /\ good = FALSE

CommandStep(c) ==
    \/ TakeLock(c) \/ CheckPidFile(c) \/ RemoveStale(c) \/ Spawn(c) \/ WritePidFile(c)
    \/ PidFileExists(c) \/ ReadPid(c) \/ Kill(c) \/ RemovePidFile(c)
    \/ PreUpDown(c) \/ ComposeUp(c) \/ ListWorkers(c) \/ StopWorkers(c) \/ IsRunning(c) \/ ComposeDown(c)
    \/ Recreate(c) \/ ManualDump(c) \/ ManualDumpReturns(c)

Next ==
    \/ \E c \in Commands : CommandStep(c) \/ Interrupted(c) \/ \E op \in Ops : Invoke(c, op)
    \/ \E p \in Pids : Bind(p) \/ Dies(p) \/ Crashes(p) \/ Reused(p)
    \/ \E w \in Workers : Launch(w)
    \/ \E t \in DOMAIN dumps : PgDumpEnds(t)
    \/ AutoDump \/ AutoDumpReturns

\* Commands, processes that were signalled and a builderd that starts go on.
Fairness ==
    /\ \A c \in Commands : WF_vars(CommandStep(c))
    /\ \A p \in Pids : WF_vars(Bind(p)) /\ WF_vars(Dies(p))

Spec == Init /\ [][Next]_vars /\ Fairness

-----------------------------------------------------------------------------
Process == {None, "starting", "serving", "dying", "other"}
Phase   == {"start", "up", "stop", "stopBuilderd", "recreate", "dump"}
Place   == {"idle", "lock", "check", "stale", "spawn", "write", "exists", "read", "kill", "remove", "down",
            "up", "list", "stopWorkers", "running", "composeDown", "recreate", "dump", "dumping"}
Command == [todo : Seq(Phase), pc : Place, pid : Pids \cup {None}, seen : SUBSET Workers, dump : Nat]
Dump    == [manual : BOOLEAN, state : {"writing", "complete", "partial", "removed"}]

\* Every variable holds a value of its kind.
TypeOK ==
    /\ proc \in [Pids -> Process]
    /\ port \in Pids \cup {None} /\ pidFile \in Pids \cup {None} /\ lock \in Commands \cup {None}
    /\ compose \in [file : BOOLEAN, up : BOOLEAN] /\ workers \subseteq Workers
    /\ cmd \in [Commands -> Command]
    /\ dumps \in Seq(Dump) /\ auto \in 0..Len(dumps)
    /\ runs \in Nat /\ troubles \in Nat
    /\ {raced, outgoing, good} \subseteq BOOLEAN

\* builderd.lock does its work: a builderd that runs is the one the PID file
\* names, or is about to be, so that the next start finds it and the next stop
\* ends it, however many commands run at once; unless a stop, which takes no
\* lock, overlapped a start, or a start ended between spawn and write.
Findable ==
    ~raced => \A p \in Pids : proc[p] \in {"starting", "serving"} =>
                  \/ pidFile = p
                  \/ \E c \in Commands : At(c, "write") /\ cmd[c].pid = p

\* After a start has looked at the PID file a builderd serves: neither a file
\* left by a crash nor a process that got the pid of one makes it "short-
\* circuit" (is_builderd_running).  Not so when it met a builderd that had been
\* told to end, or another command stops builderd.  Said of the starts after
\* the last trouble: with fewer troubles they are those of a smaller bound.
StartServes ==
    (troubles = MaxTroubles /\ \E c \in Commands : At(c, "check")) ~>
        (port # None \/ raced \/ outgoing \/ \E c \in Commands : Stopping(cmd[c]))

\* Once a dump was completed the directory holds a complete one, whatever
\* clean-ups of the server and of ur do to dumps that failed or are under way.
GoodDumpKept == good => \E t \in DOMAIN dumps : dumps[t].state = "complete"

\* The code does not meet the properties below; see the README.

\* "Restart the server (stop then start)" (ServerCommands): a builderd serves
\* after a restart, too.
RestartServes ==
    (troubles = MaxTroubles /\ \E c \in Commands : At(c, "check")) ~>
        \/ (port # None /\ proc[port] = "serving")
        \/ raced
        \/ \E c \in Commands : Stopping(cmd[c])

\* "Try graceful stop via gRPC [...], fall back to Docker" (stop_server): when
\* a stop without a failing call finds the server down, no worker is left.
WorkersStopped ==
    [][\A c \in Commands : (troubles' = 0 /\ At(c, "running") /\ ~compose.up /\ cmd'[c] # cmd[c]) => workers = {}]_vars

\* "a bare existence check (kill -0) can match an unrelated process that reused
\* the PID": a stop ends no process but builderd.
OnlyBuilderdKilled == [][\A p \in Pids : proc[p] = "other" => proc'[p] = "other"]_vars

GoodAutos(ds) == Cardinality({t \in DOMAIN ds : ~ds[t].manual /\ ds[t].state = "complete"})

\* "Keeps the `retain_count` most recent automatic backups" (clean_old_backups):
\* a clean-up leaves Retain complete ones, if there were so many.
RetainsGood == [][GoodAutos(dumps') < GoodAutos(dumps) => GoodAutos(dumps') >= Retain]_vars
==============================================================================
