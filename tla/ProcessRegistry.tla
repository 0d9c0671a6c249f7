-------------------------- MODULE ProcessRegistry --------------------------
(***************************************************************************)
(* The long-lived processes of builderd (builderd/src/registry.rs and      *)
(* spawn_long_lived, forward_output_via_sink of handler.rs), for one key   *)
(* (command, working directory).  A request either starts the process and  *)
(* registers it, or finds it running and replaces its output sink.  The    *)
(* requests run on threads of their own, and every lock of the registry or *)
(* of a sink is one step.                                                  *)
(*                                                                         *)
(* A caller starts at most one process, which is named after it.  A frame  *)
(* is "line" or "exit"; the ack of a reconnect is "ack".  Names begin with *)
(* PR where Overlay, with which builderd runs it, has one of its own.      *)
(***************************************************************************)
EXTENDS Naturals, Sequences, FiniteSets

CONSTANTS
    MaxCallers,      \* requests, numbered in the order in which they come
    ChannelSize,     \* places of the channels (32 in the code)
    MaxLines,        \* frames a process writes before it exits
    MaxStarting,     \* requests between the check and the registration
    MaxTroubles      \* processes that cannot be started and callers that go away

\* tokio's channels have a place at least.
ASSUME RegistryAssumption ==
    /\ {MaxCallers, MaxLines, MaxStarting, MaxTroubles} \subseteq Nat
    /\ ChannelSize \in Nat \ {0}

Callers == 1..MaxCallers
Nobody == 0
NoFrame == "none"

VARIABLES
    entry,       \* the registered process, or Nobody
    alive,       \* its alive flag, for every process
    sink,        \* output_sink of every process: a caller or Nobody
    pipe,        \* the intermediate channel of every process
    child,       \* the operating system's process
    lines,       \* frames it has written
    forwarder,   \* forward_output_via_sink of every process
    call,        \* where each request stands
    stdinOf,     \* the process that gets the caller's stdin
    chan,        \* the caller's output channel
    heard,       \* the callers that have read an exit frame
    \* observed:
    raced,       \* two requests were between the check and the registration
    cut,         \* callers whose sink another caller's failed send removed
    late,        \* callers attached after the exit frame had been forwarded
    troubles

prVars == <<entry, alive, sink, pipe, child, lines, forwarder, call, stdinOf, chan, heard, raced, cut,
          late, troubles>>

Idle == [pc |-> "recv", tx |-> Nobody, frame |-> NoFrame]

MoveTo(c, to) == call' = [call EXCEPT ![c] = to]

Attached(c) == {p \in Callers : sink[p] = c}
Starting == {c \in Callers : call[c] \in {"spawn", "register"}}
Open(c) == call[c] = "stream"

-----------------------------------------------------------------------------
(* spawn_long_lived, one locked step after another. *)

Registered == entry # Nobody /\ alive[entry]

\* Mutant: a running process is not found.
IsRunningNever == FALSE

\* is_running, which removes a dead entry.
IsRunning == Registered

CheckFrame == UNCHANGED <<alive, sink, pipe, child, lines, forwarder, chan, heard, cut, late, troubles>>

Check(c) ==
    /\ call[c] = "idle" /\ (c > 1 => call[c - 1] # "idle")
    /\ IsRunning \/ Cardinality(Starting) < MaxStarting
    /\ MoveTo(c, IF IsRunning THEN "stdin" ELSE "spawn")
    /\ entry' = IF Registered THEN entry ELSE Nobody
    /\ raced' = (raced \/ (~IsRunning /\ Starting # {}))
    /\ UNCHANGED stdinOf /\ CheckFrame

\* get_stdin_tx
GetStdinTx(c) ==
    /\ call[c] = "stdin"
    /\ IF Registered
       THEN MoveTo(c, "sink") /\ stdinOf' = [stdinOf EXCEPT ![c] = entry] /\ UNCHANGED entry
       ELSE MoveTo(c, "failed") /\ entry' = Nobody /\ UNCHANGED stdinOf
    /\ UNCHANGED raced /\ CheckFrame

\* The ack goes into the new channel, then the sink is replaced.
ReplaceOutputSink(c) ==
    /\ call[c] = "sink"
    /\ IF Registered
       THEN /\ MoveTo(c, "stream")
            /\ sink' = [sink EXCEPT ![entry] = c]
            /\ chan' = [chan EXCEPT ![c] = <<"ack">>]
            /\ late' = IF forwarder[entry].pc = "done" \/ (child[entry] = "exited" /\ pipe[entry] = <<>>)
                       THEN late \cup {c} ELSE late
       ELSE /\ MoveTo(c, "failed")
            /\ UNCHANGED <<sink, chan, late>>
    /\ UNCHANGED <<entry, alive, pipe, child, lines, forwarder, stdinOf, heard, raced, cut, troubles>>

\* The process is started with its forwarder and the caller as its sink.
Spawn(c) ==
    /\ call[c] = "spawn"
    /\ \/ /\ MoveTo(c, "register")
          /\ child' = [child EXCEPT ![c] = "running"]
          /\ alive' = [alive EXCEPT ![c] = TRUE]
          /\ sink' = [sink EXCEPT ![c] = c]
          /\ forwarder' = [forwarder EXCEPT ![c] = Idle]
          /\ UNCHANGED troubles
       \/ /\ troubles < MaxTroubles /\ troubles' = troubles + 1
          /\ MoveTo(c, "failed")
          /\ UNCHANGED <<child, alive, sink, forwarder>>
    /\ UNCHANGED <<entry, pipe, lines, stdinOf, chan, heard, raced, cut, late>>

\* register overwrites whatever is there.
Register(c) ==
    /\ call[c] = "register"
    /\ entry' = c
    /\ MoveTo(c, "stream")
    /\ stdinOf' = [stdinOf EXCEPT ![c] = c]
    /\ UNCHANGED raced /\ CheckFrame

-----------------------------------------------------------------------------
(* The process and its forwarder. *)

\* Output and, at the end, the exit code go through the intermediate channel.
Write(p) ==
    /\ child[p] = "running" /\ Len(pipe[p]) < ChannelSize
    /\ \/ /\ lines[p] < MaxLines
          /\ lines' = [lines EXCEPT ![p] = @ + 1]
          /\ pipe' = [pipe EXCEPT ![p] = Append(@, "line")]
          /\ UNCHANGED child
       \/ /\ child' = [child EXCEPT ![p] = "exited"]
          /\ pipe' = [pipe EXCEPT ![p] = Append(@, "exit")]
          /\ UNCHANGED lines
    /\ UNCHANGED <<entry, alive, sink, forwarder, call, stdinOf, chan, heard, raced, cut, late, troubles>>

ForwardFrame == UNCHANGED <<entry, child, lines, call, stdinOf, heard, raced, late, troubles>>

\* A frame is taken and the sender of the moment is cloned; without one the
\* frame is dropped.
Receive(p) ==
    /\ forwarder[p].pc = "recv" /\ pipe[p] # <<>>
    /\ pipe' = [pipe EXCEPT ![p] = Tail(@)]
    /\ forwarder' = [forwarder EXCEPT ![p] =
                         IF sink[p] = Nobody THEN Idle
                         ELSE [pc |-> "send", tx |-> sink[p], frame |-> Head(pipe[p])]]
    /\ ForwardFrame /\ UNCHANGED <<alive, sink, chan, cut>>

Room(c) == Len(chan[c]) < ChannelSize

\* Mutant: a frame that finds the channel full is dropped.
SendDrops(p) ==
    LET c == forwarder[p].tx
    IN  /\ forwarder[p].pc = "send"
        /\ IF call[c] = "closed"
           THEN forwarder' = [forwarder EXCEPT ![p].pc = "clear"] /\ UNCHANGED chan
           ELSE /\ chan' = IF Room(c) THEN [chan EXCEPT ![c] = Append(@, forwarder[p].frame)] ELSE chan
                /\ forwarder' = [forwarder EXCEPT ![p] = Idle]
        /\ ForwardFrame /\ UNCHANGED <<alive, sink, pipe, cut>>

\* The send waits for room; it fails when the caller has gone.
Send(p) ==
    LET c == forwarder[p].tx
    IN  /\ forwarder[p].pc = "send"
        /\ IF call[c] = "closed"
           THEN forwarder' = [forwarder EXCEPT ![p].pc = "clear"] /\ UNCHANGED chan
           ELSE /\ Room(c)
                /\ chan' = [chan EXCEPT ![c] = Append(@, forwarder[p].frame)]
                /\ forwarder' = [forwarder EXCEPT ![p] = Idle]
        /\ ForwardFrame /\ UNCHANGED <<alive, sink, pipe, cut>>

\* The sink is cleared, whoever's sender it holds by now.
ClearSink(p) ==
    /\ forwarder[p].pc = "clear"
    /\ cut' = IF sink[p] \in {Nobody, forwarder[p].tx} THEN cut ELSE cut \cup {sink[p]}
    /\ sink' = [sink EXCEPT ![p] = Nobody]
    /\ forwarder' = [forwarder EXCEPT ![p] = Idle]
    /\ ForwardFrame /\ UNCHANGED <<alive, pipe, chan>>

\* Mutant: the flag stays up.
MarkNothing(p) == alive

Marked(p) == [alive EXCEPT ![p] = FALSE]

\* The intermediate channel is closed: the process is marked dead.
MarkDead(p) ==
    /\ forwarder[p].pc = "recv" /\ child[p] = "exited" /\ pipe[p] = <<>>
    /\ alive' = Marked(p)
    /\ forwarder' = [forwarder EXCEPT ![p].pc = "done"]
    /\ ForwardFrame /\ UNCHANGED <<sink, pipe, chan, cut>>

\* reap, every ten seconds.
Reap ==
    /\ entry # Nobody /\ ~alive[entry]
    /\ entry' = Nobody
    /\ UNCHANGED <<call, stdinOf, raced>> /\ CheckFrame

-----------------------------------------------------------------------------
(* The callers. *)

CallerFrame == UNCHANGED <<entry, alive, sink, pipe, child, lines, forwarder, stdinOf, raced, cut, late>>

Read(c) ==
    /\ Open(c) /\ chan[c] # <<>>
    /\ chan' = [chan EXCEPT ![c] = Tail(@)]
    /\ heard' = IF Head(chan[c]) = "exit" THEN heard \cup {c} ELSE heard
    /\ UNCHANGED <<call, troubles>> /\ CallerFrame

\* A sender lives in a sink that the registry or the forwarder still holds, or
\* in the forwarder's hands.
Senders(c) ==
    {p \in Callers : \/ sink[p] = c /\ (entry = p \/ forwarder[p].pc # "done")
                     \/ forwarder[p].tx = c}

\* The stream ends when the last sender is dropped.
StreamEnds(c) ==
    /\ Open(c) /\ chan[c] = <<>> /\ Senders(c) = {}
    /\ MoveTo(c, "ended")
    /\ UNCHANGED <<chan, heard, troubles>> /\ CallerFrame

\* The caller goes away; its channel is closed.
Close(c) ==
    /\ Open(c) /\ troubles < MaxTroubles
    /\ troubles' = troubles + 1
    /\ MoveTo(c, "closed")
    /\ chan' = [chan EXCEPT ![c] = <<>>]
    /\ UNCHANGED heard /\ CallerFrame

-----------------------------------------------------------------------------

PRInit ==
    /\ entry = Nobody
    /\ alive = [c \in Callers |-> FALSE] /\ sink = [c \in Callers |-> Nobody]
    /\ pipe = [c \in Callers |-> <<>>] /\ child = [c \in Callers |-> "none"]
    /\ lines = [c \in Callers |-> 0]
    /\ forwarder = [c \in Callers |-> [Idle EXCEPT !.pc = "none"]]
    /\ call = [c \in Callers |-> "idle"] /\ stdinOf = [c \in Callers |-> Nobody]
    /\ chan = [c \in Callers |-> <<>>] /\ heard = {}
    /\ raced = FALSE /\ cut = {} /\ late = {}
    /\ troubles = 0

SpawnLongLived(c) == GetStdinTx(c) \/ ReplaceOutputSink(c) \/ Spawn(c) \/ Register(c)
Forward(p) == Receive(p) \/ Send(p) \/ ClearSink(p) \/ MarkDead(p)

PRNext ==
    \/ \E c \in Callers : \/ Check(c) \/ SpawnLongLived(c) \/ Write(c) \/ Forward(c)
                          \/ Read(c) \/ StreamEnds(c) \/ Close(c)
    \/ Reap

PRSpec == PRInit /\ [][PRNext]_prVars

\* builderd's tasks run, the reap task wakes, processes end and callers that
\* stay read what they are sent.
PRFairness ==
    /\ WF_prVars(Reap)
    /\ \A c \in Callers : /\ WF_prVars(SpawnLongLived(c)) /\ WF_prVars(Forward(c)) /\ WF_prVars(Write(c))
                          /\ WF_prVars(Read(c)) /\ WF_prVars(StreamEnds(c))

PRFairSpec == PRSpec /\ PRFairness

-----------------------------------------------------------------------------
(* Properties *)

Frames == {"line", "exit", "ack"}

\* Every variable holds a value of its kind.
PRTypeOK ==
    /\ entry \in Callers \cup {Nobody}
    /\ alive \in [Callers -> BOOLEAN] /\ sink \in [Callers -> Callers \cup {Nobody}]
    /\ child \in [Callers -> {"none", "running", "exited"}]
    /\ lines \in [Callers -> 0..MaxLines]
    /\ forwarder \in [Callers -> [pc : {"none", "recv", "send", "clear", "done"},
                                  tx : Callers \cup {Nobody}, frame : Frames \cup {NoFrame}]]
    /\ call \in [Callers -> {"idle", "stdin", "sink", "spawn", "register", "stream", "failed",
                             "ended", "closed"}]
    /\ stdinOf \in [Callers -> Callers \cup {Nobody}]
    /\ pipe \in [Callers -> Seq(Frames)] /\ chan \in [Callers -> Seq(Frames)]
    /\ \A c \in Callers : Len(pipe[c]) <= ChannelSize /\ Len(chan[c]) <= ChannelSize
    /\ raced \in BOOLEAN /\ heard \subseteq Callers /\ cut \subseteq Callers /\ late \subseteq Callers
    /\ troubles \in 0..MaxTroubles

\* Unless two requests race between the check and the registration, a key has
\* one process at a time and a running process is registered, so that the next
\* caller finds it.
OneProcess ==
    ~raced =>
        /\ \A p, q \in Callers : child[p] = "running" /\ child[q] = "running" => p = q
        /\ \A p \in Callers : child[p] = "running" => entry = p \/ call[p] = "register"

\* A caller attached to a process before the end of its output hears its exit
\* code, although callers come and go in between: its stream never ends
\* without one.
ExitHeard ==
    \A c \in Callers :
        Attached(c) # {} /\ Open(c) ~>
            \/ c \in heard
            \/ Attached(c) = {} \/ call[c] = "closed" \/ c \in cut \cup late

\* Every stream ends once its process has: no sender is kept by an entry of a
\* dead process.
StreamsEnd == \A c \in Callers : Open(c) ~> call[c] \in {"ended", "closed"}

\* "When a new caller reconnects, a fresh sender is swapped in" (registry.rs):
\* the failed send to a caller that has gone does not cut off the new one.
NewCallerKept == cut = {}

\* "stream ended without an exit code" (CompletedExec::collect) is an error: an
\* acknowledged caller is attached to a process that has yet to end.
AckedIsServed == late = {}

\* "This wires a new caller's output channel to the existing child process"
\* (replace_output_sink): a caller's stdin goes to the process whose output it
\* gets.
SameProcess == \A c \in Callers : Open(c) => Attached(c) \subseteq {stdinOf[c]}

\* "check registry for deduplication" (spawn_long_lived): at most one process
\* of a key runs.
Deduplicated == Cardinality({p \in Callers : child[p] = "running"}) <= 1
=============================================================================
