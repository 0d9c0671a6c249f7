------------------------ MODULE WorkerDaemonProofs ------------------------
(***************************************************************************)
(* Proofs about workerd, for any number of dispatches, of messages, of     *)
(* pauses and of failing calls, and for design and other workers.          *)
(***************************************************************************)
EXTENDS WorkerDaemon, SequenceTheorems, TLAPS

-----------------------------------------------------------------------------
(* The inductive invariant. *)

\* The agent waits in a hook exactly while workerd serves its idle report; it is
\* off until it is launched.  Having been seen, it has started.
AgentInv ==
    /\ idleRpc = "none" <=> agent.state # "hook"
    /\ agent.state = "off" <=> main \in {"bind", "launch"}
    /\ watch = "running" => agent.state \notin {"off", "booting"}
    /\ watch = "stopped" => agent.state = "gone" \/ faults > 0

\* What is left in the buffer is the skill of the dispatch it was loaded with;
\* what a handler is about to type is a clear.
BufferInv ==
    /\ buf.commands = <<>> \/ (loaded # 0 /\ buf.commands = <<Skill(loaded)>>)
    /\ \A d \in reported : d \in {0} \cup finished \cup overlapped \cup unheeded
    /\ \A i \in 1..Len(typing) : typing[i].kind = "clear"

\* A dispatch that met a ready worker and is undisturbed: it is one text on its
\* way to the agent, lost on that way, or the agent's work.
Alone == loaded # 0 /\ loaded \notin overlapped \cup unheeded /\ agent.state # "gone"
Nudges == (\A i \in 1..Len(deferred) : deferred[i].kind = "nudge")
          /\ (\A i \in 1..Len(session) : session[i].text.kind = "nudge")

Awaiting == agent.on = 0 /\ ~agent.job /\ ~buf.complete

\* No idle report will be served before the agent takes a text.
Quiet == agent.state = "prompt" \/ idleRpc = "returning"

Typing == /\ Awaiting /\ Quiet /\ buf.commands # <<>> /\ deferred = <<>>
          /\ typing = <<Clear(loaded)>> /\ session = <<>>
Clearing == /\ Awaiting /\ Quiet /\ buf.commands # <<>> /\ typing = <<>> /\ deferred = <<>>
            /\ \E b \in BOOLEAN : session = <<[text |-> Clear(loaded), atPrompt |-> b]>>
Cleared == /\ Awaiting /\ agent.state = "hook" /\ idleRpc = "called" /\ buf.commands # <<>> /\ deferred = <<>>
           /\ typing = <<>> /\ session = <<>> /\ agent.context = {}
Deferred == /\ Awaiting /\ Quiet /\ buf.commands = <<>> /\ deferred = <<Skill(loaded)>>
            /\ typing = <<>> /\ session = <<>> /\ agent.context = {}
Sent == /\ Awaiting /\ agent.state = "prompt" /\ buf.commands = <<>> /\ typing = <<>> /\ deferred = <<>>
        /\ session = <<[text |-> Skill(loaded), atPrompt |-> TRUE]>> /\ agent.context = {}
Lost == Awaiting /\ Quiet /\ typing = <<>> /\ deferred = <<>> /\ session = <<>>
Working == /\ agent.on = loaded \/ loaded \in finished
           /\ buf.commands = <<>> /\ typing = <<>> /\ Nudges
           /\ buf.complete => loaded \in finished

StageInv == Alone => Typing \/ Clearing \/ Cleared \/ Deferred \/ Sent \/ Lost \/ Working

\* Of the dispatches that met a ready worker, the agent knows at most the one it
\* works on or the one whose skill is on its way, if its clear was run; and one
\* skill at a time is on its way.
Pending(d) ==
    \/ \E i \in 1..Len(deferred) : deferred[i] = Skill(d)
    \/ \E i \in 1..Len(session) : session[i].text = Skill(d)
Known == agent.context \ overlapped

Behind == loaded # 0 /\ loaded \notin overlapped /\ buf.commands # <<>>

ContextInv ==
    /\ agent.on # 0 /\ agent.on \notin overlapped \cup unheeded => Known \subseteq {agent.on}
    /\ \A d \in Dispatch \ overlapped : Pending(d) =>
          /\ d \in unheeded \/ Known \subseteq {d}
          /\ \A e \in Dispatch \ overlapped : Pending(e) => e = d
    /\ Behind => \A d \in Dispatch \ overlapped : ~Pending(d)

IInv == TypeOK /\ AgentInv /\ BufferInv /\ StageInv /\ ContextInv

-----------------------------------------------------------------------------
(* Texts, and the records that hold them. *)

LEMMA LimitsTyped ==
    /\ MaxDispatches \in Nat /\ MaxRedrives \in Nat /\ MaxFaults \in Nat /\ MaxPauses \in Nat /\ MaxLoose \in Nat
    /\ Dispatch \subseteq 0..MaxDispatches /\ 0 \notin Dispatch
  BY LimitsAssumption DEF Dispatch

LEMMA TextTyped ==
    /\ \A d \in Dispatch : Skill(d) \in Text /\ Clear(d) \in Text
    /\ [kind |-> "nudge", d |-> 0] \in Text /\ [kind |-> "human", d |-> 0] \in Text
    /\ \A t \in Text : /\ t.kind \in {"clear", "skill", "nudge", "human"}
                       /\ t.kind \in {"clear", "skill"} => t.d \in Dispatch
  BY DEF Text, Skill, Clear

LEMMA TextFields ==
    /\ \A d : Skill(d).kind = "skill" /\ Skill(d).d = d /\ Clear(d).kind = "clear" /\ Clear(d).d = d
    /\ \A d, e : Skill(d) = Skill(e) => d = e
    /\ \A d, e : Clear(e) # Skill(d)
    /\ \A d : [kind |-> "nudge", d |-> 0] # Skill(d) /\ [kind |-> "human", d |-> 0] # Skill(d)
  BY DEF Skill, Clear

LEMMA SkillText ==
    ASSUME NEW t \in Text, t.kind = "skill"
    PROVE  t = Skill(t.d) /\ t.d \in Dispatch
  BY DEF Text, Skill

LEMMA TypedTyped ==
    /\ \A t \in Text : \A b \in BOOLEAN :
          /\ [text |-> t, atPrompt |-> b] \in Typed
          /\ [text |-> t, atPrompt |-> b].text = t /\ [text |-> t, atPrompt |-> b].atPrompt = b
    /\ \A x \in Typed : x.text \in Text /\ x.atPrompt \in BOOLEAN
  BY DEF Typed

LEMMA AppendTyped ==
    ASSUME NEW S, NEW s \in Seq(S), NEW x \in S, NEW r, r = Append(s, x)
    PROVE  r \in Seq(S) /\ \A i \in 1..Len(r) : r[i] = x \/ \E k \in 1..Len(s) : r[i] = s[k]
  <1>1. r \in Seq(S) /\ Len(r) = Len(s) + 1 /\ r[Len(s) + 1] = x /\ \A i \in 1..Len(s) : r[i] = s[i]
    BY AppendProperties
  <1>2. ASSUME NEW i \in 1..Len(r), i # Len(s) + 1 PROVE i \in 1..Len(s)
    BY <1>1, <1>2
  <1> QED
    BY <1>1, <1>2

LEMMA TailTyped ==
    ASSUME NEW S, NEW s \in Seq(S), s # <<>>, NEW r, r = Tail(s)
    PROVE  /\ r \in Seq(S) /\ \A i \in 1..Len(r) : \E k \in 1..Len(s) : r[i] = s[k]
           /\ 1 \in 1..Len(s) /\ Head(s) = s[1] /\ Head(s) \in S
  <1>1. r \in Seq(S) /\ Len(r) = Len(s) - 1 /\ \A i \in 1..Len(r) : r[i] = s[i + 1]
    BY HeadTailProperties
  <1>2. ASSUME NEW i \in 1..Len(r) PROVE r[i] = s[i + 1] /\ i + 1 \in 1..Len(s)
    BY <1>1, <1>2
  <1>3. 1 \in 1..Len(s) /\ Head(s) = s[1] /\ Head(s) \in S
    BY HeadTailProperties, EmptySeq
  <1> QED
    BY <1>1, <1>2, <1>3

LEMMA RemoveAtTyped ==
    ASSUME NEW S, NEW s \in Seq(S), NEW i \in 1..Len(s)
    PROVE  /\ RemoveAt(s, i) \in Seq(S) /\ Len(RemoveAt(s, i)) = Len(s) - 1
           /\ \A j \in 1..Len(RemoveAt(s, i)) : \E k \in 1..Len(s) : RemoveAt(s, i)[j] = s[k]
  <1> DEFINE a == SubSeq(s, 1, i - 1)
             b == SubSeq(s, i + 1, Len(s))
  <1>1. Len(s) \in Nat /\ i \in Int /\ i - 1 \in Int /\ i + 1 \in Int /\ \A k \in 1..Len(s) : s[k] \in S
    <2>1. Len(s) \in Nat /\ \A k \in 1..Len(s) : s[k] \in S
      OBVIOUS
    <2> QED
      BY <2>1
  <1>2. a \in Seq(S) /\ Len(a) = i - 1 /\ \A k \in 1..(i - 1) : a[k] = s[k]
    <2>1. \A k \in 1..(i - 1) : s[k] \in S
      BY <1>1
    <2>2. /\ a \in Seq(S) /\ Len(a) = IF 1 <= i - 1 THEN (i - 1) - 1 + 1 ELSE 0
          /\ \A k \in 1..((i - 1) - 1 + 1) : a[k] = s[1 + k - 1]
      BY <1>1, <2>1, SubSeqProperties
    <2> QED
      BY <1>1, <2>2
  <1>3. b \in Seq(S) /\ Len(b) = Len(s) - i /\ \A k \in 1..(Len(s) - i) : b[k] = s[i + k]
    <2>1. \A k \in (i + 1)..Len(s) : s[k] \in S
      BY <1>1
    <2>2. /\ b \in Seq(S) /\ Len(b) = IF i + 1 <= Len(s) THEN Len(s) - (i + 1) + 1 ELSE 0
          /\ \A k \in 1..(Len(s) - (i + 1) + 1) : b[k] = s[(i + 1) + k - 1]
      BY <1>1, <2>1, SubSeqProperties
    <2> QED
      BY <1>1, <2>2
  <1>4. /\ a \o b \in Seq(S) /\ Len(a \o b) = Len(a) + Len(b)
        /\ \A j \in 1..(Len(a) + Len(b)) : (a \o b)[j] = IF j <= Len(a) THEN a[j] ELSE b[j - Len(a)]
    BY <1>2, <1>3, ConcatProperties
  <1>5. RemoveAt(s, i) = a \o b
    BY DEF RemoveAt
  <1> HIDE DEF a, b
  <1>6. ASSUME NEW j \in 1..(Len(s) - 1) PROVE \E k \in 1..Len(s) : (a \o b)[j] = s[k]
    <2>1. CASE j <= i - 1
      <3>1. (a \o b)[j] = s[j] /\ j \in 1..Len(s)
        BY <1>1, <1>2, <1>3, <1>4, <1>6, <2>1
      <3> QED
        BY <3>1
    <2>2. CASE ~(j <= i - 1)
      <3>1. (a \o b)[j] = b[j - Len(a)] /\ j - Len(a) \in 1..(Len(s) - i)
        BY <1>1, <1>2, <1>3, <1>4, <1>6, <2>2
      <3>2. (a \o b)[j] = s[i + (j - Len(a))] /\ i + (j - Len(a)) \in 1..Len(s)
        BY <1>1, <1>2, <1>3, <1>6, <3>1
      <3> QED
        BY <3>2
    <2> QED
      BY <2>1, <2>2
  <1>7. Len(a \o b) = Len(s) - 1
    BY <1>1, <1>2, <1>3, <1>4
  <1>8. \A j \in 1..Len(a \o b) : \E k \in 1..Len(s) : (a \o b)[j] = s[k]
    BY <1>6, <1>7
  <1> QED
    BY <1>4, <1>5, <1>7, <1>8, Zenon

States == {"off", "booting", "hook", "prompt", "busy", "gone"}
Servers == [expects : BOOLEAN, stalled : BOOLEAN]

LEMMA AgentFields ==
    ASSUME NEW a \in Agents
    PROVE  a.state \in States /\ a.on \in 0..MaxDispatches /\ a.context \subseteq Dispatch /\ a.job \in BOOLEAN
  BY DEF Agents, States

LEMMA AgentMoved ==
    \A a \in Agents : \A s \in States : \A b : b = [a EXCEPT !.state = s] =>
        b \in Agents /\ b.state = s /\ b.on = a.on /\ b.context = a.context /\ b.job = a.job
  BY DEF Agents, States

LEMMA BufferFields ==
    ASSUME NEW b \in Buffers
    PROVE  b.commands \in Seq(Text) /\ b.complete \in BOOLEAN /\ b.step \in Steps \cup {""} /\ b.suppressed \in BOOLEAN
  BY DEF Buffers

LEMMA ServerFields ==
    /\ \A x \in Servers : \A b \in BOOLEAN :
          [x EXCEPT !.expects = b] \in Servers /\ [x EXCEPT !.stalled = b] \in Servers
    /\ \A x \in Servers : \A b, c \in BOOLEAN : [x EXCEPT !.expects = b, !.stalled = c] \in Servers
  BY DEF Servers

-----------------------------------------------------------------------------
(* What leaves parts of the invariant alone. *)

LEMMA ContextKept ==
    ASSUME IInv, overlapped \subseteq overlapped', unheeded \subseteq unheeded',
           agent'.context \subseteq agent.context, agent'.on \in {agent.on, 0},
           \A d \in Dispatch \ overlapped' : Pending(d)' => Pending(d),
           Behind' => Behind
    PROVE  ContextInv'
  <1>1. Known' \subseteq Known
    BY DEF Known
  <1>2. agent'.on # 0 /\ agent'.on \notin overlapped' \cup unheeded' => Known' \subseteq {agent'.on}
    BY <1>1 DEF IInv, ContextInv
  <1>3. ASSUME NEW d \in Dispatch \ overlapped', Pending(d)'
        PROVE  /\ d \in unheeded' \/ Known' \subseteq {d}
               /\ \A e \in Dispatch \ overlapped' : Pending(e)' => e = d
    BY <1>1, <1>3 DEF IInv, ContextInv
  <1>4. Behind' => \A d \in Dispatch \ overlapped' : ~Pending(d)'
    BY DEF IInv, ContextInv
  <1> QED
    BY <1>2, <1>3, <1>4 DEF ContextInv

\* The part of it that the buffer and its dispatch decide.
LEMMA BehindKept ==
    ASSUME loaded' = loaded, overlapped \subseteq overlapped', buf'.commands = buf.commands
    PROVE  Behind' => Behind
  BY DEF Behind

LEMMA StageSame ==
    ASSUME IInv, UNCHANGED <<loaded, session, typing, deferred, idleRpc, agent>>, overlapped \subseteq overlapped',
           unheeded \subseteq unheeded', finished \subseteq finished', buf'.commands = buf.commands,
           buf'.complete = buf.complete
    PROVE  StageInv' /\ ContextInv'
  <1>1. Alone' => Alone
    BY DEF Alone
  <1>2. (Typing => Typing') /\ (Lost => Lost')
    BY DEF Typing, Lost, Awaiting, Quiet
  <1>3. (Cleared => Cleared') /\ (Deferred => Deferred') /\ (Sent => Sent')
    BY DEF Cleared, Deferred, Sent, Awaiting, Quiet
  <1>4. Working => Working'
    BY DEF Working, Nudges
  <1>5. Clearing => Clearing'
    BY DEF Clearing, Awaiting, Quiet
  <1>6. StageInv'
    BY <1>1, <1>2, <1>3, <1>4, <1>5 DEF IInv, StageInv
  <1>7. \A d : Pending(d)' => Pending(d)
    BY DEF Pending
  <1> QED
    BY <1>6, <1>7, ContextKept, BehindKept

\* The agent works on, and only nudges are added to what is typed.
LEMMA WorkingKept ==
    ASSUME IInv, Alone' => Alone /\ Working,
           loaded' = loaded, finished \subseteq finished', typing' = typing,
           agent'.on = agent.on \/ agent.on \in finished,
           buf'.commands = buf.commands, buf'.complete = buf.complete, Nudges => Nudges'
    PROVE  StageInv'
  <1>1. Alone' => Working'
    BY DEF Working
  <1> QED
    BY <1>1 DEF StageInv

\* Where the agent is when a dispatch is undisturbed.
LEMMA StageOf ==
    ASSUME IInv, Alone
    PROVE  /\ agent.state \notin {"prompt", "hook"} => Working
           /\ agent.job => Working
           /\ idleRpc = "asking" => Working
           /\ idleRpc = "called" /\ buf.commands = <<>> => Working
           /\ idleRpc = "called" /\ buf.commands # <<>> => Cleared
           /\ idleRpc = "returning" => Typing \/ Clearing \/ Deferred \/ Lost \/ Working
           /\ typing # <<>> => Typing
           /\ deferred # <<>> => Deferred \/ Working
           /\ session # <<>> => Clearing \/ Sent \/ Working
  <1>1. Typing \/ Clearing \/ Cleared \/ Deferred \/ Sent \/ Lost \/ Working
    BY DEF IInv, StageInv
  <1>2. Quiet => agent.state \in {"prompt", "hook"} /\ idleRpc \in {"none", "returning"}
    BY DEF Quiet, IInv, AgentInv
  <1>3. Clearing => Quiet /\ ~agent.job /\ deferred = <<>> /\ typing = <<>>
    BY DEF Clearing, Awaiting
  <1>4. Cleared => agent.state = "hook" /\ idleRpc = "called" /\ ~agent.job /\ deferred = <<>> /\ session = <<>>
                   /\ buf.commands # <<>> /\ typing = <<>>
    BY DEF Cleared, Awaiting
  <1>5. Deferred => Quiet /\ ~agent.job /\ session = <<>> /\ typing = <<>>
    BY DEF Deferred, Awaiting
  <1>6. Sent => agent.state = "prompt" /\ idleRpc = "none" /\ ~agent.job /\ deferred = <<>> /\ typing = <<>>
    BY DEF Sent, Awaiting, IInv, AgentInv
  <1>7. Typing => Quiet /\ ~agent.job /\ deferred = <<>> /\ session = <<>>
    BY DEF Typing, Awaiting
  <1>8. Lost => Quiet /\ ~agent.job /\ deferred = <<>> /\ session = <<>> /\ typing = <<>>
    BY DEF Lost, Awaiting
  <1>9. Working => buf.commands = <<>> /\ typing = <<>>
    BY DEF Working
  <1> QED
    BY <1>1, <1>2, <1>3, <1>4, <1>5, <1>6, <1>7, <1>8, <1>9

LEMMA InvInit == Init => IInv
  <1> SUFFICES ASSUME Init PROVE IInv
    OBVIOUS
  <1>1. agent \in Agents /\ agent.state = "off" /\ agent.on = 0 /\ agent.context = {}
    BY LimitsTyped DEF Init, Agents
  <1>2. buf \in Buffers /\ buf.commands = <<>>
    <2>1. <<>> \in Seq(Text)
      OBVIOUS
    <2> QED
      BY <2>1 DEF Init, NoBuffer, Buffers
  <1>3. typing \in Seq(Text) /\ deferred \in Seq(Text) /\ session \in Seq(Typed) /\ reports \in Seq(0..MaxDispatches)
    <2>1. <<>> \in Seq(Text) /\ <<>> \in Seq(Typed) /\ <<>> \in Seq(0..MaxDispatches)
      OBVIOUS
    <2> QED
      BY <2>1 DEF Init
  <1>4. server \in Servers
    BY DEF Init, Servers
  <1>5. TypeOK
    BY <1>1, <1>2, <1>3, <1>4, LimitsTyped DEF Init, TypeOK, Servers
  <1>6. AgentInv
    BY <1>1 DEF Init, AgentInv
  <1>7. BufferInv
    <2>1. typing = <<>> /\ Len(<<>>) = 0
      BY DEF Init
    <2> QED
      BY <1>2, <2>1 DEF Init, BufferInv
  <1>8. StageInv
    BY DEF Init, StageInv, Alone
  <1>9. ContextInv
    <2>1. Known = {}
      BY <1>1 DEF Known
    <2>2. \A d : ~Pending(d)
      <3>1. session = <<>> /\ deferred = <<>> /\ Len(<<>>) = 0
        BY DEF Init
      <3> QED
        BY <3>1 DEF Pending
    <2> QED
      BY <1>1, <2>1, <2>2 DEF ContextInv
  <1> QED
    BY <1>5, <1>6, <1>7, <1>8, <1>9 DEF IInv

\* The exit watcher, and the steps that change neither agent nor texts.
LEMMA WatchInv ==
    ASSUME IInv, Watch \/ ProbeFailed
    PROVE  IInv'
  <1>1. UNCHANGED <<main, buf, idleRpc, typing, deferred, session, agent, reports, idles, server, observed, dispatches,
                    redrives, pauses, loose>>
    BY DEF Watch, ProbeFailed, WatchFrame
  <1>2. faults' \in 0..MaxFaults /\ faults' >= faults /\ (ProbeFailed => faults' > 0)
    BY LimitsTyped DEF Watch, ProbeFailed, Fault, IInv, TypeOK
  <1>3. watch' \in {"waiting", "running", "stopped"}
    BY DEF Watch, ProbeFailed, Advance, IInv, TypeOK
  <1>4. TypeOK'
    BY <1>1, <1>2, <1>3 DEF IInv, TypeOK, observed
  <1>5. AgentInv'
    <2>1. CASE Watch
      <3>1. watch # "stopped" /\ watch \in {"waiting", "running"}
        BY <2>1 DEF Watch, Watching, IInv, TypeOK
      <3>2. agent \in Agents /\ agent.state \in States
        BY AgentFields DEF IInv, TypeOK
      <3>3. watch' = "running" => agent.state \notin {"off", "booting"}
        <4>1. CASE watch = "waiting"
          BY <2>1, <3>2, <4>1 DEF Watch, Advance, Foreground
        <4>2. CASE watch = "running"
          BY <2>1, <4>2 DEF IInv, AgentInv
        <4> QED
          BY <3>1, <4>1, <4>2
      <3>4. watch' = "stopped" => agent.state = "gone"
        <4>1. CASE watch = "waiting"
          BY <2>1, <4>1 DEF Watch, Advance
        <4>2. CASE watch = "running"
          BY <2>1, <3>2, <4>2 DEF Watch, Advance, Foreground, IInv, AgentInv
        <4> QED
          BY <3>1, <4>1, <4>2
      <3> QED
        BY <1>1, <3>3, <3>4 DEF IInv, AgentInv
    <2>2. CASE ProbeFailed
      BY <1>1, <1>2, <2>2 DEF ProbeFailed, IInv, AgentInv
    <2> QED
      BY <2>1, <2>2
  <1>6. BufferInv'
    BY <1>1 DEF IInv, BufferInv, observed
  <1>7. StageInv' /\ ContextInv'
    BY <1>1, StageSame DEF observed
  <1> QED
    BY <1>4, <1>5, <1>6, <1>7 DEF IInv

LEMMA PlainInv ==
    ASSUME IInv, PauseEnds \/ RequestHuman \/ ReportArrives \/ IdleArrives
    PROVE  IInv'
  <1>1. UNCHANGED <<main, idleRpc, typing, deferred, session, agent, watch, loaded, overlapped, unheeded, finished,
                    reported, dispatches, redrives, pauses, loose>>
    BY DEF PauseEnds, RequestHuman, ReportArrives, IdleArrives, counters, observed
  <1>2. buf' \in Buffers /\ buf'.commands = buf.commands /\ buf'.complete = buf.complete
    <2>1. buf \in Buffers
      BY DEF IInv, TypeOK
    <2>2. buf' = buf \/ buf' = [buf EXCEPT !.suppressed = FALSE]
      BY DEF PauseEnds, RequestHuman, ReportArrives, IdleArrives
    <2> QED
      BY <2>1, <2>2 DEF Buffers
  <1>3. server' \in Servers
    <2>1. server \in Servers
      BY DEF IInv, TypeOK, Servers
    <2>2. \/ server' = server \/ server' = [server EXCEPT !.stalled = TRUE] \/ server' = [server EXCEPT !.expects = TRUE]
          \/ server' = [server EXCEPT !.expects = TRUE, !.stalled = FALSE]
      BY DEF PauseEnds, RequestHuman, ReportArrives, IdleArrives
    <2> QED
      BY <2>1, <2>2, ServerFields, Zenon
  <1>4. faults' \in 0..MaxFaults /\ faults' >= faults
    <2>1. faults \in 0..MaxFaults /\ MaxFaults \in Nat
      BY LimitsTyped DEF IInv, TypeOK
    <2>2. faults' = faults \/ (faults < MaxFaults /\ faults' = faults + 1)
      BY DEF PauseEnds, RequestHuman, ReportArrives, IdleArrives, counters, Fault
    <2> QED
      BY <2>1, <2>2
  <1>5. reports' \in Seq(0..MaxDispatches) /\ idles' \in Nat
    <2>1. reports \in Seq(0..MaxDispatches) /\ idles \in Nat
      BY DEF IInv, TypeOK
    <2>2. reports' = reports \/ \E i \in 1..Len(reports) : reports' = RemoveAt(reports, i)
      BY <2>1 DEF PauseEnds, RequestHuman, ReportArrives, IdleArrives
    <2>3. idles' = idles \/ (idles > 0 /\ idles' = idles - 1)
      BY DEF PauseEnds, RequestHuman, ReportArrives, IdleArrives
    <2>4. reports' \in Seq(0..MaxDispatches)
      BY <2>1, <2>2, RemoveAtTyped
    <2> QED
      BY <2>1, <2>3, <2>4
  <1>6. asked' \subseteq Dispatch
    <2>1. asked \subseteq Dispatch /\ agent \in Agents
      BY DEF IInv, TypeOK
    <2>2. agent.on # 0 => agent.on \in Dispatch
      BY <2>1, AgentFields, LimitsTyped DEF Dispatch
    <2>3. asked' = asked \/ (agent.on # 0 /\ asked' = asked \cup {agent.on})
      BY DEF PauseEnds, RequestHuman, ReportArrives, IdleArrives, observed
    <2> QED
      BY <2>1, <2>2, <2>3
  <1>7. TypeOK'
    BY <1>1, <1>2, <1>3, <1>4, <1>5, <1>6 DEF IInv, TypeOK, Servers
  <1>8. AgentInv'
    <2>1. faults \in Nat
      BY DEF IInv, TypeOK
    <2> QED
      BY <1>1, <1>4, <2>1 DEF IInv, AgentInv
  <1>9. BufferInv'
    BY <1>1, <1>2 DEF IInv, BufferInv
  <1>10. StageInv' /\ ContextInv'
    BY <1>1, <1>2, StageSame
  <1> QED
    BY <1>7, <1>8, <1>9, <1>10 DEF IInv

\* The agent's state moves and nothing that was typed or buffered changes.
LEMMA StateInv ==
    ASSUME IInv, NEW s \in States,
           agent'.state = s, agent' \in Agents, agent'.on = agent.on, agent'.context = agent.context,
           UNCHANGED <<buf, typing, deferred, session, reports, observed, dispatches, redrives, pauses, loose>>,
           main' \in {"bind", "launch", "serve", "serving"}, idleRpc' \in {"none", "called", "asking", "returning"},
           idles' \in Nat,
           watch' = watch, server' \in Servers, faults' \in 0..MaxFaults, AgentInv',
           Alone' => Alone /\ Working
    PROVE  IInv'
  <1>1. TypeOK'
    BY DEF IInv, TypeOK, Servers, observed
  <1>2. BufferInv'
    BY DEF IInv, BufferInv, observed
  <1>3. Nudges => Nudges'
    BY DEF Nudges
  <1>4. StageInv'
    BY <1>3, WorkingKept DEF observed
  <1>5. \A d : Pending(d)' => Pending(d)
    BY DEF Pending
  <1>6. ContextInv'
    BY <1>5, ContextKept, BehindKept DEF observed
  <1> QED
    BY <1>1, <1>2, <1>4, <1>6 DEF IInv

LEMMA StartInv ==
    ASSUME IInv, Start \/ AgentBoots
    PROVE  IInv'
  <1>1. agent \in Agents /\ agent.state \in States /\ server \in Servers /\ faults \in 0..MaxFaults
    BY AgentFields DEF IInv, TypeOK, Servers
  <1>2. UNCHANGED <<buf, typing, deferred, session, reports, idles, server, watch, observed, counters>>
    BY DEF Start, AgentBoots, AgentFrame
  <1>3. UNCHANGED <<faults, dispatches, redrives, pauses, loose>>
    BY <1>2 DEF counters
  <1>4. main \in {"bind", "launch", "serve", "serving"} /\ idleRpc \in {"none", "called", "asking", "returning"}
        /\ idles' \in Nat
    BY <1>2 DEF IInv, TypeOK
  <1>5. CASE Start /\ main # "launch"
    <2>1. agent' = agent /\ main' \in {"launch", "serve", "serving"} /\ idleRpc' = idleRpc
          /\ (main' = "launch" <=> main = "bind")
      BY <1>5 DEF Start
    <2>2. AgentInv'
      <3>1. main' \in {"bind", "launch"} <=> main \in {"bind", "launch"}
        BY <1>4, <1>5, <2>1
      <3>2. watch' = watch /\ faults' = faults
        BY <1>2, <1>3
      <3> QED
        BY <2>1, <3>1, <3>2 DEF IInv, AgentInv
    <2>3. TypeOK'
      BY <1>2, <1>3, <2>1 DEF IInv, TypeOK, observed
    <2>4. BufferInv'
      BY <1>2, <2>1 DEF IInv, BufferInv, observed
    <2>5. StageInv' /\ ContextInv'
      BY <1>2, <2>1, StageSame DEF observed
    <2> QED
      BY <2>2, <2>3, <2>4, <2>5 DEF IInv
  <1>6. CASE Start /\ main = "launch"
    <2>1. agent' = [agent EXCEPT !.state = "booting"] /\ main' = "serve" /\ idleRpc' = idleRpc
      BY <1>6 DEF Start
    <2>2. agent.state = "off"
      BY <1>6 DEF IInv, AgentInv
    <2>3. /\ agent' \in Agents /\ agent'.state = "booting" /\ agent'.on = agent.on
          /\ agent'.context = agent.context /\ agent'.job = agent.job
      <3>1. "booting" \in States
        BY DEF States
      <3> QED
        BY <1>1, <2>1, <3>1, AgentMoved, ZenonT(40)
    <2>4. AgentInv'
      BY <1>2, <1>3, <2>1, <2>2, <2>3 DEF IInv, AgentInv
    <2>5. Alone' => Alone /\ Working
      BY <1>2, <2>2, StageOf DEF Alone, observed
    <2> QED
      BY <1>1, <1>2, <1>3, <1>4, <2>1, <2>3, <2>4, <2>5, StateInv DEF States
  <1>7. CASE AgentBoots
    <2>1. main' = main /\ agent.state = "booting"
      BY <1>7 DEF AgentBoots, AgentFrame
    <2>2. PICK s \in {"hook", "prompt"} :
              /\ agent' = [agent EXCEPT !.state = s] /\ idleRpc' \in {"none", "called"}
              /\ idleRpc' = "none" <=> s = "prompt"
      BY <1>7, Zenon DEF AgentBoots, Hook
    <2>3. /\ agent' \in Agents /\ agent'.state = s /\ agent'.on = agent.on
          /\ agent'.context = agent.context /\ agent'.job = agent.job /\ s \in States
      <3>1. s \in States
        BY DEF States
      <3> QED
        BY <1>1, <2>2, <3>1, AgentMoved, Zenon
    <2>4. AgentInv'
      BY <1>2, <1>3, <2>1, <2>2, <2>3 DEF IInv, AgentInv
    <2>5. Alone' => Alone /\ Working
      BY <1>2, <2>1, StageOf DEF Alone, observed
    <2> QED
      BY <1>1, <1>2, <1>3, <1>4, <2>1, <2>2, <2>3, <2>4, <2>5, StateInv
  <1> QED
    BY <1>5, <1>6, <1>7

\* Idle reports that type nothing.
LEMMA IdleInv ==
    ASSUME IInv, IdleAsks \/ IdleForwards
    PROVE  IInv'
  <1>1. agent \in Agents /\ agent.state \in States /\ idles \in Nat
    BY AgentFields DEF IInv, TypeOK
  <1>2. /\ UNCHANGED <<main, buf, typing, deferred, session, agent, reports, server, watch, observed, counters>>
        /\ idleRpc = "called" /\ buf.commands = <<>> /\ idleRpc' \in {"asking", "returning"}
        /\ idles' \in Nat
    BY <1>1 DEF IdleAsks, IdleForwards, IdleFrame, Reply, Drained, observed
  <1>3. agent.state = "hook"
    BY <1>2 DEF IInv, AgentInv
  <1>4. UNCHANGED <<faults, dispatches, redrives, pauses, loose>>
    BY <1>2 DEF counters
  <1>5. AgentInv'
    BY <1>2, <1>3, <1>4 DEF IInv, AgentInv
  <1>6. Alone' => Alone /\ Working
    BY <1>2, StageOf DEF Alone, observed
  <1>7. main' \in {"bind", "launch", "serve", "serving"} /\ server' \in Servers /\ faults' \in 0..MaxFaults
    BY <1>2, <1>4 DEF IInv, TypeOK, Servers
  <1> QED
    BY <1>1, <1>2, <1>4, <1>5, <1>6, <1>7, StateInv

\* The hook returns: what was on its way still is.
LEMMA HookReturnsInv ==
    ASSUME IInv, HookReturns
    PROVE  IInv'
  <1>1. /\ UNCHANGED <<main, buf, typing, deferred, session, reports, idles, server, watch, observed, counters>>
        /\ idleRpc = "returning" /\ idleRpc' = "none" /\ agent' = [agent EXCEPT !.state = "prompt"]
    BY DEF HookReturns
  <1>2. agent \in Agents /\ agent.state = "hook"
    BY <1>1 DEF IInv, TypeOK, AgentInv
  <1>3. /\ agent' \in Agents /\ agent'.state = "prompt" /\ agent'.on = agent.on
        /\ agent'.context = agent.context /\ agent'.job = agent.job
    <2>1. "prompt" \in States
      BY DEF States
    <2> QED
      BY <1>1, <1>2, <2>1, AgentMoved, ZenonT(40)
  <1>4. TypeOK'
    BY <1>1, <1>3 DEF IInv, TypeOK, observed, counters
  <1>5. AgentInv'
    BY <1>1, <1>2, <1>3 DEF IInv, AgentInv, counters
  <1>6. BufferInv'
    BY <1>1 DEF IInv, BufferInv, observed
  <1>7. StageInv'
    <2> SUFFICES ASSUME Alone' PROVE Typing' \/ Clearing' \/ Deferred' \/ Lost' \/ Working'
      BY DEF StageInv
    <2>1. Alone
      BY <1>1, <1>2 DEF Alone, observed
    <2>2. Typing \/ Clearing \/ Deferred \/ Lost \/ Working
      BY <1>1, <2>1, StageOf
    <2>3. Quiet' /\ (Awaiting => Awaiting') /\ loaded' = loaded /\ finished' = finished
      BY <1>1, <1>3 DEF Quiet, Awaiting, observed
    <2>4. (Typing => Typing') /\ (Clearing => Clearing')
      BY <1>1, <2>3 DEF Typing, Clearing
    <2>5. (Deferred => Deferred') /\ (Lost => Lost')
      BY <1>1, <1>3, <2>3 DEF Deferred, Lost
    <2>6. Working => Working'
      BY <1>1, <1>3, <2>3 DEF Working, Nudges
    <2> QED
      BY <2>2, <2>4, <2>5, <2>6
  <1>8. \A d : Pending(d)' => Pending(d)
    BY <1>1 DEF Pending
  <1>9. ContextInv'
    BY <1>1, <1>3, <1>8, ContextKept, BehindKept DEF observed
  <1> QED
    BY <1>4, <1>5, <1>6, <1>7, <1>9 DEF IInv

-----------------------------------------------------------------------------
(* What is typed and what is deferred. *)

\* Each text now typed or deferred is one of before or the given one.
From(x) ==
    /\ \A i \in 1..Len(deferred') : deferred'[i] = x \/ \E k \in 1..Len(deferred) : deferred'[i] = deferred[k]
    /\ \A i \in 1..Len(session') : \/ session'[i].text = x
                                   \/ \E k \in 1..Len(session) : session'[i] = session[k]
                                   \/ \E k \in 1..Len(deferred) : session'[i].text = deferred[k]

LEMMA FromPending ==
    ASSUME NEW x, From(x), NEW d, x # Skill(d), Pending(d)'
    PROVE  Pending(d)
  <1>1. CASE \E i \in 1..Len(deferred') : deferred'[i] = Skill(d)
    BY <1>1 DEF From, Pending
  <1>2. CASE \E i \in 1..Len(session') : session'[i].text = Skill(d)
    <2>1. PICK i \in 1..Len(session') : session'[i].text = Skill(d)
      BY <1>2
    <2>2. \/ \E k \in 1..Len(session) : session'[i] = session[k]
          \/ \E k \in 1..Len(deferred) : session'[i].text = deferred[k]
      BY <2>1 DEF From
    <2> QED
      BY <2>1, <2>2 DEF Pending
  <1> QED
    BY <1>1, <1>2 DEF Pending

LEMMA FromNudges ==
    ASSUME NEW x, From(x), x.kind = "nudge", Nudges
    PROVE  Nudges'
  <1>1. \A i \in 1..Len(deferred') : deferred'[i].kind = "nudge"
    BY DEF From, Nudges
  <1>2. \A i \in 1..Len(session') : session'[i].text.kind = "nudge"
    BY DEF From, Nudges
  <1> QED
    BY <1>1, <1>2 DEF Nudges

LEMMA SendFrom ==
    ASSUME IInv, NEW x \in Text, SendKeys(x), deferred' = deferred
    PROVE  session' \in Seq(Typed) /\ From(x)
  <1> DEFINE y == [text |-> x, atPrompt |-> AtPrompt]
  <1>1. y \in Typed /\ y.text = x
    BY TypedTyped DEF AtPrompt
  <1>2. session \in Seq(Typed) /\ session' = Append(session, y)
    BY DEF IInv, TypeOK, SendKeys
  <1> HIDE DEF y
  <1>3. /\ session' \in Seq(Typed)
        /\ \A i \in 1..Len(session') : session'[i] = y \/ \E k \in 1..Len(session) : session'[i] = session[k]
    BY <1>1, <1>2, AppendTyped
  <1> QED
    BY <1>1, <1>3 DEF From

LEMMA DeferFrom ==
    ASSUME IInv, NEW x \in Text, Defer(x), session' = session
    PROVE  deferred' \in Seq(Text) /\ From(x)
  <1>1. deferred \in Seq(Text) /\ deferred' = Append(deferred, x) /\ session' = session
    BY DEF IInv, TypeOK, Defer
  <1>2. /\ deferred' \in Seq(Text)
        /\ \A i \in 1..Len(deferred') : deferred'[i] = x \/ \E k \in 1..Len(deferred) : deferred'[i] = deferred[k]
    BY <1>1, AppendTyped
  <1> QED
    BY <1>1, <1>2 DEF From

\* A message of a human disturbs the dispatch it meets.
LEMMA SendMessageInv ==
    ASSUME IInv, SendMessage
    PROVE  IInv'
  <1> DEFINE x == [kind |-> "human", d |-> 0]
  <1>1. /\ UNCHANGED <<main, buf, idleRpc, typing, deferred, agent, reports, idles, server, watch, loaded, unheeded,
                       asked, finished, reported, dispatches, redrives, faults, pauses>>
        /\ SendKeys(x) /\ loose' = loose + 1 /\ loose < MaxLoose
        /\ overlapped' = IF loaded = 0 THEN overlapped ELSE overlapped \cup {loaded}
    BY DEF SendMessage
  <1>2. x \in Text /\ \A d : x # Skill(d)
    BY TextTyped, TextFields
  <1> HIDE DEF x
  <1>3. session' \in Seq(Typed) /\ From(x)
    BY <1>1, <1>2, SendFrom
  <1>4. overlapped \subseteq overlapped' /\ (loaded = 0 \/ loaded \in overlapped') /\ overlapped' \subseteq 1..dispatches
    BY <1>1 DEF IInv, TypeOK
  <1>5. loose' \in 0..MaxLoose
    BY <1>1, LimitsTyped DEF IInv, TypeOK
  <1>6. TypeOK'
    BY <1>1, <1>3, <1>4, <1>5 DEF IInv, TypeOK
  <1>7. AgentInv'
    BY <1>1 DEF IInv, AgentInv
  <1>8. BufferInv'
    BY <1>1, <1>4 DEF IInv, BufferInv
  <1>9. StageInv'
    BY <1>1, <1>4 DEF StageInv, Alone
  <1>10. \A d : Pending(d)' => Pending(d)
    BY <1>2, <1>3, FromPending
  <1>11. ContextInv'
    BY <1>1, <1>4, <1>10, ContextKept, BehindKept
  <1> QED
    BY <1>6, <1>7, <1>8, <1>9, <1>11 DEF IInv

LEMMA LoadedFields ==
    ASSUME NEW step \in Steps, NEW d \in Dispatch
    PROVE  /\ Loaded(step, d) \in Buffers /\ Loaded(step, d).commands = <<Skill(d)>>
           /\ Loaded(step, d).complete = FALSE
           /\ Head(DispatchCommands(d)) = Clear(d)
  <1>1. Skill(d) \in Text /\ Clear(d) \in Text
    BY TextTyped
  <1>2. Tail(<<Clear(d), Skill(d)>>) = <<Skill(d)>> /\ Head(<<Clear(d), Skill(d)>>) = Clear(d)
    OBVIOUS
  <1>3. <<Skill(d)>> \in Seq(Text)
    BY <1>1
  <1>4. PICK c : c = <<Skill(d)>>
    OBVIOUS
  <1>5. Tail(DispatchCommands(d)) = c /\ c \in Seq(Text)
    BY <1>2, <1>3, <1>4, Zenon DEF DispatchCommands
  <1>6. Head(DispatchCommands(d)) = Clear(d)
    BY <1>2 DEF DispatchCommands
  <1>7. Loaded(step, d) = [commands |-> c, complete |-> FALSE, step |-> step, suppressed |-> FALSE]
    BY <1>5, Zenon DEF Loaded
  <1>8. Loaded(step, d) \in Buffers /\ Loaded(step, d).commands = c /\ Loaded(step, d).complete = FALSE
    <2>1. PICK S : /\ step \in S
                   /\ Buffers = [commands : Seq(Text), complete : BOOLEAN, step : S, suppressed : BOOLEAN]
      BY Zenon DEF Buffers
    <2> QED
      BY <1>5, <1>7, <2>1
  <1> QED
    BY <1>4, <1>6, <1>8, Zenon

\* A dispatch meets a ready worker, or overlaps what the worker has.
LEMMA LoadInv ==
    ASSUME IInv, NEW step \in Steps, Load(step)
    PROVE  IInv'
  <1> DEFINE D == dispatches + 1
             x == Clear(D)
  <1>1. /\ UNCHANGED <<main, idleRpc, deferred, session, agent, reports, idles, watch, unheeded, asked, finished,
                       reported, faults, pauses, loose>>
        /\ dispatches' = D /\ loaded' = D /\ dispatches < MaxDispatches /\ buf' = Loaded(step, D)
        /\ typing' = Append(typing, Head(DispatchCommands(D)))
        /\ server' = [server EXCEPT !.expects = FALSE, !.stalled = FALSE]
    BY DEF Load
  <1>2. \/ Ready /\ redrives' = redrives /\ overlapped' = overlapped
        \/ redrives < MaxRedrives /\ redrives' = redrives + 1 /\ overlapped' = overlapped \cup {D}
    BY DEF Load
  <1>3. D \in Dispatch /\ D \in 1..MaxDispatches /\ dispatches \in Nat /\ D \notin overlapped /\ D # 0
    BY <1>1, LimitsTyped DEF IInv, TypeOK, Dispatch
  <1>4. buf' \in Buffers /\ buf'.commands = <<Skill(D)>> /\ buf'.complete = FALSE /\ typing' = Append(typing, x)
    <2> HIDE DEF D
    <2> QED
      BY <1>1, <1>3, LoadedFields, Zenon
  <1>5. x \in Text /\ x.kind = "clear"
    BY <1>3, TextTyped, TextFields
  <1> HIDE DEF x
  <1>6. typing' \in Seq(Text) /\ \A i \in 1..Len(typing') : typing'[i].kind = "clear"
    <2>1. typing \in Seq(Text) /\ \A i \in 1..Len(typing) : typing[i].kind = "clear"
      BY DEF IInv, TypeOK, BufferInv
    <2>2. /\ typing' \in Seq(Text)
          /\ \A i \in 1..Len(typing') : typing'[i] = x \/ \E k \in 1..Len(typing) : typing'[i] = typing[k]
      BY <1>4, <1>5, <2>1, AppendTyped
    <2> QED
      BY <1>5, <2>1, <2>2
  <1>7. server' \in Servers
    <2>1. server \in Servers
      BY DEF IInv, TypeOK, Servers
    <2> QED
      BY <1>1, <2>1, ServerFields, Zenon
  <1>8. overlapped \subseteq overlapped' /\ overlapped' \subseteq 1..D /\ redrives' \in 0..MaxRedrives
    <2>1. overlapped \subseteq 1..dispatches /\ redrives \in 0..MaxRedrives
      BY Zenon DEF IInv, TypeOK
    <2>2. CASE overlapped' = overlapped /\ redrives' = redrives
      BY <1>3, <2>1, <2>2
    <2>3. CASE redrives < MaxRedrives /\ redrives' = redrives + 1 /\ overlapped' = overlapped \cup {D}
      <3>1. redrives' \in 0..MaxRedrives
        BY <2>1, <2>3, LimitsTyped
      <3>2. \A d \in overlapped : d \in 1..D
        BY <1>3, <2>1
      <3>3. D \in 1..D
        BY <1>3
      <3> QED
        BY <2>3, <3>1, <3>2, <3>3, Zenon
    <2> QED
      BY <1>2, <2>2, <2>3
  <1>9. TypeOK'
    <2>1. /\ loaded' \in 0..D /\ finished' \subseteq Dispatch /\ reported' \subseteq 0..D /\ D \in 0..MaxDispatches
          /\ unheeded' \subseteq Dispatch /\ asked' \subseteq Dispatch
      BY <1>1, <1>3 DEF IInv, TypeOK
    <2> HIDE DEF D
    <2>2. buf' \in Buffers
      BY <1>4
    <2> QED
      BY <1>1, <1>6, <1>7, <1>8, <2>1, <2>2 DEF IInv, TypeOK, Servers
  <1> HIDE DEF D
  <1>10. AgentInv'
    BY <1>1 DEF IInv, AgentInv
  <1>11. BufferInv'
    <2>1. \A d \in reported' : d \in {0} \cup finished' \cup overlapped' \cup unheeded'
      BY <1>1, <1>8 DEF IInv, BufferInv
    <2>2. loaded' # 0 /\ buf'.commands = <<Skill(loaded')>>
      BY <1>1, <1>3, <1>4, Zenon
    <2> QED
      BY <1>6, <2>1, <2>2, Zenon DEF BufferInv, Skill
  <1>12. Ready => /\ agent.on = 0 /\ ~agent.job /\ Quiet /\ session = <<>> /\ deferred = <<>> /\ typing = <<>>
    BY DEF Ready, Quiet
  <1>13. StageInv'
    <2> SUFFICES ASSUME Alone' PROVE Typing'
      BY DEF StageInv
    <2>1. Ready
      BY <1>1, <1>2 DEF Alone
    <2>2. Awaiting' /\ Quiet'
      BY <1>1, <1>4, <1>12, <2>1 DEF Awaiting, Quiet
    <2>3. typing' = <<Clear(loaded')>>
      <3>1. typing' = Append(<<>>, x)
        BY <1>4, <1>12, <2>1
      <3>2. \A y : Append(<<>>, y) = <<y>>
        OBVIOUS
      <3> QED
        BY <1>1, <3>1, <3>2, Zenon DEF x
    <2>4. buf'.commands # <<>> /\ session' = <<>> /\ deferred' = <<>>
      BY <1>1, <1>4, <1>12, <2>1
    <2> QED
      BY <2>2, <2>3, <2>4, Zenon DEF Typing, Clear
  <1>14. \A d : Pending(d)' => Pending(d)
    BY <1>1 DEF Pending
  <1>15. ContextInv'
    <2>1. CASE Ready
      <3>1. \A d : ~Pending(d)
        <4>1. session = <<>> /\ deferred = <<>> /\ Len(<<>>) = 0
          BY <1>12, <2>1
        <4> QED
          BY <4>1 DEF Pending
      <3> QED
        BY <1>1, <1>12, <1>14, <2>1, <3>1 DEF ContextInv
    <2>2. CASE overlapped' = overlapped \cup {D}
      <3>1. ~Behind'
        BY <1>1, <2>2 DEF Behind
      <3> QED
        BY <1>1, <1>8, <1>14, <3>1, ContextKept
    <2> QED
      BY <1>2, <2>1, <2>2
  <1> QED
    BY <1>9, <1>10, <1>11, <1>13, <1>15 DEF IInv

\* Taking a text out of those that wait to be typed.
LEMMA TakenOut ==
    ASSUME NEW q \in Seq(Text), NEW i \in 1..Len(q), NEW r, r = RemoveAt(q, i)
    PROVE  /\ r \in Seq(Text) /\ q[i] \in Text /\ q # <<>>
           /\ \A j \in 1..Len(r) : \E k \in 1..Len(q) : r[j] = q[k]
           /\ \A x : q = <<x>> => r = <<>> /\ q[i] = x
  <1>1. /\ r \in Seq(Text) /\ Len(r) = Len(q) - 1
        /\ \A j \in 1..Len(r) : \E k \in 1..Len(q) : r[j] = q[k]
    <2>1. /\ RemoveAt(q, i) \in Seq(Text) /\ Len(RemoveAt(q, i)) = Len(q) - 1
          /\ \A j \in 1..Len(RemoveAt(q, i)) : \E k \in 1..Len(q) : RemoveAt(q, i)[j] = q[k]
      BY ONLY RemoveAtTyped, q \in Seq(Text), i \in 1..Len(q), Zenon
    <2> QED
      BY <2>1, r = RemoveAt(q, i), Zenon
  <1>2. q[i] \in Text /\ q # <<>>
    OBVIOUS
  <1>3. ASSUME NEW x, q = <<x>> PROVE r = <<>> /\ q[i] = x
    <2>1. Len(<<x>>) = 1 /\ <<x>>[1] = x
      OBVIOUS
    <2>2. Len(q) = 1 /\ q[1] = x
      BY <1>3, <2>1, Zenon
    <2>3. i = 1 /\ Len(r) = 0
      BY <1>1, <2>2
    <2> QED
      BY <1>1, <2>2, <2>3, EmptySeq
  <1> QED
    BY <1>1, <1>2, <1>3, Zenon

LEMMA FaultTyped ==
    ASSUME IInv, faults' = faults \/ Fault
    PROVE  faults' \in 0..MaxFaults /\ faults' \in Nat /\ faults' >= faults
  <1>1. faults \in 0..MaxFaults /\ MaxFaults \in Nat
    BY LimitsTyped DEF IInv, TypeOK
  <1>2. faults' = faults \/ (faults < MaxFaults /\ faults' = faults + 1)
    BY DEF Fault
  <1> QED
    BY <1>1, <1>2

LEMMA AgentFaults ==
    ASSUME IInv, UNCHANGED <<main, idleRpc, agent, watch>>, faults' \in Nat, faults' >= faults
    PROVE  AgentInv'
  <1>1. faults \in Nat
    BY DEF IInv, TypeOK
  <1> QED
    BY <1>1 DEF IInv, AgentInv

\* The handler of a dispatch types the clear, or fails to.
LEMMA TypeFirstInv ==
    ASSUME IInv, TypeFirst
    PROVE  IInv'
  <1>1. UNCHANGED <<main, buf, idleRpc, deferred, agent, reports, idles, server, watch, observed, dispatches, redrives,
                    pauses, loose>>
    BY DEF TypeFirst
  <1>2. typing \in Seq(Text) /\ session \in Seq(Typed)
    BY DEF IInv, TypeOK
  <1>3. PICK i \in 1..Len(typing) : TrySendKeys(typing[i]) /\ typing' = RemoveAt(typing, i)
    BY <1>2 DEF TypeFirst
  <1> DEFINE x == typing[i]
  <1>4. /\ typing' \in Seq(Text) /\ x \in Text /\ typing # <<>>
        /\ \A j \in 1..Len(typing') : \E k \in 1..Len(typing) : typing'[j] = typing[k]
        /\ \A y : typing = <<y>> => typing' = <<>> /\ x = y
    BY <1>2, <1>3, TakenOut
  <1>5. x.kind = "clear"
    BY <1>3 DEF IInv, BufferInv
  <1>6. (SendKeys(x) /\ faults' = faults) \/ (Fault /\ session' = session)
    BY <1>3 DEF TrySendKeys
  <1> HIDE DEF x
  <1>7. session' \in Seq(Typed) /\ From(x)
    <2>1. CASE SendKeys(x)
      BY <1>1, <1>4, <2>1, SendFrom
    <2>2. CASE session' = session
      BY <1>1, <1>2, <2>2 DEF From
    <2> QED
      BY <1>6, <2>1, <2>2
  <1>8. faults' \in 0..MaxFaults /\ faults' \in Nat /\ faults' >= faults
    BY <1>6, FaultTyped
  <1>9. TypeOK'
    BY <1>1, <1>4, <1>7, <1>8 DEF IInv, TypeOK, observed
  <1>10. AgentInv'
    BY <1>1, <1>8, AgentFaults
  <1>11. BufferInv'
    <2>1. \A j \in 1..Len(typing') : typing'[j].kind = "clear"
      BY <1>4 DEF IInv, BufferInv
    <2> QED
      BY <1>1, <2>1 DEF IInv, BufferInv, observed
  <1>12. StageInv'
    <2> SUFFICES ASSUME Alone' PROVE Clearing' \/ Lost'
      BY DEF StageInv
    <2>1. Typing
      BY <1>1, <1>4, StageOf DEF Alone, observed
    <2>2. Awaiting' /\ Quiet' /\ buf'.commands # <<>> /\ deferred' = <<>> /\ loaded' = loaded
      BY <1>1, <2>1 DEF Typing, Awaiting, Quiet, observed
    <2>3. typing' = <<>> /\ x = Clear(loaded) /\ session = <<>>
      BY <1>4, <2>1, Zenon DEF Typing
    <2>4. CASE SendKeys(x)
      <3>1. \A z : Append(<<>>, z) = <<z>>
        OBVIOUS
      <3>2. PICK b \in BOOLEAN : b = AtPrompt
        BY DEF AtPrompt
      <3>3. session' = Append(<<>>, [text |-> Clear(loaded'), atPrompt |-> b])
        BY <2>2, <2>3, <2>4, <3>2, Zenon DEF SendKeys
      <3>4. session' = <<[text |-> Clear(loaded'), atPrompt |-> b]>>
        BY <3>1, <3>3, Zenon
      <3> QED
        BY <2>2, <2>3, <3>4, Zenon DEF Clearing, Clear
    <2>5. CASE session' = session
      BY <2>2, <2>3, <2>5 DEF Lost
    <2> QED
      BY <1>6, <2>4, <2>5
  <1>13. \A d : Pending(d)' => Pending(d)
    <2>1. \A d : x # Skill(d)
      BY <1>5, TextFields
    <2> QED
      BY <1>7, <2>1, FromPending
  <1>14. ContextInv'
    BY <1>1, <1>13, ContextKept, BehindKept DEF observed
  <1> QED
    BY <1>9, <1>10, <1>11, <1>12, <1>14 DEF IInv

\* The fields of the buffer after each of the assignments to it.
LEMMA BufferShape ==
    \E S : \E e \in S : /\ e = ""
                       /\ Buffers = [commands : Seq(Text), complete : BOOLEAN, step : S, suppressed : BOOLEAN]
  BY Zenon DEF Buffers

LEMMA BufferPopped ==
    \A b \in Buffers : \A q \in Seq(Text) : \A c : c = [b EXCEPT !.commands = q] =>
        c \in Buffers /\ c.commands = q /\ c.complete = b.complete
  <1>1. PICK S : Buffers = [commands : Seq(Text), complete : BOOLEAN, step : S, suppressed : BOOLEAN]
    BY BufferShape, Zenon
  <1> QED
    BY <1>1

LEMMA BufferReset ==
    \A b \in Buffers : \A q \in Seq(Text) : \A c : c = [b EXCEPT !.commands = q, !.complete = FALSE, !.step = ""] =>
        c \in Buffers /\ c.commands = q /\ ~c.complete
  <1>1. PICK S : \E e \in S : /\ e = ""
                   /\ Buffers = [commands : Seq(Text), complete : BOOLEAN, step : S, suppressed : BOOLEAN]
    BY BufferShape, Zenon
  <1>2. PICK e \in S : /\ e = ""
                   /\ Buffers = [commands : Seq(Text), complete : BOOLEAN, step : S, suppressed : BOOLEAN]
    BY <1>1, Zenon
  <1>3. Buffers = [commands : Seq(Text), complete : BOOLEAN, step : S, suppressed : BOOLEAN]
    BY <1>2, Zenon
  <1>4. \A b \in Buffers : \A q \in Seq(Text) : \A c : c = [b EXCEPT !.commands = q, !.complete = FALSE, !.step = e] =>
            c \in Buffers /\ c.commands = q /\ ~c.complete
    BY <1>3
  <1> QED
    BY <1>2, <1>4, Zenon

LEMMA BufferFlagged ==
    \A b \in Buffers : \A c :
        /\ c = [b EXCEPT !.complete = TRUE, !.suppressed = FALSE] =>
              c \in Buffers /\ c.commands = b.commands /\ c.complete
        /\ c = [b EXCEPT !.suppressed = TRUE] => c \in Buffers /\ c.commands = b.commands /\ c.complete = b.complete
  <1>1. PICK S : Buffers = [commands : Seq(Text), complete : BOOLEAN, step : S, suppressed : BOOLEAN]
    BY BufferShape, Zenon
  <1> QED
    BY <1>1

\* The call is answered, and the agent still in its hook.
LEMMA ReplyInv ==
    ASSUME IInv, Reply, idleRpc # "none", UNCHANGED <<main, agent, watch>>, faults' >= faults, faults' \in Nat
    PROVE  AgentInv'
  <1>1. agent.state = "hook" /\ idleRpc' = "returning"
    BY DEF IInv, AgentInv, Reply
  <1>2. faults \in Nat
    BY DEF IInv, TypeOK
  <1> QED
    BY <1>1, <1>2 DEF IInv, AgentInv

\* The skill is popped and goes to the task that types it.
LEMMA IdlePopsInv ==
    ASSUME IInv, IdlePops
    PROVE  IInv'
  <1> DEFINE x == Skill(loaded)
  <1>1. /\ UNCHANGED <<main, typing, session, agent, reports, idles, server, watch, observed, counters>> /\ Reply
        /\ idleRpc = "called" /\ buf.commands # <<>> /\ Defer(Head(buf.commands))
        /\ buf' = [buf EXCEPT !.commands = Tail(buf.commands)]
    BY DEF IdlePops, IdleFrame, observed
  <1>2. loaded # 0 /\ buf.commands = <<x>>
    BY <1>1 DEF IInv, BufferInv
  <1>3. loaded \in Dispatch
    BY <1>2, LimitsTyped DEF IInv, TypeOK, Dispatch
  <1>4. x \in Text
    BY <1>3, TextTyped
  <1>5. Head(<<x>>) = x /\ Tail(<<x>>) = <<>>
    OBVIOUS
  <1>6. Head(buf.commands) = x /\ Tail(buf.commands) = <<>>
    BY <1>2, <1>5
  <1>7. PICK q \in Seq(Text) : q = <<>>
    <2>1. <<>> \in Seq(Text)
      OBVIOUS
    <2> QED
      BY <2>1, Zenon
  <1>8. buf' \in Buffers /\ buf'.commands = q /\ buf'.complete = buf.complete
    <2>1. buf \in Buffers /\ buf' = [buf EXCEPT !.commands = q]
      BY <1>1, <1>6, <1>7, Zenon DEF IInv, TypeOK
    <2> QED
      BY <2>1, BufferPopped
  <1> HIDE DEF x
  <1>9. deferred' \in Seq(Text) /\ From(x) /\ deferred' = Append(deferred, x)
    <2>1. Defer(x)
      BY <1>1, <1>6
    <2> QED
      BY <1>1, <1>4, <2>1, DeferFrom DEF Defer
  <1>10. agent.state = "hook" /\ idleRpc' = "returning"
    BY <1>1 DEF IInv, AgentInv, Reply
  <1>11. faults' = faults /\ faults \in Nat
    BY <1>1 DEF IInv, TypeOK, counters
  <1>12. TypeOK'
    BY <1>1, <1>8, <1>9, <1>10 DEF IInv, TypeOK, observed, counters
  <1>13. AgentInv'
    BY <1>1, <1>11, ReplyInv
  <1>14. BufferInv'
    BY <1>1, <1>7, <1>8 DEF IInv, BufferInv, observed
  <1>15. Alone' => Alone /\ Cleared
    BY <1>1, StageOf DEF Alone, observed
  <1>16. StageInv'
    <2> SUFFICES ASSUME Alone' PROVE Deferred'
      BY DEF StageInv
    <2>1. Cleared
      BY <1>15
    <2>2. Awaiting' /\ Quiet' /\ agent'.context = {} /\ session' = <<>> /\ typing' = <<>>
      BY <1>1, <1>8, <1>10, <2>1 DEF Cleared, Awaiting, Quiet
    <2>3. deferred' = <<Skill(loaded')>>
      <3>1. \A y : Append(<<>>, y) = <<y>>
        OBVIOUS
      <3>2. deferred' = Append(<<>>, x) /\ loaded' = loaded
        BY <1>1, <1>9, <2>1 DEF Cleared, observed
      <3> QED
        BY <3>1, <3>2, Zenon DEF x
    <2> QED
      BY <1>7, <1>8, <2>2, <2>3, Zenon DEF Deferred, Skill
  <1>17. \A d \in Dispatch : d # loaded /\ Pending(d)' => Pending(d)
    <2>1. \A d : d # loaded => x # Skill(d)
      BY TextFields DEF x
    <2> QED
      BY <1>9, <2>1, FromPending
  <1>18. ContextInv'
    <2>1. ~Behind'
      BY <1>7, <1>8 DEF Behind
    <2>2. CASE loaded \in overlapped
      BY <1>1, <1>17, <2>1, <2>2, ContextKept DEF observed
    <2>3. CASE loaded \notin overlapped
      <3>1. \A d \in Dispatch \ overlapped : ~Pending(d)
        BY <1>1, <1>2, <2>3 DEF IInv, ContextInv, Behind
      <3>2. \A d \in Dispatch \ overlapped : Pending(d)' => d = loaded
        BY <1>17, <3>1
      <3>3. loaded \in unheeded \/ Known' = {}
        <4>1. CASE loaded \notin unheeded
          <5>1. Alone'
            BY <1>1, <1>2, <1>10, <2>3, <4>1 DEF Alone, observed
          <5> QED
            BY <1>1, <1>15, <5>1 DEF Known, Cleared
        <4> QED
          BY <4>1
      <3>4. overlapped' = overlapped /\ unheeded' = unheeded /\ agent' = agent /\ Known' = Known
        BY <1>1 DEF observed, Known
      <3>5. agent'.on # 0 /\ agent'.on \notin overlapped' \cup unheeded' => Known' \subseteq {agent'.on}
        BY <3>4 DEF IInv, ContextInv
      <3>6. \A d \in Dispatch \ overlapped' : Pending(d)' =>
               /\ d \in unheeded' \/ Known' \subseteq {d}
               /\ \A e \in Dispatch \ overlapped' : Pending(e)' => e = d
        BY <3>2, <3>3, <3>4
      <3> QED
        BY <2>1, <3>5, <3>6 DEF ContextInv
    <2> QED
      BY <2>2, <2>3
  <1> QED
    BY <1>12, <1>13, <1>14, <1>16, <1>18 DEF IInv

\* The step is reported: its work was finished, or it was not alone.
LEMMA IdleReportsInv ==
    ASSUME IInv, IdleReports
    PROVE  IInv'
  <1>1. /\ UNCHANGED <<main, typing, deferred, session, agent, idles, server, watch, overlapped, unheeded, asked,
                       finished, counters>> /\ Reply
        /\ idleRpc = "called" /\ buf.commands = <<>> /\ buf.complete
        /\ buf' = [buf EXCEPT !.commands = <<>>, !.complete = FALSE, !.step = ""]
        /\ reports' = Append(reports, loaded) /\ reported' = reported \cup {loaded} /\ loaded' = 0
    BY DEF IdleReports, Drained, IdleFrame
  <1>2. agent.state = "hook" /\ idleRpc' = "returning"
    BY <1>1 DEF IInv, AgentInv, Reply
  <1>3. PICK q \in Seq(Text) : q = <<>>
    <2>1. <<>> \in Seq(Text)
      OBVIOUS
    <2> QED
      BY <2>1, Zenon
  <1>4. buf' \in Buffers /\ buf'.commands = q
    <2>1. buf \in Buffers /\ buf' = [buf EXCEPT !.commands = q, !.complete = FALSE, !.step = ""]
      BY <1>1, <1>3, Zenon DEF IInv, TypeOK
    <2> QED
      BY <2>1, BufferReset, Zenon
  <1>5. faults' = faults /\ faults \in Nat
    BY <1>1 DEF IInv, TypeOK, counters
  <1>6. loaded = 0 \/ loaded \in overlapped \cup unheeded \/ loaded \in finished
    <2>1. CASE loaded # 0 /\ loaded \notin overlapped \cup unheeded
      <3>1. Alone
        BY <1>2, <2>1 DEF Alone
      <3>2. Working
        BY <1>1, <3>1, StageOf
      <3> QED
        BY <1>1, <3>2 DEF Working
    <2> QED
      BY <2>1
  <1>7. reports' \in Seq(0..MaxDispatches) /\ reported' \subseteq 0..dispatches /\ loaded' \in 0..dispatches
    <2>1. /\ reports \in Seq(0..MaxDispatches) /\ loaded \in 0..dispatches /\ dispatches \in 0..MaxDispatches
          /\ reported \subseteq 0..dispatches
      BY DEF IInv, TypeOK
    <2>2. loaded \in 0..MaxDispatches /\ 0 \in 0..dispatches
      BY <2>1, LimitsTyped
    <2> QED
      BY <1>1, <2>1, <2>2
  <1>8. TypeOK'
    BY <1>1, <1>2, <1>4, <1>7 DEF IInv, TypeOK, counters
  <1>9. AgentInv'
    BY <1>1, <1>5, ReplyInv
  <1>10. BufferInv'
    BY <1>1, <1>3, <1>4, <1>6 DEF IInv, BufferInv
  <1>11. StageInv'
    BY <1>1 DEF StageInv, Alone
  <1>12. \A d : Pending(d)' => Pending(d)
    BY <1>1 DEF Pending
  <1>13. ContextInv'
    <2>1. ~Behind'
      BY <1>1 DEF Behind
    <2> QED
      BY <1>1, <1>12, <2>1, ContextKept
  <1> QED
    BY <1>8, <1>9, <1>10, <1>11, <1>13 DEF IInv

\* An open step is nudged, or not.
LEMMA IsStalledInv ==
    ASSUME IInv, IsStalled
    PROVE  IInv'
  <1> DEFINE x == [kind |-> "nudge", d |-> 0]
  <1>1. /\ UNCHANGED <<main, buf, typing, session, agent, reports, idles, server, watch, observed, dispatches, redrives,
                       pauses, loose>> /\ Reply
        /\ idleRpc = "asking" /\ (UNCHANGED deferred \/ Defer(x)) /\ (faults' = faults \/ Fault)
    BY DEF IsStalled
  <1>2. faults' >= faults /\ faults' \in 0..MaxFaults /\ faults' \in Nat
    BY <1>1, FaultTyped
  <1>3. x \in Text /\ x.kind = "nudge" /\ \A d : x # Skill(d)
    BY TextTyped, TextFields
  <1> HIDE DEF x
  <1>4. deferred' \in Seq(Text) /\ From(x)
    <2>1. CASE UNCHANGED deferred
      BY <1>1, <2>1 DEF IInv, TypeOK, From
    <2>2. CASE Defer(x)
      BY <1>1, <1>3, <2>2, DeferFrom
    <2> QED
      BY <1>1, <2>1, <2>2
  <1>5. agent.state = "hook" /\ idleRpc' = "returning"
    BY <1>1 DEF IInv, AgentInv, Reply
  <1>6. TypeOK'
    BY <1>1, <1>2, <1>4, <1>5 DEF IInv, TypeOK, observed
  <1>7. AgentInv'
    BY <1>1, <1>2, ReplyInv
  <1>8. BufferInv'
    BY <1>1 DEF IInv, BufferInv, observed
  <1>9. Alone' => Alone /\ Working
    BY <1>1, StageOf DEF Alone, observed
  <1>10. Nudges => Nudges'
    BY <1>3, <1>4, FromNudges
  <1>11. StageInv'
    BY <1>1, <1>9, <1>10, WorkingKept DEF observed
  <1>12. \A d : Pending(d)' => Pending(d)
    BY <1>3, <1>4, FromPending
  <1>13. ContextInv'
    BY <1>1, <1>12, ContextKept, BehindKept DEF observed
  <1> QED
    BY <1>6, <1>7, <1>8, <1>11, <1>13 DEF IInv

\* The sleeping task types its text: a skill at the prompt, or a nudge.
LEMMA DeferredSendInv ==
    ASSUME IInv, DeferredSend
    PROVE  IInv'
  <1>1. /\ UNCHANGED <<main, buf, idleRpc, typing, agent, reports, idles, server, watch, observed, dispatches, redrives,
                       pauses, loose>>
        /\ agent.state # "hook"
    BY DEF DeferredSend
  <1>2. deferred \in Seq(Text) /\ session \in Seq(Typed)
    BY DEF IInv, TypeOK
  <1>3. PICK i \in 1..Len(deferred) : TrySendKeys(deferred[i]) /\ deferred' = RemoveAt(deferred, i)
    BY <1>2 DEF DeferredSend
  <1> DEFINE x == deferred[i]
             y == [text |-> x, atPrompt |-> AtPrompt]
  <1>4. /\ deferred' \in Seq(Text) /\ x \in Text /\ deferred # <<>>
        /\ \A j \in 1..Len(deferred') : \E k \in 1..Len(deferred) : deferred'[j] = deferred[k]
        /\ \A z : deferred = <<z>> => deferred' = <<>> /\ x = z
    BY <1>2, <1>3, TakenOut
  <1>5. y \in Typed /\ y.text = x
    BY <1>4, TypedTyped DEF AtPrompt
  <1>6. (session' = Append(session, y) /\ faults' = faults) \/ (Fault /\ session' = session)
    BY <1>3 DEF TrySendKeys, SendKeys
  <1> HIDE DEF y
  <1>7. /\ session' \in Seq(Typed)
        /\ \A j \in 1..Len(session') : session'[j] = y \/ \E k \in 1..Len(session) : session'[j] = session[k]
    <2>1. CASE session' = Append(session, y)
      BY <1>2, <1>5, <2>1, AppendTyped
    <2>2. CASE session' = session
      BY <1>2, <2>2
    <2> QED
      BY <1>6, <2>1, <2>2
  <1>8. ASSUME NEW z PROVE From(z)
    <2>1. \A j \in 1..Len(session') : session'[j] = y => \E k \in 1..Len(deferred) : session'[j].text = deferred[k]
      BY <1>5
    <2> QED
      BY <1>4, <1>7, <2>1 DEF From
  <1> HIDE DEF x
  <1>9. faults' \in 0..MaxFaults /\ faults' \in Nat /\ faults' >= faults
    BY <1>6, FaultTyped
  <1>10. TypeOK'
    BY <1>1, <1>4, <1>7, <1>9 DEF IInv, TypeOK, observed
  <1>11. AgentInv'
    BY <1>1, <1>9, AgentFaults
  <1>12. BufferInv'
    BY <1>1 DEF IInv, BufferInv, observed
  <1>13. Alone' => Alone /\ (Deferred \/ Working)
    BY <1>1, <1>4, StageOf DEF Alone, observed
  <1>14. Working => Working'
    <2>1. Nudges => Nudges'
      <3>1. [kind |-> "nudge"].kind = "nudge"
        OBVIOUS
      <3> QED
        BY <1>8, <3>1, FromNudges
    <2> QED
      BY <1>1, <2>1 DEF Working, observed
  <1>15. Deferred => Sent' \/ Lost'
    <2> SUFFICES ASSUME Deferred PROVE Sent' \/ Lost'
      OBVIOUS
    <2>1. /\ Awaiting /\ agent.state = "prompt" /\ Quiet /\ buf.commands = <<>> /\ session = <<>>
          /\ typing = <<>> /\ agent.context = {} /\ deferred = <<Skill(loaded)>>
      BY <1>1 DEF Deferred, Quiet, IInv, AgentInv
    <2>2. Awaiting' /\ Quiet' /\ loaded' = loaded /\ typing' = <<>>
      BY <1>1, <2>1 DEF Awaiting, Quiet, observed
    <2>3. deferred' = <<>> /\ x = Skill(loaded)
      BY <1>4, <2>1, Zenon
    <2>4. CASE session' = Append(session, y)
      <3>1. \A z : Append(<<>>, z) = <<z>>
        OBVIOUS
      <3>2. session' = Append(<<>>, y)
        BY <2>1, <2>4
      <3>3. AtPrompt = TRUE
        BY <2>1 DEF AtPrompt
      <3>4. y = [text |-> Skill(loaded'), atPrompt |-> TRUE]
        BY <2>2, <2>3, <3>3, Zenon DEF y
      <3>5. session' = <<[text |-> Skill(loaded'), atPrompt |-> TRUE]>>
        BY <3>1, <3>2, <3>4, Zenon
      <3> QED
        BY <1>1, <2>1, <2>2, <2>3, <3>5, Zenon DEF Sent, Skill
    <2>5. CASE session' = session
      BY <2>1, <2>2, <2>3, <2>5 DEF Lost
    <2> QED
      BY <1>6, <2>4, <2>5
  <1>16. StageInv'
    BY <1>13, <1>14, <1>15 DEF StageInv
  <1>17. \A d : Pending(d)' => Pending(d)
    <2>1. \A d : Clear(0) # Skill(d)
      BY TextFields
    <2> QED
      BY <1>8, <2>1, FromPending
  <1>18. ContextInv'
    BY <1>1, <1>17, ContextKept, BehindKept DEF observed
  <1> QED
    BY <1>10, <1>11, <1>12, <1>16, <1>18 DEF IInv

-----------------------------------------------------------------------------
(* The agent's own steps. *)

\* The agent is at work: a dispatch that is alone is in its hands.
LEMMA BusyWorking ==
    ASSUME IInv, agent.state = "busy" \/ agent.job, Alone
    PROVE  Working
  BY StageOf

LEMMA StepCompleteInv ==
    ASSUME IInv, StepComplete
    PROVE  IInv'
  <1>1. /\ UNCHANGED <<main, idleRpc, typing, deferred, session, agent, reports, idles, server, watch, loaded,
                       overlapped, unheeded, asked, reported, counters>>
        /\ agent.state = "busy" /\ buf' = [buf EXCEPT !.complete = TRUE, !.suppressed = FALSE]
        /\ finished' = IF agent.on = 0 THEN finished ELSE finished \cup {agent.on}
    BY DEF StepComplete
  <1>2. buf' \in Buffers /\ buf'.commands = buf.commands /\ buf'.complete
    <2>1. buf \in Buffers
      BY DEF IInv, TypeOK
    <2> QED
      BY <1>1, <2>1, BufferFlagged, Zenon
  <1>3. finished \subseteq finished' /\ (agent.on # 0 => agent.on \in finished') /\ finished' \subseteq Dispatch
    <2>1. agent \in Agents /\ finished \subseteq Dispatch
      BY DEF IInv, TypeOK
    <2>2. agent.on \in 0..MaxDispatches
      BY <2>1, AgentFields
    <2>3. agent.on # 0 => agent.on \in Dispatch
      BY <2>2, LimitsTyped DEF Dispatch
    <2> QED
      BY <1>1, <2>1, <2>3
  <1>4. TypeOK'
    BY <1>1, <1>2, <1>3 DEF IInv, TypeOK, counters
  <1>5. AgentInv'
    BY <1>1 DEF IInv, AgentInv, counters
  <1>6. BufferInv'
    BY <1>1, <1>2, <1>3 DEF IInv, BufferInv
  <1>7. StageInv'
    <2> SUFFICES ASSUME Alone' PROVE Working'
      BY DEF StageInv
    <2>1. Alone
      BY <1>1 DEF Alone
    <2>2. Working /\ loaded # 0
      BY <1>1, <2>1, BusyWorking DEF Alone
    <2>3. loaded \in finished'
      BY <1>3, <2>2 DEF Working
    <2>4. Nudges'
      BY <1>1, <2>2 DEF Working, Nudges
    <2> QED
      BY <1>1, <1>2, <2>2, <2>3, <2>4 DEF Working
  <1>8. \A d : Pending(d)' => Pending(d)
    BY <1>1 DEF Pending
  <1>9. ContextInv'
    BY <1>1, <1>2, <1>8, ContextKept, BehindKept
  <1> QED
    BY <1>4, <1>5, <1>6, <1>7, <1>9 DEF IInv

\* The assignments to the agent.
LEMMA AgentPaused ==
    \A a \in Agents : \A b :
        /\ b = [a EXCEPT !.job = TRUE] =>
              b \in Agents /\ b.state = a.state /\ b.on = a.on /\ b.context = a.context
        /\ b = [a EXCEPT !.state = "busy", !.job = FALSE] =>
              b \in Agents /\ b.state = "busy" /\ b.on = a.on /\ b.context = a.context
  BY DEF Agents

LEMMA AgentGone ==
    \A a \in Agents : \A b : b = [a EXCEPT !.state = "gone", !.on = 0, !.job = FALSE] =>
        b \in Agents /\ b.state = "gone" /\ b.on = 0 /\ b.context = a.context
  <1>1. 0 \in 0..MaxDispatches
    BY LimitsTyped
  <1> QED
    BY <1>1 DEF Agents

LEMMA AgentCleared ==
    \A a \in Agents : \A b : b = [a EXCEPT !.state = "hook", !.on = 0, !.context = {}] =>
        b \in Agents /\ b.state = "hook" /\ b.on = 0 /\ b.context = {} /\ b.job = a.job
  <1>1. 0 \in 0..MaxDispatches
    BY LimitsTyped
  <1> QED
    BY <1>1 DEF Agents

\* What is left to show for a step of the agent alone.
LEMMA AgentStepInv ==
    ASSUME IInv, UNCHANGED <<main, typing, deferred, reports, idles, server, watch, loaded, overlapped, asked, finished,
                             reported, dispatches, redrives, faults, loose>>,
           unheeded \subseteq unheeded', unheeded' \subseteq Dispatch,
           buf' \in Buffers, buf'.commands = buf.commands, pauses' \in 0..MaxPauses,
           agent' \in Agents, session' \in Seq(Typed), idleRpc' \in {"none", "called"},
           agent.state \in {"hook", "prompt", "busy"}, agent'.state \in {"hook", "prompt", "busy", "gone"},
           idleRpc' = "none" <=> agent'.state # "hook",
           StageInv', ContextInv'
    PROVE  IInv'
  <1>1. TypeOK'
    BY DEF IInv, TypeOK
  <1>2. AgentInv'
    BY DEF IInv, AgentInv
  <1>3. BufferInv'
    BY DEF IInv, BufferInv
  <1> QED
    BY <1>1, <1>2, <1>3 DEF IInv

\* The agent pauses, ends a turn or goes on after a job: the work stays its own.
LEMMA TurnInv ==
    ASSUME IInv, PauseNudge \/ AgentStops \/ JobEnds
    PROVE  IInv'
  <1>1. /\ UNCHANGED <<main, typing, deferred, session, reports, idles, server, watch, observed, dispatches, redrives,
                       faults, loose>>
        /\ agent.state = "busy" \/ (agent.job /\ agent.state = "prompt")
    BY DEF PauseNudge, AgentStops, JobEnds, AgentFrame, counters
  <1>2. agent \in Agents /\ buf \in Buffers /\ idleRpc = "none" /\ pauses \in 0..MaxPauses
    BY <1>1 DEF IInv, TypeOK, AgentInv
  <1>3. buf' \in Buffers /\ buf'.commands = buf.commands /\ buf'.complete = buf.complete
    <2>1. buf' = buf \/ buf' = [buf EXCEPT !.suppressed = TRUE]
      BY DEF PauseNudge, AgentStops, JobEnds, AgentFrame
    <2> QED
      BY <1>2, <2>1, BufferFlagged, Zenon
  <1>4. pauses' \in 0..MaxPauses
    BY <1>2, LimitsTyped DEF PauseNudge, AgentStops, JobEnds, AgentFrame, counters
  <1>5. /\ agent' \in Agents /\ agent'.state \in {"hook", "busy"} /\ agent'.context = agent.context
        /\ agent'.on = agent.on \/ (agent'.on = 0 /\ agent.on \in finished)
        /\ idleRpc' \in {"none", "called"} /\ (idleRpc' = "none" <=> agent'.state # "hook")
    <2>1. CASE PauseNudge
      <3>1. agent' = [agent EXCEPT !.job = TRUE] /\ idleRpc' = idleRpc /\ agent.state = "busy"
        BY <2>1 DEF PauseNudge
      <3>2. agent' \in Agents /\ agent'.state = agent.state /\ agent'.on = agent.on /\ agent'.context = agent.context
        BY <1>2, <3>1, AgentPaused, Zenon
      <3> QED
        BY <1>2, <3>1, <3>2
    <2>2. CASE AgentStops
      <3> DEFINE o == IF agent.on \in finished THEN 0 ELSE agent.on
      <3>1. agent' = [agent EXCEPT !.state = "hook", !.on = o] /\ idleRpc' = "called"
        BY <2>2 DEF AgentStops
      <3>2. o \in 0..MaxDispatches
        BY <1>2, AgentFields, LimitsTyped
      <3>3. o = agent.on \/ (o = 0 /\ agent.on \in finished)
        OBVIOUS
      <3> HIDE DEF o
      <3>4. agent' \in Agents /\ agent'.state = "hook" /\ agent'.on = o /\ agent'.context = agent.context
        BY <1>2, <3>1, <3>2 DEF Agents
      <3> QED
        BY <3>1, <3>3, <3>4
    <2>3. CASE JobEnds
      <3>1. agent' = [agent EXCEPT !.state = "busy", !.job = FALSE] /\ idleRpc' = idleRpc
        BY <2>3 DEF JobEnds
      <3>2. agent' \in Agents /\ agent'.state = "busy" /\ agent'.on = agent.on /\ agent'.context = agent.context
        BY <1>2, <3>1, AgentPaused, Zenon
      <3> QED
        BY <1>2, <3>1, <3>2
    <2> QED
      BY <2>1, <2>2, <2>3
  <1>6. Alone' => Alone /\ Working
    BY <1>1, BusyWorking DEF Alone, observed
  <1>7. Nudges => Nudges'
    BY <1>1 DEF Nudges
  <1>8. StageInv'
    BY <1>1, <1>3, <1>5, <1>6, <1>7, WorkingKept DEF observed
  <1>9. \A d : Pending(d)' => Pending(d)
    BY <1>1 DEF Pending
  <1>10. ContextInv'
    BY <1>1, <1>3, <1>5, <1>9, ContextKept, BehindKept DEF observed
  <1>11. session' \in Seq(Typed) /\ unheeded' \subseteq Dispatch
    BY <1>1 DEF IInv, TypeOK, observed
  <1> QED
    BY <1>1, <1>3, <1>4, <1>5, <1>8, <1>10, <1>11, AgentStepInv DEF observed

LEMMA AgentExitsInv ==
    ASSUME IInv, AgentExits
    PROVE  IInv'
  <1>1. /\ UNCHANGED <<idleRpc, session, main, buf, typing, deferred, reports, idles, server, watch, observed, counters>>
        /\ agent.state \in {"prompt", "busy"} /\ idleRpc = "none"
        /\ agent' = [agent EXCEPT !.state = "gone", !.on = 0, !.job = FALSE]
    BY DEF AgentExits, AgentFrame
  <1>2. /\ agent \in Agents /\ buf \in Buffers /\ pauses \in 0..MaxPauses /\ session \in Seq(Typed)
        /\ unheeded \subseteq Dispatch
    BY DEF IInv, TypeOK
  <1>3. agent' \in Agents /\ agent'.state = "gone" /\ agent'.on = 0 /\ agent'.context = agent.context
    BY <1>1, <1>2, AgentGone
  <1>4. StageInv'
    BY <1>3 DEF StageInv, Alone
  <1>5. \A d : Pending(d)' => Pending(d)
    BY <1>1 DEF Pending
  <1>6. ContextInv'
    BY <1>1, <1>3, <1>5, ContextKept, BehindKept DEF observed
  <1>7. UNCHANGED <<dispatches, redrives, faults, pauses, loose>>
    BY <1>1 DEF counters
  <1> QED
    BY <1>1, <1>2, <1>3, <1>4, <1>6, <1>7, AgentStepInv DEF observed

\* The agent takes a text: the clear, the skill, or anything else.
LEMMA AgentTakesInv ==
    ASSUME IInv, AgentTakes
    PROVE  IInv'
  <1> DEFINE h == Head(session)
             t == Head(session).text
             run == Head(session).atPrompt
  <1>1. /\ UNCHANGED <<main, buf, typing, deferred, reports, idles, server, watch, loaded, overlapped, asked, finished,
                       reported, counters>>
        /\ agent.state = "prompt" /\ session # <<>> /\ session' = Tail(session)
        /\ unheeded' = unheeded \cup (IF t.kind = "clear" /\ ~run THEN {t.d} ELSE {})
    BY DEF AgentTakes, AgentFrame
  <1>2. \/ /\ run /\ t.kind = "clear" /\ idleRpc' = "called"
           /\ agent' = [agent EXCEPT !.state = "hook", !.on = 0, !.context = {}]
        \/ /\ run /\ t.kind = "skill" /\ idleRpc' = idleRpc
           /\ agent' = [agent EXCEPT !.state = "busy", !.on = t.d, !.context = agent.context \cup {t.d}]
        \/ /\ ~run \/ t.kind \in {"nudge", "human"}
           /\ agent' = [agent EXCEPT !.state = "busy"] /\ idleRpc' = idleRpc
    BY DEF AgentTakes
  <1>3. agent \in Agents /\ buf \in Buffers /\ pauses \in 0..MaxPauses /\ session \in Seq(Typed) /\ idleRpc = "none"
    BY <1>1 DEF IInv, TypeOK, AgentInv
  <1>4. /\ session' \in Seq(Typed) /\ 1 \in 1..Len(session) /\ h = session[1] /\ h \in Typed
        /\ \A i \in 1..Len(session') : \E k \in 1..Len(session) : session'[i] = session[k]
    BY <1>1, <1>3, TailTyped
  <1>5. t \in Text /\ run \in BOOLEAN
    BY <1>4, TypedTyped
  <1>6. t.kind = "skill" => t = Skill(t.d) /\ t.d \in Dispatch /\ Pending(t.d)
    <2> SUFFICES ASSUME t.kind = "skill" PROVE t = Skill(t.d) /\ t.d \in Dispatch /\ Pending(t.d)
      OBVIOUS
    <2>1. t = Skill(t.d) /\ t.d \in Dispatch
      BY <1>5, SkillText
    <2>2. session[1].text = Skill(t.d)
      BY <1>4, <2>1
    <2> QED
      BY <1>4, <2>1, <2>2 DEF Pending
  <1>7. \A d : Pending(d)' => Pending(d)
    BY <1>1, <1>4 DEF Pending
  <1>8. Alone' => Alone /\ (Clearing \/ Sent \/ Working)
    BY <1>1, StageOf DEF Alone
  <1>9. /\ Clearing => t = Clear(loaded) /\ session' = <<>>
        /\ Sent => run /\ t = Skill(loaded) /\ session' = <<>>
    <2>1. \A y : Head(<<y>>) = y /\ Tail(<<y>>) = <<>>
      OBVIOUS
    <2>2. \A y : [text |-> y, atPrompt |-> TRUE].text = y /\ [text |-> y, atPrompt |-> TRUE].atPrompt
      OBVIOUS
    <2>3. Clearing => t = Clear(loaded) /\ session' = <<>>
      <3> SUFFICES ASSUME Clearing PROVE t = Clear(loaded) /\ session' = <<>>
        OBVIOUS
      <3>1. PICK b \in BOOLEAN : session = <<[text |-> Clear(loaded), atPrompt |-> b]>>
        BY DEF Clearing
      <3>2. h = [text |-> Clear(loaded), atPrompt |-> b] /\ session' = <<>>
        BY <1>1, <2>1, <3>1, Zenon
      <3>3. \A y : [text |-> y, atPrompt |-> b].text = y
        OBVIOUS
      <3> QED
        BY <3>2, <3>3, Zenon
    <2>4. Sent => h = [text |-> Skill(loaded), atPrompt |-> TRUE] /\ session' = <<>>
      BY <1>1, <2>1, Zenon DEF Sent
    <2> QED
      BY <2>2, <2>3, <2>4, Zenon
  <1>10. (Clearing => t.kind = "clear" /\ t.d = loaded) /\ (Sent => t.kind = "skill" /\ t.d = loaded) /\ (Working => t.kind = "nudge")
    <2>1. Working => t.kind = "nudge"
      BY <1>4 DEF Working, Nudges
    <2> QED
      BY <1>9, <2>1, TextFields
  <1>11. /\ loaded' = loaded /\ overlapped' = overlapped /\ finished' = finished /\ unheeded \subseteq unheeded'
         /\ t.kind = "clear" /\ ~run => t.d \in unheeded'
         /\ unheeded' \subseteq Dispatch /\ (Behind' => Behind)
    <2>1. unheeded \subseteq Dispatch
      BY DEF IInv, TypeOK
    <2>2. t.kind = "clear" => t.d \in Dispatch
      BY <1>5, TextTyped
    <2> QED
      BY <1>1, <2>1, <2>2, BehindKept
  <1>12. Nudges => Nudges'
    BY <1>1, <1>4 DEF Nudges
  <1> HIDE DEF t, run, h
  <1>13. /\ agent' \in Agents /\ agent'.state \in {"hook", "busy"} /\ idleRpc' \in {"none", "called"}
         /\ idleRpc' = "none" <=> agent'.state # "hook"
         /\ StageInv' /\ ContextInv'
    <2>1. CASE /\ run /\ t.kind = "clear" /\ idleRpc' = "called"
               /\ agent' = [agent EXCEPT !.state = "hook", !.on = 0, !.context = {}]
      <3>1. /\ agent' \in Agents /\ agent'.state = "hook" /\ agent'.on = 0 /\ agent'.context = {}
            /\ agent'.job = agent.job
        BY <1>3, <2>1, AgentCleared, Zenon
      <3>2. Clearing => Cleared'
        <4> SUFFICES ASSUME Clearing PROVE Cleared'
          OBVIOUS
        <4>1. Awaiting' /\ buf'.commands # <<>> /\ deferred' = <<>>
          BY <1>1, <3>1 DEF Clearing, Awaiting
        <4>2. session' = <<>> /\ typing' = <<>>
          BY <1>1, <1>9 DEF Clearing
        <4> QED
          BY <2>1, <3>1, <4>1, <4>2 DEF Cleared
      <3>3. StageInv'
        BY <1>8, <1>10, <2>1, <3>2 DEF StageInv
      <3>4. ContextInv'
        BY <1>7, <1>11, <3>1, ContextKept
      <3> QED
        BY <2>1, <3>1, <3>3, <3>4
    <2>2. CASE /\ run /\ t.kind = "skill" /\ idleRpc' = idleRpc
               /\ agent' = [agent EXCEPT !.state = "busy", !.on = t.d, !.context = agent.context \cup {t.d}]
      <3>1. t.d \in Dispatch /\ Pending(t.d)
        BY <1>6, <2>2
      <3>2. agent' \in Agents /\ agent'.state = "busy" /\ agent'.on = t.d /\ agent'.context = agent.context \cup {t.d}
        <4>1. PICK d \in Dispatch : d = t.d
          BY <3>1
        <4>2. PICK c \in SUBSET Dispatch : c = agent.context \cup {d}
          BY <1>3, AgentFields
        <4>3. agent' = [agent EXCEPT !.state = "busy", !.on = d, !.context = c] /\ d \in 0..MaxDispatches
          BY <2>2, <4>1, <4>2, LimitsTyped
        <4>4. agent' \in Agents /\ agent'.state = "busy" /\ agent'.on = d /\ agent'.context = c
          BY <1>3, <4>3 DEF Agents
        <4> QED
          BY <4>1, <4>2, <4>4
      <3>3. Sent => Working'
        <4> SUFFICES ASSUME Sent PROVE Working'
          OBVIOUS
        <4>1. t.d = loaded /\ session' = <<>>
          BY <1>9, <1>10
        <4>2. buf'.commands = <<>> /\ ~buf'.complete /\ deferred' = <<>> /\ typing' = <<>>
          BY <1>1 DEF Sent, Awaiting
        <4>3. Len(<<>>) = 0
          OBVIOUS
        <4>4. Nudges'
          BY <4>1, <4>2, <4>3 DEF Nudges
        <4> QED
          BY <1>11, <3>2, <4>1, <4>2, <4>4 DEF Working
      <3>4. StageInv'
        BY <1>8, <1>10, <2>2, <3>3 DEF StageInv
      <3>5. ContextInv'
        <4>1. unheeded' = unheeded
          BY <1>1, <2>2
        <4>2. CASE t.d \in overlapped
          <5>1. Known' = Known
            BY <1>11, <3>2, <4>2 DEF Known
          <5> QED
            BY <1>7, <1>11, <3>2, <4>1, <4>2, <5>1 DEF IInv, ContextInv
        <4>3. CASE t.d \notin overlapped
          <5>1. /\ t.d \in unheeded \/ Known \subseteq {t.d}
                /\ \A e \in Dispatch \ overlapped : Pending(e) => e = t.d
                /\ ~Behind
            BY <3>1, <4>3 DEF IInv, ContextInv
          <5>2. t.d \in unheeded \/ Known' \subseteq {t.d}
            BY <1>11, <3>2, <5>1 DEF Known
          <5>3. \A e \in Dispatch \ overlapped' : Pending(e)' => e = t.d
            BY <1>7, <1>11, <5>1
          <5> QED
            BY <1>11, <3>2, <4>1, <5>1, <5>2, <5>3 DEF ContextInv
        <4> QED
          BY <4>2, <4>3
      <3> QED
        BY <1>3, <2>2, <3>2, <3>4, <3>5
    <2>3. CASE /\ ~run \/ t.kind \in {"nudge", "human"}
               /\ agent' = [agent EXCEPT !.state = "busy"] /\ idleRpc' = idleRpc
      <3>1. "busy" \in States
        BY DEF States
      <3>2. agent' \in Agents /\ agent'.state = "busy" /\ agent'.on = agent.on /\ agent'.context = agent.context
        BY <1>3, <2>3, <3>1, AgentMoved, ZenonT(40)
      <3>3. ~Sent /\ (Clearing => loaded \in unheeded')
        BY <1>9, <1>10, <1>11, <2>3
      <3>4. Alone' => Alone /\ Working
        BY <1>8, <1>11, <3>3 DEF Alone
      <3>5. StageInv'
        BY <1>1, <1>11, <1>12, <3>2, <3>4, WorkingKept
      <3>6. ContextInv'
        BY <1>7, <1>11, <3>2, ContextKept
      <3> QED
        BY <1>3, <2>3, <3>2, <3>5, <3>6
    <2> QED
      BY <1>2, <2>1, <2>2, <2>3
  <1>14. UNCHANGED <<dispatches, redrives, faults, pauses, loose>>
    BY <1>1 DEF counters
  <1> QED
    BY <1>1, <1>3, <1>4, <1>11, <1>13, <1>14, AgentStepInv

-----------------------------------------------------------------------------

LEMMA InvStep == IInv /\ [Next]_vars => IInv'
  <1> SUFFICES ASSUME IInv, [Next]_vars PROVE IInv'
    OBVIOUS
  <1>1. CASE UNCHANGED vars
    <2>1. UNCHANGED <<main, buf, idleRpc, typing, deferred, session, agent, reports, idles, server, watch, observed,
                      counters>>
      BY <1>1 DEF vars
    <2>2. TypeOK'
      BY <2>1 DEF IInv, TypeOK, observed, counters
    <2>3. AgentInv' /\ BufferInv'
      BY <2>1 DEF IInv, AgentInv, BufferInv, observed, counters
    <2>4. StageInv' /\ ContextInv'
      BY <2>1, StageSame DEF observed
    <2> QED
      BY <2>2, <2>3, <2>4 DEF IInv
  <1>2. CASE Implement \/ Design \/ AddressFeedbackTickets
    <2>1. \E step \in Steps : Load(step)
      BY <1>2, Zenon DEF Implement, Design, AddressFeedbackTickets, Steps
    <2> QED
      BY <2>1, LoadInv
  <1>3. CASE Idle
    BY <1>3, IdlePopsInv, IdleReportsInv, IdleInv, IsStalledInv, HookReturnsInv DEF Idle
  <1>4. CASE Agent
    BY <1>4, StartInv, AgentTakesInv, TurnInv DEF Agent
  <1>5. CASE Start \/ SendMessage \/ TypeFirst \/ DeferredSend \/ ReportArrives \/ IdleArrives
    BY <1>5, StartInv, SendMessageInv, TypeFirstInv, DeferredSendInv, PlainInv
  <1>6. CASE StepComplete \/ PauseNudge \/ PauseEnds \/ RequestHuman
    BY <1>6, StepCompleteInv, TurnInv, PlainInv
  <1>7. CASE AgentExits \/ Watch \/ ProbeFailed
    BY <1>7, AgentExitsInv, WatchInv
  <1> QED
    BY <1>1, <1>2, <1>3, <1>4, <1>5, <1>6, <1>7 DEF Next

\* The invariant holds of every behaviour of workerd, whatever the server, the
\* agent, the human and the failing calls do and in whatever order.
THEOREM InvCorrect == Spec => []IInv
  BY InvInit, InvStep, PTL DEF Spec

\* Every variable of workerd (grpc_service.rs, exit_watcher.rs) holds a value of its kind.
THEOREM TypeCorrect == Spec => []TypeOK
  <1>1. IInv => TypeOK
    BY DEF IInv
  <1> QED
    BY <1>1, InvCorrect, PTL

\* workerd reports a step only when the agent called step-complete for that very
\* dispatch, unless another text was typed into it or its clear was answered as a
\* message (notify_idle, step_complete).
THEOREM ReportedIsFinishedCorrect == Spec => []ReportedIsFinished
  <1>1. IInv => ReportedIsFinished
    BY DEF IInv, BufferInv, ReportedIsFinished
  <1> QED
    BY <1>1, InvCorrect, PTL

\* The agent works on a dispatch in an emptied context, however late its hooks
\* return, whatever is lost and in whatever order handlers, tasks and calls run,
\* unless the clear was typed before the agent was back at its prompt and was
\* taken as a message: the skill waits for the idle report that follows the
\* clear, and no other skill is on its way then (dispatch_commands, implement,
\* notify_idle, spawn_deferred_send).
THEOREM FreshContextCorrect == Spec => []FreshContext
  <1>1. IInv => FreshContext
    BY DEF IInv, ContextInv, Known, FreshContext
  <1> QED
    BY <1>1, InvCorrect, PTL

\* The exit watcher stops the worker only when the agent is gone or a query of
\* the pane failed, although a shell is in the foreground before the agent has
\* started too (advance_agent_watch_state).
THEOREM StopsOnlyTheGoneCorrect == Spec => []StopsOnlyTheGone
  <1>1. IInv => StopsOnlyTheGone
    BY DEF IInv, AgentInv, StopsOnlyTheGone
  <1> QED
    BY <1>1, InvCorrect, PTL
=============================================================================
