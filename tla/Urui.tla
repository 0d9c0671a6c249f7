-------------------------------- MODULE Urui --------------------------------
(***************************************************************************)
(* The terminal interface (crates/urui).  It is written in the Elm style:  *)
(* update(model, msg) is a pure function to a new model and commands, the  *)
(* loop of main.rs applies one message at a time, and cmd_runner.rs runs   *)
(* every command in a task of its own that sends its answer back as a      *)
(* message.  So the variable ui is the model, the operators from Emit to   *)
(* Confirmed are the cases of update, an action is the arrival of one      *)
(* message, and requests is the bag of tasks under way: they answer in any *)
(* order, each with the state of the server at some moment since it was    *)
(* asked, or with an error.                                                *)
(*                                                                         *)
(* Tickets, workflows and workers share their ids.  A page of tickets or   *)
(* of activities is known by the number of changes it includes.  Left out: *)
(* rows and scrolling within a page (a row is chosen freely), banners,     *)
(* filters of the ticket list, themes, and the operations that only call   *)
(* the server, whose effect is a change of the server like any other.      *)
(***************************************************************************)
EXTENDS Naturals, Sequences, FiniteSets, SequencesExt, Bags

CONSTANTS
    Workflows,     \* number of workflows: their ids are 1..Workflows
    FlowPageSize,  \* rows on a page of the flow list (FLOW_PAGE_SIZE)
    Drafts,        \* tickets the user writes
    Changing,      \* workflows and workers that others change
    MaxInputs,     \* bound: keys pressed, changes and faults together
    MaxKeys,       \* bound: keys pressed
    MaxChanges,    \* bound: changes made on the server by others
    MaxFaults,     \* bound: requests that fail, losses of the event stream
    MaxRequests,   \* bound: requests under way when a key is pressed
    MaxDepth       \* bound: pages on a tab

ASSUME UruiAssumption ==
    /\ {Workflows, FlowPageSize} \subseteq Nat \ {0}
    /\ {MaxInputs, MaxKeys, MaxChanges, MaxFaults, MaxRequests, MaxDepth} \subseteq Nat
    /\ 0 \notin Drafts /\ Changing \subseteq 1..Workflows

Ids == 1..Workflows
NoId == 0
TabIds == <<"Tickets", "Flows", "Workers", "Help">>
Tabs == Range(TabIds)
Lists == {"tickets", "detail", "activities", "flows", "workers"}

VARIABLES
    ui,          \* the model
    requests,    \* commands being run, a bag
    server,      \* number of changes of tickets, and the states of the flows
                 \* and of the workers so far, the last one being the current
    events,      \* UI events on their way to the subscriber
    budget       \* keys, changes and faults so far

\* Observers: the newest state applied to each list; the lists that show an
\* older state for a reason the interface does not see (an answer overtaken by
\* a newer one, a lost event); workflows that stalled while they were followed
\* and were not announced since; the drafts written, those the user discarded,
\* those the interface dropped (Replaces, RefuseLocal), and the tickets made
\* from each.
VARIABLES newest, excused, unnoticed, written, discarded, dropped, made

observers == <<newest, excused, unnoticed, written, discarded, dropped, made>>
uiVars == <<ui, requests, server, events, budget, observers>>

-----------------------------------------------------------------------------
(* Model *)

\* LoadState.
NotLoaded == [state |-> "NotLoaded"]
Loading == [state |-> "Loading"]
Failed == [state |-> "Error"]
Loaded(d) == [state |-> "Loaded", data |-> d]
IsLoaded(l) == l.state = "Loaded"

\* PageId.
Page(kind, id) == [kind |-> kind, id |-> id]
RootPage == [Tickets |-> Page("TicketList", NoId), Flows |-> Page("FlowList", NoId),
             Workers |-> Page("WorkerList", NoId), Help |-> Page("HelpPage", NoId)]

\* The handlers a page puts on the input stack when it is initialised.
PageHandlers(page) ==
    CASE page.kind = "TicketActivities" -> <<"activities">>
      [] page.kind \in {"TicketBody", "HelpPage"} -> <<"scroll">>
      [] OTHER -> <<>>

NoDetail == [id |-> NoId, data |-> NotLoaded, closed |-> FALSE, rows |-> FALSE]
NoActivities == [id |-> NoId, data |-> NotLoaded, authors |-> FALSE, author |-> 0]
NoFlow == [id |-> NoId, status |-> "none"]
NoOverlay == [kind |-> "none"]

CurrentPage(u) == Last(u.stacks[u.tab])

\* A command and, once it runs, since when: arg is the page of flows asked for
\* (0 for all), the filter of the children or of the author (0 for none), or
\* whether a new ticket is dispatched too.
Fetch(what, id, arg) == [what |-> what, id |-> id, arg |-> arg]
Emit(u, cmds) == [u EXCEPT !.cmds = @ \o cmds]

-----------------------------------------------------------------------------
(* Fetches *)

FetchTickets == Fetch("tickets", NoId, 0)
FetchWorkers == Fetch("workers", NoId, 0)

\* build_detail_fetch_cmd.  The activities are fetched with the ticket for the
\* preview on its page, which is not kept here: only a fetch whose answer finds
\* the page of the activities open is a request.
Preview(u) ==
    IF u.activities.id = u.detail.id THEN <<Fetch("activities", u.detail.id, 0)>> ELSE <<>>
DetailFetches(u) ==
    <<Fetch("detail", u.detail.id, IF u.detail.closed THEN 0 ELSE 1)>> \o Preview(u)

\* build_flow_list_fetch_cmd: one page, unlike start_flow_list_fetch.
FlowPageFetch(u) == Fetch("flows", NoId, u.flowPage + 1)

\* start_ticket_detail_fetch.
StartDetail(u, i) ==
    LET v == [u EXCEPT !.detail = [id |-> i, data |-> Loading, rows |-> FALSE,
                                   closed |-> u.detail.id = i /\ u.detail.closed]]
    IN  Emit(v, DetailFetches(v))

\* start_activities_fetch.
StartActivities(u, i) ==
    Emit([u EXCEPT !.activities = [NoActivities EXCEPT !.id = i, !.data = Loading]],
         <<Fetch("activities", i, 0)>>)

\* init_flow_detail: from the list when it has the workflow.
InitFlowDetail(u, i) ==
    IF IsLoaded(u.flowList) /\ i \in DOMAIN u.flowList.data
    THEN [u EXCEPT !.flowDetail = [id |-> i, status |-> u.flowList.data[i]]]
    ELSE Emit([u EXCEPT !.flowDetail = NoFlow], <<Fetch("flow", i, 0)>>)

-----------------------------------------------------------------------------
(* Navigation *)

\* init_page of the current page.
InitPage(u) ==
    LET page == CurrentPage(u)
        v == [u EXCEPT !.handlers = @ \o PageHandlers(page)]
    IN  CASE page.kind = "TicketList" -> Emit([v EXCEPT !.ticketList = Loading], <<FetchTickets>>)
          [] page.kind = "TicketDetail" -> StartDetail(v, page.id)
          [] page.kind = "TicketActivities" -> StartActivities(v, page.id)
          [] page.kind = "FlowList" ->
                 Emit([v EXCEPT !.flowList = Loading], <<Fetch("flows", NoId, 0)>>)
          [] page.kind = "FlowDetail" -> InitFlowDetail(v, page.id)
          [] page.kind = "WorkerList" -> Emit([v EXCEPT !.workerList = Loading], <<FetchWorkers>>)
          [] page.kind \in {"TicketBody", "HelpPage"} -> v

\* InputStack::pop, count times.
PopHandlers(u, count) ==
    LET kept == IF Len(u.handlers) > count THEN Len(u.handlers) - count ELSE 0
    IN  [u EXCEPT !.handlers = SubSeq(@, 1, kept)]

Kinds(pages) == {pages[k].kind : k \in DOMAIN pages}
Leave(u, pages) ==
    [u EXCEPT !.activities = IF "TicketActivities" \in Kinds(pages) THEN NoActivities ELSE @,
              !.flowDetail = IF "FlowDetail" \in Kinds(pages) THEN NoFlow ELSE @]

\* Mutant: every page gives back a handler.
TeardownEvery(u, pages) == PopHandlers(Leave(u, pages), Len(pages))

\* teardown_page for each of some pages: the handlers it counts, none or one for
\* a page, are the topmost, whosever they are.
Teardown(u, pages) ==
    PopHandlers(Leave(u, pages), Cardinality({k \in DOMAIN pages : PageHandlers(pages[k]) # <<>>}))

Push(u, page) == InitPage([u EXCEPT !.stacks[u.tab] = Append(@, page)])

Pop(u) ==
    IF Len(u.stacks[u.tab]) <= 1 THEN u
    ELSE InitPage(Teardown([u EXCEPT !.stacks[u.tab] = Front(@)], <<CurrentPage(u)>>))

\* Every page of the tab is torn down, the root too.
PopToRoot(u) ==
    InitPage(Teardown([u EXCEPT !.stacks[u.tab] = <<Head(@)>>], u.stacks[u.tab]))

\* Only the root of the tab that is left is torn down.
SwitchTab(u, tab) ==
    IF u.tab = tab THEN PopToRoot(u)
    ELSE InitPage([Teardown(u, <<Head(u.stacks[u.tab])>>) EXCEPT !.tab = tab])

NextTab(tab) ==
    LET n == CHOOSE k \in 1..4 : TabIds[k] = tab IN TabIds[(n % 4) + 1]

\* handle_goto_selected.
GotoSelected(u, screen, i) ==
    CASE screen = "ticket" -> Push(u, Page("TicketDetail", i))
      [] screen = "flow" -> Push(SwitchTab(u, "Flows"), Page("FlowDetail", i))
      [] screen = "worker" -> SwitchTab(u, "Workers")

-----------------------------------------------------------------------------
(* Events and the throttle *)

ShouldFlush(u) == u.dirty # {} /\ ~u.cooling

\* fetch_cmd_for_tab: the fetches of an open ticket take no filter.
TabFetches(u, tab) ==
    CASE tab = "Tickets" ->
             <<FetchTickets>> \o
             (IF u.detail = NoDetail THEN <<>>
              ELSE <<Fetch("detail", u.detail.id, 0)>> \o Preview(u))
      [] tab = "Flows" -> <<FlowPageFetch(u)>>
      [] tab = "Workers" -> <<FetchWorkers>>

InvalidateTabs(u, tabs) ==
    [u EXCEPT !.ticketList = IF "Tickets" \in tabs THEN NotLoaded ELSE @,
              !.flowList = IF "Flows" \in tabs THEN NotLoaded ELSE @,
              !.workerList = IF "Workers" \in tabs THEN NotLoaded ELSE @]

\* flush_throttle: the tab on the screen is fetched again, the others are
\* fetched when they are shown; workflows out of sight are asked for one by one.
FlushThrottle(u) ==
    LET shown == IF u.tab \in u.dirty THEN TabFetches(u, u.tab) ELSE <<>>
        unseen == IF "Flows" \in u.dirty \ {u.tab}
                  THEN [k \in 1..Cardinality(u.changed) |->
                            Fetch("notify", SetToSeq(u.changed)[k], 0)]
                  ELSE <<>>
    IN  Emit([InvalidateTabs(u, u.dirty \ {u.tab}) EXCEPT
                  !.dirty = {}, !.changed = {}, !.cooling = TRUE],
             shown \o unseen)

DirtyTabs(event) ==
    CASE event.type = "ticket" -> {"Tickets", "Flows"}
      [] event.type = "workflow" -> {"Flows"}
      [] event.type = "worker" -> {"Workers"}

\* Mutant: the ids of the workflows are not recorded.
MarkedTabs(u, batch) ==
    LET v == [u EXCEPT !.dirty = @ \cup UNION {DirtyTabs(e) : e \in batch}]
    IN  IF ShouldFlush(v) THEN FlushThrottle(v) ELSE v

\* handle_ui_event.
Marked(u, batch) ==
    LET v == [u EXCEPT !.dirty = @ \cup UNION {DirtyTabs(e) : e \in batch},
                       !.changed = @ \cup {e.id : e \in {f \in batch : f.type = "workflow"}}]
    IN  IF ShouldFlush(v) THEN FlushThrottle(v) ELSE v

\* handle_tick.
Ticked(u) == IF ShouldFlush(u) THEN FlushThrottle(u) ELSE u

-----------------------------------------------------------------------------
(* Answers *)

\* process_flow_updates: a workflow seen for the first time is only recorded.
Announced(u, flows) ==
    {i \in DOMAIN flows : u.known[i] = "going" /\ flows[i] = "stalled"}
Followed(u, flows) ==
    [u EXCEPT !.known = [i \in Ids |-> IF i \in DOMAIN flows THEN flows[i] ELSE @[i]]]

\* The flows of an answer to a fetch of one page or of all, and of one workflow.
OnPage(arg) ==
    {i \in Ids : arg = 0 \/ (i > (arg - 1) * FlowPageSize /\ i <= arg * FlowPageSize)}
AnsweredFlows(v, arg) == [i \in OnPage(arg) |-> server.flows[v][i]]
AnsweredFlow(v, id) == [i \in {id} |-> server.flows[v][i]]

\* page_slice: the rows shown are cut out of the list by position.
Position(i, ids) == Cardinality({j \in ids : j <= i})
ShownFlows(u) ==
    {i \in DOMAIN u.flowList.data : Position(i, DOMAIN u.flowList.data) \in
         (u.flowPage * FlowPageSize + 1)..((u.flowPage + 1) * FlowPageSize)}

\* FlowsLoaded: what init_flow_detail would fetch is dropped here.
FlowsLoaded(u, flows) ==
    LET v == [Followed(u, flows) EXCEPT !.flowList = Loaded(flows)]
    IN  IF v.flowDetail = NoFlow THEN v
        ELSE [InitFlowDetail(v, v.flowDetail.id) EXCEPT !.cmds = u.cmds]

\* ActivitiesLoaded: matched by ticket, not by author.
ActivitiesLoaded(u, r, v) ==
    IF u.activities.id # r.id THEN u
    ELSE [u EXCEPT !.activities.data = Loaded([rev |-> v, arg |-> r.arg]),
                   !.activities.authors = @ \/ u.activities.author = 0]

\* DetailLoaded: applied to whatever ticket is open.
DetailLoaded(u, r, v) ==
    IF u.detail = NoDetail THEN u
    ELSE [u EXCEPT !.detail.data = Loaded([id |-> r.id, rev |-> v, arg |-> r.arg]),
                   !.detail.rows = TRUE]

\* handle_data for an answer that was read from version v.
Answered(u, r, v) ==
    CASE r.what = "tickets" -> [u EXCEPT !.ticketList = Loaded(v), !.rows = TRUE]
      [] r.what = "detail" -> DetailLoaded(u, r, v)
      [] r.what = "activities" -> ActivitiesLoaded(u, r, v)
      [] r.what = "flows" -> FlowsLoaded(u, AnsweredFlows(v, r.arg))
      [] r.what = "flow" -> [u EXCEPT !.flowDetail = [id |-> r.id, status |-> server.flows[v][r.id]]]
      [] r.what = "notify" -> Followed(u, AnsweredFlow(v, r.id))
      [] r.what = "workers" -> [u EXCEPT !.workerList = Loaded(server.workers[v])]

\* handle_data for an error.
Refused(u, r) ==
    CASE r.what = "tickets" -> [u EXCEPT !.ticketList = Failed]
      [] r.what = "detail" -> IF u.detail = NoDetail THEN u ELSE [u EXCEPT !.detail.data = Failed]
      [] r.what = "activities" ->
             IF u.activities.id = r.id THEN [u EXCEPT !.activities.data = Failed] ELSE u
      [] r.what = "flows" -> [u EXCEPT !.flowList = Failed]
      [] r.what \in {"flow", "notify"} -> u
      [] r.what = "workers" -> [u EXCEPT !.workerList = Failed]

\* Mutant: the ticket is not sent back with the error.
PreservedNot(r) == NoId

\* handle_ticket_op_result for Created: an error puts the menu of the ticket
\* back, in place of whatever overlay is open.
Preserved(r) == r.id
CreateFailed(u, r) ==
    LET pending == Preserved(r)
    IN  IF pending = NoId THEN u
        ELSE [u EXCEPT !.overlay = [kind |-> "create", id |-> pending]]

\* Mutant: no fetch after a failure.
WorkerStoppedOnly(u, ok) == IF ok THEN Emit(u, <<FetchWorkers>>) ELSE u

\* handle_worker_stopped: the list is fetched again after a failure too.
WorkerStopped(u, ok) == Emit(u, <<FetchWorkers>>)

-----------------------------------------------------------------------------
(* Messages *)

\* The version of what a request reads.
Version(s, what) ==
    CASE what \in {"tickets", "detail", "activities"} -> s.tickets
      [] what \in {"flows", "flow", "notify"} -> Len(s.flows)
      [] what = "workers" -> Len(s.workers)
      [] what \in {"create", "stop"} -> 0
Flows == Last(server.flows)
RunningWorkers == Last(server.workers)

\* The commands of the update are handed to cmd_runner, a task for each: a bag
\* with as many copies of a request as there are equal commands.
Task(cmd, s) == [cmd |-> cmd, since |-> Version(s, cmd.what)]
Started(cmds, s) ==
    [r \in {Task(cmds[k], s) : k \in DOMAIN cmds} |->
        Cardinality({k \in DOMAIN cmds : Task(cmds[k], s) = r})]
Runs(done, u) ==
    /\ ui' = [u EXCEPT !.cmds = <<>>]
    /\ requests' = (requests (-) done) (+) Started(u.cmds, server')

UiInit ==
    LET start == [tab |-> "Tickets", stacks |-> [t \in Tabs |-> <<RootPage[t]>>],
                  handlers |-> <<"global">>, ticketList |-> NotLoaded, rows |-> FALSE,
                  detail |-> NoDetail, activities |-> NoActivities, flowList |-> NotLoaded,
                  flowPage |-> 0, flowDetail |-> NoFlow, workerList |-> NotLoaded,
                  dirty |-> {}, changed |-> {}, cooling |-> FALSE,
                  known |-> [i \in Ids |-> "unseen"], overlay |-> NoOverlay, cmds |-> <<>>]
    IN  /\ ui = [InitPage(start) EXCEPT !.cmds = <<>>]
        /\ requests = SetToBag({[cmd |-> FetchTickets, since |-> 0]})
        /\ server = [tickets |-> 0, flows |-> <<[i \in Ids |-> "going"]>>, workers |-> <<Ids>>]
        /\ events = {}
        /\ budget = [keys |-> 0, changes |-> 0, faults |-> 0]
        /\ newest = [k \in Lists |-> 0]
        /\ excused = {} /\ unnoticed = {} /\ written = {} /\ discarded = {}
        /\ dropped = {}
        /\ made = [d \in Drafts |-> 0]

Inputs == budget.keys + budget.changes + budget.faults
Pressed ==
    /\ Inputs < MaxInputs /\ budget.keys < MaxKeys
    /\ BagCardinality(requests) <= MaxRequests
    /\ budget' = [budget EXCEPT !.keys = @ + 1]

\* A key that update turns into the model u: an overlay takes every key.
Key(u) ==
    /\ Pressed
    /\ UNCHANGED <<server, events, observers>>
    /\ Runs(EmptyBag, u)

PageKey(u) == ui.overlay = NoOverlay /\ Key(u)

\* A handler anywhere on the input stack takes its keys from the pages and
\* from the global handler below it: f and r are keys of the activities page,
\* h and l of every handler.
Captures == Range(ui.handlers)
Room == Len(ui.stacks[ui.tab]) < MaxDepth

TabKey(tab) ==
    /\ tab = "Flows" => "activities" \notin Captures
    /\ PageKey(SwitchTab(ui, tab))
TabNext == PageKey(SwitchTab(ui, NextTab(ui.tab)))
Back == PageKey(Pop(ui))

SelectTicket(i) ==
    /\ CurrentPage(ui).kind = "TicketList" /\ ui.rows
    /\ PageKey(Push(ui, Page("TicketDetail", i)))
SelectChild(i) ==
    /\ CurrentPage(ui).kind = "TicketDetail" /\ ui.detail.rows /\ i # ui.detail.id /\ Room
    /\ PageKey(Push(ui, Page("TicketDetail", i)))
SelectFlow(i) ==
    /\ CurrentPage(ui).kind = "FlowList" /\ IsLoaded(ui.flowList) /\ i \in ShownFlows(ui)
    /\ PageKey(Push(ui, Page("FlowDetail", i)))

\* The pages of a ticket take its id from what was loaded.
OpenTicketPage(kind) ==
    /\ CurrentPage(ui).kind = "TicketDetail" /\ IsLoaded(ui.detail.data) /\ Room
    /\ PageKey(Push(ui, Page(kind, ui.detail.data.data.id)))

ToggleClosed ==
    /\ CurrentPage(ui).kind = "TicketDetail"
    /\ LET u == [ui EXCEPT !.detail.closed = ~@, !.detail.data = Loading]
       IN  PageKey(Emit(u, DetailFetches(u)))

\* The key r.
Refreshed(u) ==
    LET kind == CurrentPage(u).kind
    IN  CASE "activities" \in Captures ->
                 IF u.activities = NoActivities THEN u
                 ELSE Emit([u EXCEPT !.activities.data = Loading],
                           <<Fetch("activities", u.activities.id, u.activities.author)>>)
          [] "activities" \notin Captures /\ kind = "TicketList" ->
                 Emit([u EXCEPT !.ticketList = Loading], <<FetchTickets>>)
          [] "activities" \notin Captures /\ kind = "TicketDetail" ->
                 Emit([u EXCEPT !.detail.data = Loading], DetailFetches(u))
          [] "activities" \notin Captures /\ kind = "FlowList" ->
                 Emit([u EXCEPT !.flowList = Loading], <<FlowPageFetch(u)>>)
          [] "activities" \notin Captures /\ kind = "WorkerList" ->
                 Emit([u EXCEPT !.workerList = Loading], <<FetchWorkers>>)
          [] OTHER -> u
Refresh == Refreshed(ui) # ui /\ PageKey(Refreshed(ui))

\* activities_cycle_filter, with one author besides "all".
CycleFilter ==
    /\ "activities" \in Captures /\ ui.activities # NoActivities /\ ui.activities.authors
    /\ LET author == 1 - ui.activities.author
       IN  PageKey(Emit([ui EXCEPT !.activities.author = author, !.activities.data = Loading],
                        <<Fetch("activities", ui.activities.id, author)>>))

\* flows_page_right and flows_page_left: no fetch, the list is cut again.
TurnFlowPage(page) ==
    /\ CurrentPage(ui).kind = "FlowList" /\ ui.handlers = <<"global">>
    /\ IsLoaded(ui.flowList)
    /\ page \in {ui.flowPage + 1, ui.flowPage - 1}
    /\ page > ui.flowPage => page * FlowPageSize < Workflows
    /\ PageKey([ui EXCEPT !.flowPage = page])

\* handle_kill: the row goes before the worker does.
KillWorker(i) ==
    /\ CurrentPage(ui).kind = "WorkerList" /\ IsLoaded(ui.workerList) /\ i \in ui.workerList.data
    /\ PageKey(Emit([ui EXCEPT !.workerList.data = @ \ {i}], <<Fetch("stop", i, 0)>>))

\* What the goto menu of the current page is about.
GotoIds ==
    LET kind == CurrentPage(ui).kind
    IN  CASE kind = "TicketList" /\ ui.rows -> Ids
          [] kind = "TicketDetail" /\ ui.detail.rows -> Ids
          [] kind = "FlowList" /\ IsLoaded(ui.flowList) -> ShownFlows(ui)
          [] kind = "FlowDetail" /\ ui.flowDetail # NoFlow -> {ui.flowDetail.id}
          [] kind = "WorkerList" /\ IsLoaded(ui.workerList) -> ui.workerList.data
          [] OTHER -> {}
GotoScreens ==
    CASE CurrentPage(ui).kind \in {"FlowList", "FlowDetail"} -> {"ticket", "worker"}
      [] CurrentPage(ui).kind = "WorkerList" -> {"ticket", "flow"}
      [] OTHER -> {"ticket", "flow", "worker"}
OpenGoto(i) == i \in GotoIds /\ PageKey([ui EXCEPT !.overlay = [kind |-> "goto", id |-> i]])
SelectGoto(screen) ==
    /\ ui.overlay.kind = "goto" /\ screen \in GotoScreens /\ Room
    /\ Key(GotoSelected([ui EXCEPT !.overlay = NoOverlay], screen, ui.overlay.id))
CancelGoto == ui.overlay.kind = "goto" /\ Key([ui EXCEPT !.overlay = NoOverlay])

\* The loop waits for the editor, so the menu opens in the step of the key.
Compose(d) ==
    /\ CurrentPage(ui).kind \in {"TicketList", "TicketDetail"} /\ d \notin written
    /\ ui.overlay = NoOverlay /\ Pressed
    /\ UNCHANGED server
    /\ Runs(EmptyBag, [ui EXCEPT !.overlay = [kind |-> "create", id |-> d]])
    /\ written' = written \cup {d}
    /\ UNCHANGED <<events, newest, excused, unnoticed, discarded, dropped, made>>

\* handle_create_action: create, or create and dispatch.
Create(dispatch) ==
    /\ ui.overlay.kind = "create"
    /\ Key(Emit([ui EXCEPT !.overlay = NoOverlay],
                <<Fetch("create", ui.overlay.id, dispatch)>>))

MenuCloses ==
    /\ ui.overlay.kind = "create" /\ Pressed
    /\ Runs(EmptyBag, [ui EXCEPT !.overlay = NoOverlay])
    /\ UNCHANGED <<server, events, newest, excused, unnoticed, written, made>>

\* A dispatch into a local project (of what project a draft is, is chosen
\* freely): a banner, and the menu is closed by then.
RefuseLocal ==
    /\ MenuCloses
    /\ dropped' = dropped \cup {ui.overlay.id} /\ UNCHANGED discarded
Abandon ==
    /\ MenuCloses
    /\ discarded' = discarded \cup {ui.overlay.id} /\ UNCHANGED dropped

\* The editor gives the ticket back and its menu opens again, or it fails or
\* the user leaves nothing in it.
Edit ==
    \/ ui.overlay.kind = "create" /\ Key(ui)
    \/ Abandon

-----------------------------------------------------------------------------
(* The server, the event stream and time *)

Fault == Inputs < MaxInputs /\ budget.faults < MaxFaults /\ budget' = [budget EXCEPT !.faults = @ + 1]

ServerBecomes(s, type, id) ==
    /\ server' = s
    /\ events' = events \cup {[type |-> type, id |-> id]}

TicketWritten == [server EXCEPT !.tickets = @ + 1]
WorkersNow(workers) == [server EXCEPT !.workers = Append(@, workers)]

\* Others change the server.
Changed ==
    /\ Inputs < MaxInputs /\ budget.changes < MaxChanges
    /\ budget' = [budget EXCEPT !.changes = @ + 1]
    /\ UNCHANGED <<ui, requests, newest, excused, written, discarded, dropped, made>>
TicketChanges ==
    /\ Changed /\ UNCHANGED unnoticed
    /\ ServerBecomes(TicketWritten, "ticket", NoId)
FlowChanges(i) ==
    /\ Changed
    /\ LET status == IF Flows[i] = "going" THEN "stalled" ELSE "going"
       IN  ServerBecomes([server EXCEPT !.flows = Append(@, [Flows EXCEPT ![i] = status])],
                   "workflow", i)
    /\ unnoticed' = IF Flows[i] = "going" /\ ui.known[i] = "going"
                    THEN unnoticed \cup {i} ELSE unnoticed \ {i}
WorkerChanges(i) ==
    /\ Changed /\ UNCHANGED unnoticed
    /\ ServerBecomes(WorkersNow(IF i \in RunningWorkers THEN RunningWorkers \ {i} ELSE RunningWorkers \cup {i}), "worker", i)

UiEvent ==
    /\ events # {}
    /\ events' = {}
    /\ UNCHANGED server
    /\ Runs(EmptyBag, Marked(ui, events))
    /\ UNCHANGED <<budget, observers>>

\* The stream breaks: what was on its way is lost and nothing is fetched again
\* when ui_event_subscription_loop has a new one.
StreamLost ==
    /\ events # {} /\ Fault
    /\ events' = {}
    /\ excused' = excused \cup {k \in Lists : \E e \in events :
                      k \in (CASE e.type = "ticket" -> {"tickets", "detail", "activities", "flows"}
                               [] e.type = "workflow" -> {"flows"}
                               [] e.type = "worker" -> {"workers"})}
    /\ unnoticed' = unnoticed \ {e.id : e \in events}
    /\ UNCHANGED <<ui, requests, server, newest, written, discarded, dropped, made>>

CooldownEnds ==
    /\ ui.cooling
    /\ ui' = [ui EXCEPT !.cooling = FALSE]
    /\ UNCHANGED <<requests, server, events, budget, observers>>

Tick ==
    /\ Ticked(ui) # ui
    /\ UNCHANGED server
    /\ Runs(EmptyBag, Ticked(ui))
    /\ UNCHANGED <<events, budget, observers>>

-----------------------------------------------------------------------------
(* Answers arrive *)

Fetches == {r \in BagToSet(requests) : r.cmd.what \notin {"create", "stop"}}

\* Version v of what r asked for reaches the model; activities of another
\* ticket than the one on the screen are not applied.
Observed(r, v) ==
    LET what == r.cmd.what
        other == what = "detail" /\ ui.detail.id # r.cmd.id
    IN  IF what \notin Lists \/ (what = "activities" /\ ui.activities.id # r.cmd.id)
        THEN UNCHANGED <<newest, excused>>
        ELSE /\ newest' = IF v > newest[what] THEN [newest EXCEPT ![what] = v] ELSE newest
             /\ excused' = IF v < newest[what] \/ other
                           THEN excused \cup {what} ELSE excused

Answer(r) == \E v \in r.since..Version(server, r.cmd.what) :
    LET flows == CASE r.cmd.what = "flows" -> AnsweredFlows(v, r.cmd.arg)
                   [] r.cmd.what = "notify" -> AnsweredFlow(v, r.cmd.id)
                   [] OTHER -> <<>>
    IN  /\ UNCHANGED server
        /\ Runs(SetToBag({r}), Answered(ui, r.cmd, v))
        /\ Observed(r, v)
        /\ unnoticed' = unnoticed \ (Announced(ui, flows) \cup
                          {i \in Ids : r.cmd.what = "flows" /\ i \notin DOMAIN flows})
        /\ UNCHANGED <<events, budget, written, discarded, dropped, made>>

FetchFails(r) ==
    /\ Fault
    /\ UNCHANGED server
    /\ Runs(SetToBag({r}), Refused(ui, r.cmd))
    /\ Observed(r, Version(server, r.cmd.what))
    /\ unnoticed' = CASE r.cmd.what = "flows" -> {}
                      [] r.cmd.what = "notify" -> unnoticed \ {r.cmd.id}
                      [] OTHER -> unnoticed
    /\ UNCHANGED <<events, written, discarded, dropped, made>>

\* The menu on the screen is that of another ticket.
Replaces(r) ==
    dropped' = dropped \cup
        IF ui.overlay.kind = "create" /\ ui.overlay.id # r.cmd.id THEN {ui.overlay.id} ELSE {}

\* exec_create and exec_create_and_dispatch: done, failed before the ticket was
\* made, or failed after it: the error of a dispatch looks like the first.
Creates(r) ==
    /\ r.cmd.what = "create"
    /\ ServerBecomes(TicketWritten, "ticket", NoId)
    /\ Runs(SetToBag({r}), ui)
    /\ made' = [made EXCEPT ![r.cmd.id] = @ + 1]
    /\ UNCHANGED <<budget, newest, excused, unnoticed, written, discarded, dropped>>
CreateRefused(r) ==
    /\ r.cmd.what = "create" /\ Fault
    /\ UNCHANGED server
    /\ Runs(SetToBag({r}), CreateFailed(ui, r.cmd))
    /\ Replaces(r)
    /\ UNCHANGED <<events, newest, excused, unnoticed, written, discarded, made>>
DispatchRefused(r) ==
    /\ r.cmd.what = "create" /\ r.cmd.arg = 1 /\ Fault
    /\ ServerBecomes(TicketWritten, "ticket", NoId)
    /\ Runs(SetToBag({r}), CreateFailed(ui, r.cmd))
    /\ Replaces(r)
    /\ made' = [made EXCEPT ![r.cmd.id] = @ + 1]
    /\ UNCHANGED <<newest, excused, unnoticed, written, discarded>>

\* StopWorker.
Stops(r) ==
    /\ r.cmd.what = "stop"
    /\ ServerBecomes(WorkersNow(RunningWorkers \ {r.cmd.id}), "worker", r.cmd.id)
    /\ Runs(SetToBag({r}), WorkerStopped(ui, TRUE))
    /\ UNCHANGED <<budget, observers>>
StopFails(r) ==
    /\ r.cmd.what = "stop" /\ Fault
    /\ UNCHANGED server
    /\ Runs(SetToBag({r}), WorkerStopped(ui, FALSE))
    /\ UNCHANGED <<events, observers>>

Deliver ==
    \/ \E r \in Fetches : Answer(r)
    \/ \E r \in Fetches : FetchFails(r)
    \/ \E r \in BagToSet(requests) :
           \/ Creates(r) \/ CreateRefused(r) \/ DispatchRefused(r) \/ Stops(r) \/ StopFails(r)

UiNext ==
    \/ \E tab \in Tabs : TabKey(tab)
    \/ TabNext \/ Back \/ ToggleClosed \/ Refresh \/ CycleFilter
    \/ \E i \in Ids : SelectTicket(i) \/ SelectChild(i) \/ SelectFlow(i) \/ KillWorker(i)
                      \/ OpenGoto(i)
    \/ \E i \in Changing : FlowChanges(i) \/ WorkerChanges(i)
    \/ \E kind \in {"TicketActivities", "TicketBody"} : OpenTicketPage(kind)
    \/ \E page \in 0..Workflows : TurnFlowPage(page)
    \/ \E screen \in {"ticket", "flow", "worker"} : SelectGoto(screen)
    \/ CancelGoto \/ Abandon \/ Edit \/ RefuseLocal
    \/ \E d \in Drafts : Compose(d)
    \/ \E dispatch \in {0, 1} : Create(dispatch)
    \/ TicketChanges \/ UiEvent \/ StreamLost \/ CooldownEnds \/ Tick
    \/ Deliver

\* The timers run, the stream delivers and every call ends.
UiFairness ==
    /\ WF_uiVars(CooldownEnds) /\ WF_uiVars(Tick) /\ WF_uiVars(UiEvent)
    /\ WF_uiVars(\E r \in Fetches : Answer(r))

UiSpec == UiInit /\ [][UiNext]_uiVars /\ UiFairness

-----------------------------------------------------------------------------
(* Properties *)

Quiet == events = {} /\ ui.dirty = {} /\ requests = EmptyBag

Load(data) == {NotLoaded, Loading, Failed} \cup {Loaded(d) : d \in data}
Revisions == 0..MaxInputs

\* The model holds values of its types.
UiTypeOK ==
    /\ ui.tab \in Tabs
    /\ \A t \in Tabs : Len(ui.stacks[t]) \in 1..(MaxDepth + 1) /\ Head(ui.stacks[t]) = RootPage[t]
    /\ Range(ui.handlers) \subseteq {"global", "activities", "scroll"}
    /\ ui.ticketList \in Load(Revisions)
    /\ ui.workerList \in Load(SUBSET Ids)
    /\ ui.flowPage \in 0..(Workflows - 1)
    /\ ui.dirty \subseteq Tabs /\ ui.changed \subseteq Ids
    /\ ui.cooling \in BOOLEAN /\ ui.cmds = <<>>
    /\ \A i \in Ids : ui.known[i] \in {"unseen", "going", "stalled"}
    /\ ui.overlay.kind \in {"none", "goto", "create"}
    /\ IsABag(requests)
    /\ excused \subseteq Lists /\ unnoticed \subseteq Ids
    /\ discarded \subseteq written /\ written \subseteq Drafts

\* However tabs are switched and pages opened and left (navigation.rs), the
\* global handler stays at the bottom of the input stack, and a page that has
\* a handler of its own finds it on top.
OwnHandlerOnTop ==
    LET own == PageHandlers(CurrentPage(ui))
    IN  /\ ui.handlers # <<>>
        /\ Head(ui.handlers) = "global"
        /\ own = <<>> \/ own[1] = Last(ui.handlers)

\* Once every event was handled and every answer applied, a list, a ticket or
\* the activities on the screen are the current state of the server or an error:
\* events during the cooldown, tabs marked stale while hidden, workers whose
\* kill failed and pages opened again after others leave nothing old or loading
\* behind.  Only an answer overtaken by a newer one, an answer for another
\* ticket and a lost event may; and a ticket opened on another tab than its own,
\* or activities whose ticket is not the one opened last, are only as new as
\* their fetch, as no event has them fetched again.  The page of a workflow is
\* not covered, because this is false of it: see FlowPageCurrent.
FreshWhenQuiet ==
    LET page == CurrentPage(ui)
        own == ui.tab = "Tickets"
        Shows(list, load, data) == list \in excused \/ load \in {Failed, Loaded(data)}
    IN  Quiet =>
        CASE page.kind = "TicketList" -> Shows("tickets", ui.ticketList, server.tickets)
          [] page.kind = "FlowList" ->
                 \/ "flows" \in excused \/ ui.flowList = Failed
                 \/ /\ IsLoaded(ui.flowList)
                    /\ ui.flowList.data = Restrict(Flows, DOMAIN ui.flowList.data)
          [] page.kind = "WorkerList" -> Shows("workers", ui.workerList, RunningWorkers)
          [] page.kind = "TicketDetail" ->
                 \/ "detail" \in excused \/ ui.detail.data = Failed
                 \/ /\ IsLoaded(ui.detail.data)
                    /\ ui.detail.id = page.id /\ ui.detail.data.data.id = page.id
                    /\ own => ui.detail.data.data.rev = server.tickets
          [] page.kind = "TicketActivities" ->
                 \/ "activities" \in excused \/ ui.activities.data = Failed
                 \/ /\ IsLoaded(ui.activities.data) /\ ui.activities.id = page.id
                    /\ own /\ page.id # NoId /\ ui.detail.id = page.id =>
                           ui.activities.data.data.rev = server.tickets
          [] OTHER -> TRUE

\* A workflow that stalls after the interface first saw it is announced
\* whatever tab is shown and however events and answers are ordered
\* (flush_throttle, process_flow_updates), unless the stall ends first, the
\* answer is an error or of another page of the list, or the event is lost.
StallAnnounced == Quiet => unnoticed = {}

Kept(d) ==
    \/ made[d] > 0 \/ d \in discarded
    \/ ui.overlay = [kind |-> "create", id |-> d]
    \/ \E r \in BagToSet(requests) : r.cmd.what = "create" /\ r.cmd.id = d

\* "On error, the PendingTicket is preserved for retry" (msg.rs:530): a ticket
\* the user wrote is made, being made, on the screen or abandoned, however often
\* it fails, is edited and tried again.  The interface drops it in two ways that
\* EveryDraftKept does not excuse: the error of another one takes the place of
\* its menu, and a dispatch into a local project is refused.
DraftKept == \A d \in written \ dropped : Kept(d)

\* Tabs marked during a cooldown are refreshed without another event
\* (handle_tick).
DirtyFlushed == ui.dirty # {} ~> ui.dirty = {}

\* Violated.  "Handlers are pushed as components mount and popped when they
\* unmount" (input.rs:49).
HandlersMatchPages == ui.handlers = <<"global">> \o PageHandlers(CurrentPage(ui))

\* Violated.  DraftKept without the exceptions.
EveryDraftKept == \A d \in written : Kept(d)

\* Violated.  "creating-then-failing would leave a stray ticket"
\* (overlay_update.rs:908): a draft becomes one ticket.
NoStrayTicket == \A d \in Drafts : made[d] <= 1

\* Violated.  "client-side slice since server returns full list"
\* (flows_list.rs:240-241): a page of the flow list that exists has rows.
PageHasRows ==
    CurrentPage(ui).kind = "FlowList" /\ IsLoaded(ui.flowList) => ShownFlows(ui) # {}

\* Violated.  The ticket page shows the ticket it was opened for.
DetailIsItsTicket ==
    Quiet /\ CurrentPage(ui).kind = "TicketDetail" /\ IsLoaded(ui.detail.data)
        => ui.detail.data.data.id = CurrentPage(ui).id

\* Violated.  "Otherwise, issues a gRPC fetch to load the workflow by ticket ID"
\* (flow_detail.rs:22-23): the page of a workflow shows it as it is.
\* handle_data drops that fetch when a page of the list without the workflow
\* comes in, and the list that answers for it may be older than its tab's mark.
FlowPageCurrent ==
    Quiet /\ CurrentPage(ui).kind = "FlowDetail" /\ "flows" \notin excused =>
        ui.flowDetail = [id |-> CurrentPage(ui).id, status |-> Flows[CurrentPage(ui).id]]

\* Violated.  Closed children are hidden until the user asks for them.
ClosedHidden ==
    Quiet /\ CurrentPage(ui).kind = "TicketDetail" /\ IsLoaded(ui.detail.data)
        => ui.detail.data.data.arg = (IF ui.detail.closed THEN 0 ELSE 1)

=============================================================================
