------------------------------ MODULE Console ------------------------------
(* The terminal console (src/src/tui.rs): the UI thread with its list, filter *)
(* and log drawer, the one backend worker thread, the two channels between    *)
(* them, and BackendCtl, the gate that decides which job is sent and which    *)
(* answer is still wanted.                                                    *)
(*                                                                            *)
(* The UI loop drains all the events, draws, then waits for one input or for  *)
(* the poll to run out: "drain" is the part of the loop up to the drawing,    *)
(* and what is drawn is the state in phase "poll".                            *)
EXTENDS Integers, FiniteSets, SequencesExt

CONSTANTS
    Unit,        \* the operations a snapshot can list
    TitleOrder,  \* all of them once, by title and then by unit name
    NameOrder,   \* all of them once, by unit name
    View,        \* the snapshots scope::show_resolved can return
    LoadingView, \* the empty one the console starts with
    Filter,      \* what a filter text can match, as sets of units
    Pane,        \* the panes other than the cockpit: wiring and topology
    None, Dead,  \* no value; the state of a worker that panicked
    Header,      \* "OWNED", "WATCHING" or "all quiet"
    Gens, LogGens  \* bounds: generations are counted modulo these

\* s lists every operation once.
IsOrder(s) ==
    /\ s \in Seq(Unit) /\ ToSet(s) = Unit
    /\ \A i, j \in 1..Len(s) : s[i] = s[j] => i = j

ASSUME OrderAssumption == IsOrder(TitleOrder) /\ IsOrder(NameOrder)
ASSUME ViewAssumption ==
    /\ View \subseteq [owned : SUBSET Unit, watching : SUBSET Unit, parent : [Unit -> Unit \cup {None}]]
    /\ Filter \subseteq SUBSET Unit
ASSUME GensAssumption == Gens \in Nat /\ Gens > 1 /\ LogGens \in Nat /\ LogGens > 1
ASSUME LoadingAssumption ==
    /\ LoadingView \in View
    /\ LoadingView.owned = {} /\ LoadingView.watching = {}

VARIABLES
    app,     \* App: what is shown
    gate,    \* BackendCtl
    jobs,    \* the channel to the worker
    events,  \* the channel back
    worker,  \* the job being run, None when it waits, Dead after a panic
    phase,   \* where the UI loop is: "drain", "poll" or "quit"
    sinceR   \* history: the refresh last taken by the worker was taken after
             \* the last key r

vars == <<app, gate, jobs, events, worker, phase, sinceR>>

Gen == 0..Gens - 1
LogGen == 0..LogGens - 1
Succ(g, n) == IF g + 1 = n THEN 0 ELSE g + 1

RefreshJob(g) == [kind |-> "refresh", gen |-> g, unit |-> None]
LogsJob(g, u) == [kind |-> "logs", gen |-> g, unit |-> u]
Job == [kind : {"refresh"}, gen : Gen, unit : {None}]
           \cup [kind : {"logs"}, gen : LogGen, unit : Unit]

ASSUME NoneAssumption ==
    None \notin Unit \cup Gen \cup LogGen \cup Job /\ Dead \notin Job \cup {None} /\ Header \notin Unit

-----------------------------------------------------------------------------
(* The list *)

\* The pieces of the units in S one after the other, in the given order.
Appended(order, S, piece, k, out) ==
    IF order[k] \in S THEN out \o piece[order[k]] ELSE out

Joined(order, S, piece) ==
    LET out[k \in 0..Len(order)] ==
            IF k = 0 THEN <<>> ELSE Appended(order, S, piece, k, out[k - 1])
    IN  out[Len(order)]

Sorted(order, S) == Joined(order, S, [u \in S |-> <<u>>])

Children(S, parent, u) == {c \in S : parent[c] = u}

\* The units below and including u in the order they are listed, given those of
\* its children: visit of hierarchy_rows.
Visit(S, parent, tree) ==
    [u \in S |-> <<u>> \o Joined(TitleOrder, Children(S, parent, u), tree)]

\* d levels deep, as many as there can be.
Subtrees(S, parent) ==
    LET tree[d \in 0..Len(TitleOrder)] ==
            IF d = 0 THEN [u \in S |-> <<u>>] ELSE Visit(S, parent, tree[d - 1])
    IN  tree[Len(TitleOrder)]

Roots(S, parent) == {u \in S : parent[u] \notin S}

\* A unit whose parent is not listed is a root; the units no root reaches (their
\* parents form a cycle) follow, each by itself.
HierarchyRows(S, parent) ==
    LET trees == Joined(TitleOrder, Roots(S, parent), Subtrees(S, parent))
    IN  trees \o Sorted(NameOrder, S \ ToSet(trees))

SectionedRows(owned, watching) ==
    IF watching # <<>> THEN <<Header>> \o owned \o <<Header>> \o watching
    ELSE IF owned # <<>> THEN owned
    ELSE <<Header>>

\* The rows the list holds for a snapshot and a filter.
Rows(v, f) ==
    SectionedRows(HierarchyRows(v.owned \cap f, v.parent), Sorted(TitleOrder, v.watching \cap f))

SelectedIn(a) ==
    IF a.sel \in DOMAIN a.rows /\ a.rows[a.sel] \in Unit THEN a.rows[a.sel] ELSE None

Selected == SelectedIn(app)

FirstRow(rows, Test(_)) ==
    LET hits == {i \in DOMAIN rows : Test(rows[i])}
    IN  IF hits = {} THEN 0 ELSE CHOOSE i \in hits : \A j \in hits : i <= j

\* Variant of RebuildRows: the selected position stays.
RebuildInPlace(a, v, f) == [a EXCEPT !.view = v, !.filter = f, !.rows = Rows(v, f)]

\* The list is built again from view v and filter f: the selected unit stays
\* selected if it is still listed, else the first one is.
RebuildRows(a, v, f) ==
    LET rows == Rows(v, f)
        keep == SelectedIn(a)
        kept == FirstRow(rows, LAMBDA r : keep # None /\ r = keep)
        first == FirstRow(rows, LAMBDA r : r \in Unit)
    IN  [a EXCEPT !.view = v, !.filter = f, !.rows = rows,
                  !.sel = IF kept # 0 THEN kept ELSE first]

MarkLogsNeeded(a) == IF a.diagnostics_open THEN [a EXCEPT !.want_logs = TRUE] ELSE a

\* The next row up or down that is an operation, around the ends.
MoveSel(a, dir) ==
    LET rows == a.rows
        cur == IF a.sel = 0 THEN 1 ELSE a.sel
        At(k) == ((cur - 1 + dir * k) % Len(rows)) + 1
        hops == {k \in 1..Len(rows) : rows[At(k)] \in Unit}
    IN  IF hops = {} THEN a
        ELSE MarkLogsNeeded(
                 [a EXCEPT !.sel = At(CHOOSE k \in hops : \A j \in hops : k <= j)])

ReplaceView(a, v) ==
    MarkLogsNeeded([RebuildRows(a, v, a.filter) EXCEPT !.last_error = "none", !.due = FALSE])

ToggleDetail(a, pane) ==
    [a EXCEPT !.detail_view = IF @ = pane THEN "cockpit" ELSE pane]

ToggleDiagnostics(a) ==
    IF a.diagnostics_open
    THEN [a EXCEPT !.diagnostics_open = FALSE, !.logs = None, !.want_logs = FALSE]
    ELSE MarkLogsNeeded([a EXCEPT !.diagnostics_open = TRUE])

-----------------------------------------------------------------------------
(* The gate. Every operator returns the gate and the jobs to send (at most one) *)

TryDispatchRefresh(g) ==
    IF g.busy \/ ~g.pending_refresh THEN [gate |-> g, send |-> <<>>]
    ELSE [gate |-> [g EXCEPT !.pending_refresh = FALSE, !.busy = TRUE,
                             !.refresh_inflight = g.refresh_wanted],
          send |-> <<RefreshJob(g.refresh_wanted)>>]

\* Variant of TryDispatchLogs: sent although the worker has a job.
TryDispatchLogsToo(g) ==
    IF g.pending_refresh \/ g.pending_logs = None
    THEN [gate |-> g, send |-> <<>>]
    ELSE [gate |-> [g EXCEPT !.pending_logs = None, !.busy = TRUE,
                             !.logs_inflight = g.logs_wanted],
          send |-> <<LogsJob(g.logs_wanted, g.pending_logs)>>]

TryDispatchLogs(g) ==
    IF g.busy \/ g.pending_refresh \/ g.pending_logs = None
    THEN [gate |-> g, send |-> <<>>]
    ELSE [gate |-> [g EXCEPT !.pending_logs = None, !.busy = TRUE,
                             !.logs_inflight = g.logs_wanted],
          send |-> <<LogsJob(g.logs_wanted, g.pending_logs)>>]

\* A refresh goes first.
TryDispatchAny(g) ==
    IF g.busy \/ ~g.pending_refresh THEN TryDispatchLogs(g) ELSE TryDispatchRefresh(g)

\* Coalesced into the refresh that is already waiting to be sent.
RequestRefresh(g) ==
    IF g.pending_refresh THEN [gate |-> g, send |-> <<>>]
    ELSE TryDispatchRefresh([g EXCEPT !.refresh_wanted = Succ(@, Gens), !.pending_refresh = TRUE])

RequestLogs(g, u) ==
    TryDispatchLogs([g EXCEPT !.logs_wanted = Succ(@, LogGens), !.pending_logs = u])

\* Variant of RefreshApplies: any answer to the job in flight will do.
RefreshInFlight(g, gen) == g.refresh_inflight = gen

RefreshApplies(g, gen) == g.refresh_inflight = gen /\ gen = g.refresh_wanted
LogsApply(g, gen)      == g.logs_inflight = gen /\ gen = g.logs_wanted

\* Variant of FinishRefresh: waiting log requests stay where they are.
FinishRefreshAlone(g, gen) ==
    TryDispatchRefresh(IF g.refresh_inflight # gen THEN g
                       ELSE [g EXCEPT !.refresh_inflight = None, !.busy = FALSE])

FinishRefresh(g, gen) ==
    TryDispatchAny(IF g.refresh_inflight # gen THEN g
                   ELSE [g EXCEPT !.refresh_inflight = None, !.busy = FALSE])

FinishLogs(g, gen) ==
    TryDispatchAny(IF g.logs_inflight # gen THEN g
                   ELSE [g EXCEPT !.logs_inflight = None, !.busy = FALSE])

-----------------------------------------------------------------------------
(* The UI thread *)

\* Sending to a worker that is gone is not noticed: the job is lost.
Send(s) == jobs' = IF worker = Dead THEN jobs ELSE jobs \o s

\* The unit whose lines maybe_request_logs would ask for, if it asks at all.
WantedUnit(a) == IF a.want_logs /\ a.diagnostics_open THEN SelectedIn(a) ELSE None

\* maybe_request_logs after the app has become a, at the end of a handler.
MaybeRequestLogs(a) ==
    LET u == WantedUnit(a)
        clear == a.want_logs /\ a.diagnostics_open /\ u = None
        r == IF u = None THEN [gate |-> gate, send |-> <<>>] ELSE RequestLogs(gate, u)
    IN  /\ app' = [a EXCEPT !.want_logs = FALSE, !.logs = IF clear THEN None ELSE @]
        /\ gate' = r.gate
        /\ Send(r.send)

Init ==
    LET g == [refresh_wanted |-> 0, refresh_inflight |-> None,
              logs_wanted |-> 0, logs_inflight |-> None,
              pending_refresh |-> FALSE, pending_logs |-> None, busy |-> FALSE]
    IN  /\ app = [view |-> LoadingView, filter |-> Unit, filtering |-> FALSE,
                  rows |-> Rows(LoadingView, Unit), sel |-> 0,
                  logs |-> None, want_logs |-> FALSE, diagnostics_open |-> FALSE,
                  detail_view |-> "cockpit", last_error |-> "none", due |-> FALSE]
        /\ gate = RequestRefresh(g).gate
        /\ jobs = RequestRefresh(g).send
        /\ events = <<>> /\ worker = None /\ phase = "drain" /\ sinceR = TRUE

ApplyRefreshDone ==
    /\ phase = "drain" /\ events # <<>> /\ Head(events).kind = "refresh"
    /\ LET ev == Head(events)
           r  == FinishRefresh(gate, ev.gen)
       IN  /\ app' = IF ~RefreshApplies(gate, ev.gen) THEN app
                     ELSE IF ev.result = None THEN [app EXCEPT !.last_error = "refresh",
                                                               !.due = FALSE]
                     ELSE ReplaceView(app, ev.result)
           /\ gate' = r.gate
           /\ Send(r.send)
    /\ events' = Tail(events)
    /\ UNCHANGED <<worker, phase, sinceR>>

ApplyLogsDone ==
    /\ phase = "drain" /\ events # <<>> /\ Head(events).kind = "logs"
    /\ LET ev == Head(events)
           r  == FinishLogs(gate, ev.gen)
       IN  /\ app' = IF LogsApply(gate, ev.gen) /\ Selected = ev.unit
                     THEN [app EXCEPT !.logs = ev.unit] ELSE app
           /\ gate' = r.gate
           /\ Send(r.send)
    /\ events' = Tail(events)
    /\ UNCHANGED <<worker, phase, sinceR>>

\* The channel is empty: the log request the events left behind is made and the
\* frame is drawn.
EndDrain ==
    /\ phase = "drain" /\ events = <<>>
    /\ MaybeRequestLogs(IF worker = Dead THEN [app EXCEPT !.last_error = "exited"] ELSE app)
    /\ phase' = "poll"
    /\ UNCHANGED <<events, worker, sinceR>>

\* Bound: no input while one more log request would reuse the generation that
\* is in flight.
AtPoll == phase = "poll" /\ Succ(gate.logs_wanted, LogGens) # gate.logs_inflight

\* Variant of Idle: the timer asks whatever is in flight.
IdleImpatient ==
    /\ phase = "poll" /\ phase' = "drain"
    /\ LET r == IF app.due THEN RequestRefresh(gate) ELSE [gate |-> gate, send |-> <<>>]
       IN  gate' = r.gate /\ Send(r.send)
    /\ UNCHANGED <<app, events, worker, sinceR>>

\* The poll ran out without an input: the refresh timer is looked at.
Idle ==
    /\ phase = "poll" /\ phase' = "drain"
    /\ LET r == IF gate.refresh_inflight # None \/ gate.pending_refresh \/ gate.busy \/ ~app.due
                THEN [gate |-> gate, send |-> <<>>]
                ELSE RequestRefresh(gate)
       IN  gate' = r.gate /\ Send(r.send)
    /\ UNCHANGED <<app, events, worker, sinceR>>

\* An input whose handler changes the app to a.
Handled(a) ==
    /\ AtPoll /\ phase' = "drain"
    /\ MaybeRequestLogs(a)
    /\ UNCHANGED <<events, worker, sinceR>>

\* Any event no handler knows, and scrolling in a pane.
Ignored == AtPoll /\ phase' = "drain" /\ UNCHANGED <<app, gate, jobs, events, worker, sinceR>>

FilterText(f) == app.filtering /\ Handled(RebuildRows(app, app.view, f))

FilterEnter ==
    /\ app.filtering
    /\ Handled(MarkLogsNeeded([RebuildRows(app, app.view, app.filter) EXCEPT !.filtering = FALSE]))

FilterEsc ==
    /\ app.filtering
    /\ Handled(MarkLogsNeeded([RebuildRows(app, app.view, Unit) EXCEPT !.filtering = FALSE]))

StartFilter == ~app.filtering /\ Handled([app EXCEPT !.filtering = TRUE])

\* The keys j and k, and the wheel over the list.
Move(dir) == ~app.filtering /\ Handled(MoveSel(app, dir))
WheelOverList(dir) == app.filtering /\ Handled(MoveSel(app, dir))

KeyWiringOrTopology == ~app.filtering /\ \E p \in Pane : Handled(ToggleDetail(app, p))

KeyDiagnostics == ~app.filtering /\ Handled(ToggleDiagnostics(app))

\* Esc closes the drawer, then the pane, then the console.
KeyEsc ==
    /\ ~app.filtering
    /\ \/ app.diagnostics_open /\ Handled(ToggleDiagnostics(app))
       \/ /\ ~app.diagnostics_open /\ app.detail_view # "cockpit"
          /\ Handled([app EXCEPT !.detail_view = "cockpit"])

KeyRefresh ==
    /\ ~app.filtering /\ AtPoll /\ phase' = "drain"
    /\ LET r == RequestRefresh(gate) IN gate' = r.gate /\ Send(r.send)
    /\ sinceR' = FALSE
    /\ UNCHANGED <<app, events, worker>>

\* The key q, and Esc with nothing left to close.
Quit ==
    /\ ~app.filtering /\ AtPoll /\ phase' = "quit"
    /\ UNCHANGED <<app, gate, jobs, events, worker, sinceR>>

\* REFRESH_EVERY has passed since the last snapshot.
RefreshDue ==
    /\ phase # "quit" /\ ~app.due
    /\ app' = [app EXCEPT !.due = TRUE]
    /\ UNCHANGED <<gate, jobs, events, worker, phase, sinceR>>

-----------------------------------------------------------------------------
(* The worker thread *)

TakeJob ==
    /\ phase # "quit" /\ worker = None /\ jobs # <<>>
    /\ worker' = Head(jobs) /\ jobs' = Tail(jobs)
    /\ sinceR' = (sinceR \/ Head(jobs).kind = "refresh")
    /\ UNCHANGED <<app, gate, events, phase>>

WorkerRuns(kind) == phase # "quit" /\ worker \notin {None, Dead} /\ worker.kind = kind

\* A snapshot, or None for the error (a panic is caught and is one).
RefreshDone ==
    /\ WorkerRuns("refresh")
    /\ \E result \in (View \ {LoadingView}) \cup {None} :
           events' = Append(events, [kind |-> "refresh", gen |-> worker.gen, unit |-> None,
                                     result |-> result])
    /\ worker' = None
    /\ UNCHANGED <<app, gate, jobs, phase, sinceR>>

\* The lines of the unit or the notice that they are unavailable.
LogsDone ==
    /\ WorkerRuns("logs")
    /\ events' = Append(events, [kind |-> "logs", gen |-> worker.gen, unit |-> worker.unit,
                                 result |-> None])
    /\ worker' = None
    /\ UNCHANGED <<app, gate, jobs, phase, sinceR>>

\* A panic in the log reader is not caught: the thread and its channels are gone.
LogsPanic ==
    /\ WorkerRuns("logs")
    /\ worker' = Dead /\ jobs' = <<>>
    /\ UNCHANGED <<app, gate, events, phase, sinceR>>

Stopped == phase = "quit" /\ UNCHANGED vars

Input ==
    \/ Ignored \/ (\E f \in Filter : FilterText(f)) \/ FilterEnter \/ FilterEsc \/ StartFilter
    \/ (\E dir \in {1, -1} : Move(dir) \/ WheelOverList(dir))
    \/ KeyWiringOrTopology \/ KeyDiagnostics \/ KeyEsc \/ KeyRefresh \/ Quit

UIStep == ApplyRefreshDone \/ ApplyLogsDone \/ EndDrain \/ Idle
WorkerStep == TakeJob \/ RefreshDone \/ LogsDone

Next == UIStep \/ Input \/ RefreshDue \/ WorkerStep \/ LogsPanic \/ Stopped

\* The UI loop runs on (the poll times out), every job ends (BACKEND_TIMEOUT
\* bounds each call) and time passes.
Fairness == WF_vars(UIStep) /\ WF_vars(WorkerStep) /\ WF_vars(RefreshDue)

Spec == Init /\ [][Next]_vars /\ Fairness

-----------------------------------------------------------------------------
(* Properties *)

AppType ==
    [view : View, filter : SUBSET Unit, filtering : BOOLEAN,
     rows : Seq(Unit \cup {Header}), sel : Nat,
     logs : Unit \cup {None}, want_logs : BOOLEAN, diagnostics_open : BOOLEAN,
     detail_view : Pane \cup {"cockpit"}, last_error : {"none", "refresh", "exited"}, due : BOOLEAN]

GateType ==
    [refresh_wanted : Gen, refresh_inflight : Gen \cup {None},
     logs_wanted : LogGen, logs_inflight : LogGen \cup {None},
     pending_refresh : BOOLEAN, pending_logs : Unit \cup {None}, busy : BOOLEAN]

EventType == [kind : {"refresh"}, gen : Gen, unit : {None}, result : View \cup {None}]
                 \cup [kind : {"logs"}, gen : LogGen, unit : Unit, result : {None}]

\* The places of u in a list.
Hits(s, u) == {i \in DOMAIN s : s[i] = u}

\* Every operation of the snapshot that the filter lets through is listed once
\* in its section, also when the declared parents form a cycle
\* (hierarchy_rows, sectioned_rows).
EveryUnitListedOnce ==
    \A u \in Unit :
        Cardinality(Hits(app.rows, u)) = (IF u \in app.view.owned \cap app.filter THEN 1 ELSE 0)
                                         + (IF u \in app.view.watching \cap app.filter THEN 1 ELSE 0)

\* Every variable has its type, every operation its one row, and one is selected
\* whenever there is a row.
ConsoleTypeOK ==
    /\ app \in AppType
    /\ gate \in GateType
    /\ jobs \in Seq(Job) /\ events \in Seq(EventType)
    /\ worker \in Job \cup {None, Dead}
    /\ phase \in {"drain", "poll", "quit"} /\ sinceR \in BOOLEAN
    /\ EveryUnitListedOnce
    /\ (Selected = None) <=> ((app.view.owned \cup app.view.watching) \cap app.filter = {})

\* The jobs that are somewhere between the gate and its answer.
Outstanding == jobs \o (IF worker \in {None, Dead} THEN <<>> ELSE <<worker>>)
                    \o [i \in DOMAIN events |-> [kind |-> events[i].kind, gen |-> events[i].gen,
                                                 unit |-> events[i].unit]]

\* The gate is busy exactly when one job is on its way through the two channels
\* and the worker, and it is the job the gate remembers: no second job queues up
\* behind a slow backend and no answer is ever taken for another's (BackendCtl
\* and the two mpsc channels, tui.rs:1016-1101).
OneJobOnItsWay ==
    worker # Dead =>
        /\ Len(Outstanding) = IF gate.busy THEN 1 ELSE 0
        /\ \A i \in DOMAIN Outstanding :
               LET j == Outstanding[i]
               IN  /\ gate.refresh_inflight = IF j.kind = "refresh" THEN j.gen ELSE None
                   /\ gate.logs_inflight = IF j.kind = "logs" THEN j.gen ELSE None

\* When a frame is drawn with the drawer open and no filter being typed, the
\* lines shown are the selected operation's, or the request for them is on its
\* way under the generation that will be accepted; with nothing selected no
\* lines are shown (maybe_request_logs, apply_event, tui.rs:1226-1322). Only a
\* dead worker leaves the lines of another unit standing.
DrawerShowsOrAsks ==
    (phase = "poll" /\ app.diagnostics_open /\ ~app.filtering /\ worker # Dead) =>
        \/ app.logs = Selected
        \/ Selected # None /\ gate.pending_logs = Selected
        \/ \E i \in DOMAIN Outstanding :
               Outstanding[i] = LogsJob(gate.logs_wanted, Selected)

\* A snapshot replaces the shown one only if the worker started to read it after
\* the last time the key r was pressed: the answer to an older request, in flight
\* when the key was pressed, is never shown as the answer to it (the generations
\* of BackendCtl).
SnapshotsPostdateTheKey ==
    [][(app'.view # app.view \/ (app.due /\ ~app'.due)) => sinceR]_vars

\* The poll ends with an input: with anything that its running out is not.
InputEndsPoll == phase = "poll" /\ phase' # "poll" /\ ~Idle

\* The input asks the backend for something.
AskingInput == InputEndsPoll /\ (gate'.logs_wanted # gate.logs_wanted \/ KeyRefresh)

\* Snapshots keep being applied, or their errors shown, as long as the user pauses
\* again and again for the length of a poll and does not ask for lines or for a
\* refresh for ever: the timer's own requests never make the answers stale (the
\* comment at tui.rs:1029-1031), and the lines every snapshot asks for again never
\* hold it up. A panic in the log reader ends it for good.
SnapshotsKeepComing ==
    ([]<><<Idle>>_vars /\ <>[][~AskingInput]_vars) =>
        ([]<>(~app.due) \/ <>(worker = Dead))

\* The drawer always shows the lines of the selected operation or asks for them,
\* and shows them in the end, unless the user goes on giving input for ever, the
\* view changes, or the worker is gone.
DrawerCatchesUp ==
    /\ []DrawerShowsOrAsks
    /\ <>[][~InputEndsPoll]_vars =>
           \A u \in Unit :
               (phase = "poll" /\ app.diagnostics_open /\ ~app.filtering /\ Selected = u)
                   ~> (app.logs = u \/ Selected # u \/ ~app.diagnostics_open \/ app.filtering
                       \/ worker = Dead \/ phase = "quit")
=============================================================================
